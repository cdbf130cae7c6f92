--------------------------- MODULE CommerceProofs ---------------------------
(***************************************************************************)
(* Proofs about Contracts and Commission, as parts of Records: for any     *)
(* contracts, obligations, evidence, entries, rules, settlements and       *)
(* people, and any number of overlapping transactions.                     *)
(*                                                                         *)
(* Contracts: what an operation writes is one document, of which its       *)
(* snapshot is right, so that what is said of one document carries over    *)
(* from the snapshot (ContractsSound).  Only the evidence of an obligation *)
(* is in others: its links stay those of the obligation, because a link    *)
(* that a snapshot shows is still of what it was (LinksAged).  A step that *)
(* ends no transaction that missed a commit decides on the database as it  *)
(* is (ContractsSeeAll), and then the guards keep what an overtaken one    *)
(* may break.                                                              *)
(*                                                                         *)
(* Commission: an entry that has been settled keeps its amount, so that a  *)
(* settlement computed from a snapshot is right for the database           *)
(* (SettlementStays), and a settlement stands for its lines, so that who   *)
(* writes one has the other as it is (CommissionAged).  What a payee gets  *)
(* in all is a sum over the settlements of sums over their entries: the    *)
(* unique index keeps these apart, and the facts about sums that follow    *)
(* are proved by taking a smallest counterexample.                         *)
(***************************************************************************)
EXTENDS AccessProofs, WellFoundedInduction
-----------------------------------------------------------------------------
(* Contracts, obligations and their evidence.                              *)

\* s with the documents puts written.
ContractsAfter(s, puts) == [d \in Con!Docs |-> IF d \in DOMAIN puts THEN puts[d] ELSE s[d]]

\* The variables are the functions SnapshotTxn takes them for.
ContractsTaken ==
  /\ db = [d \in Con!Docs |-> db[d]]
  /\ snap = [c \in Clients |-> snap[c]]
  /\ missed \in [Clients -> SUBSET Con!Docs]
  /\ \A c \in Clients : Con!InTxn(c) => snap[c] = [d \in Con!Docs |-> snap[c][d]]

ContractType == [status : {"none", "DRAFT", "PENDING_SIGNATURE", "ACTIVE", "EXPIRED",
                           "TERMINATED", "ARCHIVED"}]

ObligationType ==
  [status : {"DRAFT", "OPEN", "DELIVERED", "REJECTED", "ACCEPTED", "CANCELLED", "ARCHIVED"},
   contract : ContractIds, required : BOOLEAN, direct : BOOLEAN, links : SUBSET Links,
   deliverer : Actors \cup {Con!NoOne}, reviewer : Actors \cup {Con!NoOne}]

LinkType == [status : {"ACTIVE", "REMOVED"}, of : Obligations, event : EvidenceEvents]

\* DeliveryKept, of one obligation.
DeliveredKept(obligation) ==
  /\ obligation.status \in {"DELIVERED", "REJECTED", "ACCEPTED"} /\ obligation.required =>
       obligation.direct \/ obligation.links # {}
  /\ obligation.status = "ACCEPTED" =>
       obligation.reviewer \notin {Con!NoOne, obligation.deliverer}

Linked(s, l, o) == s[Con!LinkDoc(l)] # Con!Nothing /\ s[Con!LinkDoc(l)].of = o

\* An obligation, and its evidence among the links of s.
ObligationOK(s, o, obligation) ==
  /\ obligation \in ObligationType
  /\ DeliveredKept(obligation)
  /\ \A l \in obligation.links : Linked(s, l, o)

ContractsOK(s) ==
  /\ \A k \in ContractIds : s[Con!ContractDoc(k)] \in ContractType
  /\ \A l \in Links : s[Con!LinkDoc(l)] \in LinkType \cup {Con!Nothing}
  /\ \A o \in Obligations :
       \/ s[Con!ObligationDoc(o)] = Con!Nothing
       \/ ObligationOK(s, o, s[Con!ObligationDoc(o)])

\* What a snapshot shows linked still is, to the same obligation.
LinksAged == \A c \in Clients : Con!InTxn(c) =>
  \A l \in Links, o \in Obligations : Linked(snap[c], l, o) => Linked(db, l, o)

\* The inductive invariant.
ContractsInv ==
  /\ ContractsTaken
  /\ ContractsOK(db)
  /\ \A c \in Clients : Con!InTxn(c) => ContractsOK(snap[c])
  /\ Con!SnapshotCurrent
  /\ LinksAged

\* What the writes of an operation that reads s have to be like.
ContractsSound(s, puts) ==
  /\ DOMAIN puts \subseteq Con!Docs
  /\ \A k \in ContractIds : Con!ContractDoc(k) \in DOMAIN puts =>
       puts[Con!ContractDoc(k)] \in ContractType
  /\ \A l \in Links : Con!LinkDoc(l) \in DOMAIN puts =>
       /\ puts[Con!LinkDoc(l)] \in LinkType
       /\ s[Con!LinkDoc(l)] = Con!Nothing
            \/ s[Con!LinkDoc(l)].of = puts[Con!LinkDoc(l)].of
  /\ \A o \in Obligations : Con!ObligationDoc(o) \in DOMAIN puts =>
       ObligationOK(s, o, puts[Con!ObligationDoc(o)])
-----------------------------------------------------------------------------
(* Documents and commits.                                                  *)

\* The documents of the three kinds are different, and there.
LEMMA ContractsDocs ==
  /\ \A k \in ContractIds : Con!ContractDoc(k) \in Con!Docs
  /\ \A o \in Obligations : Con!ObligationDoc(o) \in Con!Docs
  /\ \A l \in Links : Con!LinkDoc(l) \in Con!Docs
  /\ \A k, o : Con!ContractDoc(k) # Con!ObligationDoc(o)
  /\ \A k, l : Con!ContractDoc(k) # Con!LinkDoc(l)
  /\ \A o, l : Con!ObligationDoc(o) # Con!LinkDoc(l)
  /\ \A k, j : Con!ContractDoc(k) = Con!ContractDoc(j) => k = j
  /\ \A o, p : Con!ObligationDoc(o) = Con!ObligationDoc(p) => o = p
  /\ \A l, m : Con!LinkDoc(l) = Con!LinkDoc(m) => l = m
  BY DEF Con!Docs, Con!ContractDoc, Con!ObligationDoc, Con!LinkDoc

\* The write of one document.
LEMMA ContractsPut ==
  ASSUME NEW d, NEW content
  PROVE  DOMAIN Con!:>(d, content) = {d} /\ Con!:>(d, content)[d] = content
  BY DEF Con!:>

\* A commit writes to the database what its transaction would write to its
\* snapshot, and of what it writes its snapshot is right.
LEMMA ContractsRight ==
  ASSUME ContractsTaken, Con!SnapshotCurrent, NEW c \in Clients \cup {Con!Now}, Con!Ready(c),
         NEW puts, DOMAIN puts \subseteq Con!Docs, Con!Commit(c, puts)
  PROVE  /\ db' = ContractsAfter(db, puts)
         /\ \A d \in DOMAIN puts : Con!Seen(c)[d] = db[d]
  BY DEF ContractsTaken, Con!SnapshotCurrent, Con!Ready, Con!Commit, ContractsAfter, Con!Seen, Con!Now

\* Who has missed nothing sees the database.
LEMMA ContractsSeeAll ==
  ASSUME ContractsInv, NEW c \in Clients \cup {Con!Now}, Con!Ready(c), ~Con!LateStep,
         NEW puts, Con!Commit(c, puts)
  PROVE  Con!Seen(c) = db
<1>1. CASE c = Con!Now
  BY <1>1 DEF Con!Seen
<1>2. CASE c # Con!Now
  <2>1. c \in Clients /\ Con!InTxn(c)
    BY <1>2 DEF Con!Ready
  <2>2. ~Con!InTxn(c)'
    BY <2>1 DEF Con!Commit, Con!InTxn
  <2>3. missed[c] = {}
    BY <2>1, <2>2 DEF Con!LateStep
  <2>4. \A d \in Con!Docs : snap[c][d] = db[d]
    BY <2>1, <2>3 DEF ContractsInv, Con!SnapshotCurrent
  <2>5. snap[c] = [d \in Con!Docs |-> snap[c][d]] /\ db = [d \in Con!Docs |-> db[d]]
    BY <2>1 DEF ContractsInv, ContractsTaken
  <2>6. snap[c] = db
    BY <2>4, <2>5
  <2> QED BY <1>2, <2>6 DEF Con!Seen
<1> QED BY <1>1, <1>2

\* What a transaction reads is in order.
LEMMA ContractsSeen ==
  ASSUME ContractsInv, NEW c \in Clients \cup {Con!Now}, Con!Ready(c)
  PROVE  ContractsOK(Con!Seen(c))
  BY DEF ContractsInv, Con!Ready, Con!Seen, Con!Now

\* What is linked in a snapshot is linked in the database.
LEMMA LinksSeen ==
  ASSUME ContractsInv, NEW c \in Clients \cup {Con!Now}, Con!Ready(c),
         NEW l \in Links, NEW o \in Obligations, Linked(Con!Seen(c), l, o)
  PROVE  Linked(db, l, o)
  BY DEF ContractsInv, LinksAged, Con!Ready, Con!Seen, Con!Now

\* ContractsSound writes keep the invariant.
LEMMA ContractsCommit ==
  ASSUME ContractsInv, NEW c \in Clients \cup {Con!Now}, Con!Ready(c),
         NEW puts, ContractsSound(Con!Seen(c), puts), Con!Commit(c, puts)
  PROVE  ContractsInv'
<1> DEFINE s == Con!Seen(c)
<1>1. db' = ContractsAfter(db, puts) /\ \A d \in DOMAIN puts : s[d] = db[d]
  BY ContractsRight DEF ContractsInv, ContractsSound
<1>2. \A o \in Clients : Con!InTxn(o)' =>
        /\ Con!InTxn(o) /\ snap'[o] = snap[o]
        /\ missed'[o] = missed[o] \cup DOMAIN puts
  BY DEF Con!Commit, ContractsInv, ContractsTaken, Con!InTxn, Con!NoSnapshot
<1>3. ContractsTaken'
  BY <1>1, <1>2 DEF Con!Commit, ContractsTaken, ContractsAfter, ContractsInv, ContractsSound, Con!InTxn, Con!NoSnapshot
<1>4. Con!SnapshotCurrent'
  BY <1>1, <1>2 DEF Con!SnapshotCurrent, ContractsInv, ContractsAfter
<1>5. \A d \in Con!Docs : db'[d] = IF d \in DOMAIN puts THEN puts[d] ELSE db[d]
  BY <1>1 DEF ContractsAfter
<1>6. \A l \in Links, o \in Obligations : Linked(db, l, o) => Linked(db', l, o)
  <2> SUFFICES ASSUME NEW l \in Links, NEW o \in Obligations, Linked(db, l, o)
               PROVE  Linked(db', l, o)
    OBVIOUS
  <2>1. CASE Con!LinkDoc(l) \in DOMAIN puts
    <3>1. /\ puts[Con!LinkDoc(l)] \in LinkType
          /\ puts[Con!LinkDoc(l)].of = o
      BY <2>1, <1>1 DEF ContractsSound, Linked
    <3> QED BY <3>1, <2>1, <1>5, ContractsDocs DEF Linked, LinkType, Con!Nothing
  <2>2. CASE Con!LinkDoc(l) \notin DOMAIN puts
    BY <2>2, <1>5, ContractsDocs DEF Linked
  <2> QED BY <2>1, <2>2
<1>7. ContractsOK(db')
  <2>1. \A k \in ContractIds : db'[Con!ContractDoc(k)] \in ContractType
    BY <1>5, ContractsDocs DEF ContractsInv, ContractsOK, ContractsSound
  <2>2. \A l \in Links : db'[Con!LinkDoc(l)] \in LinkType \cup {Con!Nothing}
    BY <1>5, ContractsDocs DEF ContractsInv, ContractsOK, ContractsSound
  <2>3. ASSUME NEW o \in Obligations, db'[Con!ObligationDoc(o)] # Con!Nothing
        PROVE  ObligationOK(db', o, db'[Con!ObligationDoc(o)])
    <3>1. CASE Con!ObligationDoc(o) \in DOMAIN puts
      <4>1. ObligationOK(s, o, puts[Con!ObligationDoc(o)])
        BY <3>1 DEF ContractsSound
      <4>2. \A l \in puts[Con!ObligationDoc(o)].links : Linked(db, l, o)
        BY <4>1, LinksSeen DEF ObligationOK, ObligationType
      <4> HIDE DEF s
      <4> QED BY <4>1, <4>2, <3>1, <1>5, <1>6, ContractsDocs DEF ObligationOK, ObligationType
    <3>2. CASE Con!ObligationDoc(o) \notin DOMAIN puts
      <4>1. db'[Con!ObligationDoc(o)] = db[Con!ObligationDoc(o)]
        BY <3>2, <1>5, ContractsDocs
      <4>2. ObligationOK(db, o, db[Con!ObligationDoc(o)])
        BY <4>1, <2>3 DEF ContractsInv, ContractsOK
      <4> QED BY <4>1, <4>2, <1>6 DEF ObligationOK, ObligationType
    <3> QED BY <3>1, <3>2
  <2> QED BY <2>1, <2>2, <2>3 DEF ContractsOK
<1>8. \A o \in Clients : Con!InTxn(o)' => ContractsOK(snap'[o])
  BY <1>2 DEF ContractsInv
<1>9. LinksAged'
  BY <1>2, <1>6 DEF ContractsInv, LinksAged, Linked
<1> QED BY <1>3, <1>4, <1>7, <1>8, <1>9 DEF ContractsInv, ContractsOK, ObligationOK, Linked
-----------------------------------------------------------------------------
(* Each operation keeps the invariant.                                     *)

\* An operation writes one document.
LEMMA PutContract ==
  ASSUME ContractsInv, NEW c \in Clients \cup {Con!Now}, Con!Ready(c), NEW k \in ContractIds,
         NEW content \in ContractType,
         Con!Write(c, Con!:>(Con!ContractDoc(k), content))
  PROVE  ContractsInv'
<1> DEFINE puts == Con!:>(Con!ContractDoc(k), content)
<1>1. DOMAIN puts = {Con!ContractDoc(k)} /\ puts[Con!ContractDoc(k)] = content
  BY ContractsPut
<1>2. Con!Commit(c, puts)
  BY DEF Con!Write
<1> HIDE DEF puts
<1>3. ContractsSound(Con!Seen(c), puts)
  BY <1>1, ContractsDocs DEF ContractsSound
<1> QED BY <1>2, <1>3, ContractsCommit

LEMMA PutObligation ==
  ASSUME ContractsInv, NEW c \in Clients \cup {Con!Now}, Con!Ready(c), NEW o \in Obligations,
         NEW content, ObligationOK(Con!Seen(c), o, content),
         Con!Write(c, Con!:>(Con!ObligationDoc(o), content))
  PROVE  ContractsInv'
<1> DEFINE puts == Con!:>(Con!ObligationDoc(o), content)
<1>1. DOMAIN puts = {Con!ObligationDoc(o)} /\ puts[Con!ObligationDoc(o)] = content
  BY ContractsPut
<1>2. Con!Commit(c, puts)
  BY DEF Con!Write
<1> HIDE DEF puts
<1>3. ContractsSound(Con!Seen(c), puts)
  BY <1>1, ContractsDocs DEF ContractsSound
<1> QED BY <1>2, <1>3, ContractsCommit

LEMMA PutLink ==
  ASSUME ContractsInv, NEW c \in Clients \cup {Con!Now}, Con!Ready(c), NEW l \in Links,
         NEW content \in LinkType,
         \/ Con!Seen(c)[Con!LinkDoc(l)] = Con!Nothing
         \/ Con!Seen(c)[Con!LinkDoc(l)].of = content.of,
         Con!Write(c, Con!:>(Con!LinkDoc(l), content))
  PROVE  ContractsInv'
<1> DEFINE puts == Con!:>(Con!LinkDoc(l), content)
<1>1. DOMAIN puts = {Con!LinkDoc(l)} /\ puts[Con!LinkDoc(l)] = content
  BY ContractsPut
<1>2. Con!Commit(c, puts)
  BY DEF Con!Write
<1> HIDE DEF puts
<1>3. ContractsSound(Con!Seen(c), puts)
  BY <1>1, ContractsDocs DEF ContractsSound
<1> QED BY <1>2, <1>3, ContractsCommit

\* The operations on contracts.
LEMMA ContractStepKeeps ==
  ASSUME ContractsInv, NEW c \in Clients \cup {Con!Now}, NEW k \in ContractIds,
         \/ Con!CreateContract(c, k) \/ Con!EditContract(c, k) \/ Con!ArchiveContract(c, k)
         \/ \E to \in {"PENDING_SIGNATURE", "DRAFT", "ACTIVE", "EXPIRED", "TERMINATED"} :
              Con!MoveContract(c, k, to)
  PROVE  ContractsInv'
<1> DEFINE was == Con!Seen(c)[Con!ContractDoc(k)]
<1>1. Con!Ready(c) => was \in ContractType
  BY ContractsSeen DEF ContractsOK
<1>2. CASE Con!CreateContract(c, k)
  BY <1>2, PutContract DEF Con!CreateContract, ContractType
<1>3. CASE Con!EditContract(c, k)
  BY <1>1, <1>3, PutContract DEF Con!EditContract, Con!Contract
<1>4. CASE Con!ArchiveContract(c, k)
  <2>1. [was EXCEPT !.status = "ARCHIVED"] \in ContractType
    BY <1>1, <1>4 DEF ContractType, Con!ArchiveContract
  <2> QED BY <2>1, <1>4, PutContract DEF Con!ArchiveContract, Con!Contract
<1>5. ASSUME NEW to \in {"PENDING_SIGNATURE", "DRAFT", "ACTIVE", "EXPIRED", "TERMINATED"},
             Con!MoveContract(c, k, to)
      PROVE  ContractsInv'
  <2>1. [was EXCEPT !.status = to] \in ContractType
    BY <1>1, <1>5 DEF ContractType, Con!MoveContract
  <2> QED BY <2>1, <1>5, PutContract DEF Con!MoveContract, Con!Contract
<1> QED BY <1>2, <1>3, <1>4, <1>5

\* A new obligation.
LEMMA CreateObligationKeeps ==
  ASSUME ContractsInv, NEW c \in Clients \cup {Con!Now}, NEW o \in Obligations,
         NEW k \in ContractIds, NEW required \in BOOLEAN,
         Con!CreateObligation(c, o, k, required)
  PROVE  ContractsInv'
<1> DEFINE fresh == [status |-> "DRAFT", contract |-> k, required |-> required,
                     direct |-> FALSE, links |-> {}, deliverer |-> Con!NoOne,
                     reviewer |-> Con!NoOne]
<1>1. ObligationOK(Con!Seen(c), o, fresh)
  BY DEF ObligationOK, ObligationType, DeliveredKept
<1> QED BY <1>1, PutObligation DEF Con!CreateObligation

\* What is there and worked on is in order.
LEMMA KnownObligation ==
  ASSUME ContractsInv, NEW c \in Clients \cup {Con!Now}, Con!Ready(c), NEW o \in Obligations,
         Con!Seen(c)[Con!ObligationDoc(o)].status # "none"
  PROVE  ObligationOK(Con!Seen(c), o, Con!Seen(c)[Con!ObligationDoc(o)])
  BY ContractsSeen DEF ContractsOK, Con!Nothing

\* An edit and a move keep the evidence of an obligation that is not delivered.
LEMMA MoveObligationKeeps ==
  ASSUME ContractsInv, NEW c \in Clients \cup {Con!Now}, NEW o \in Obligations,
         \/ \E required \in BOOLEAN : Con!UpdateObligation(c, o, required)
         \/ \E to \in {"OPEN", "CANCELLED", "ARCHIVED"} : Con!MoveObligation(c, o, to)
  PROVE  ContractsInv'
<1> DEFINE s == Con!Seen(c)
           was == s[Con!ObligationDoc(o)]
<1>1. ASSUME NEW required \in BOOLEAN, Con!UpdateObligation(c, o, required)
      PROVE  ContractsInv'
  <2>1. /\ Con!Ready(c) /\ was.status \in {"DRAFT", "OPEN"}
        /\ Con!Write(c, Con!:>(Con!ObligationDoc(o), [was EXCEPT !.required = required]))
    BY <1>1 DEF Con!UpdateObligation, Con!Workable, Con!Obligation
  <2>2. ObligationOK(s, o, was)
    BY <2>1, KnownObligation
  <2> HIDE DEF s
  <2>3. ObligationOK(s, o, [was EXCEPT !.required = required])
    BY <2>1, <2>2 DEF ObligationOK, ObligationType, DeliveredKept
  <2> QED BY <2>1, <2>3, PutObligation DEF s
<1>2. ASSUME NEW to \in {"OPEN", "CANCELLED", "ARCHIVED"}, Con!MoveObligation(c, o, to)
      PROVE  ContractsInv'
  <2>1. /\ Con!Ready(c) /\ was.status # "none"
        /\ Con!Write(c, Con!:>(Con!ObligationDoc(o), [was EXCEPT !.status = to]))
    BY <1>2 DEF Con!MoveObligation, Con!Obligation
  <2>2. ObligationOK(s, o, was)
    BY <2>1, KnownObligation
  <2> HIDE DEF s
  <2>3. ObligationOK(s, o, [was EXCEPT !.status = to])
    BY <2>1, <2>2 DEF ObligationOK, ObligationType, DeliveredKept
  <2> QED BY <2>1, <2>3, PutObligation DEF s
<1> QED BY <1>1, <1>2

\* A delivery names active links of the obligation, or evidence of its own.
LEMMA DeliverKeeps ==
  ASSUME ContractsInv, NEW c \in Clients \cup {Con!Now}, NEW o \in Obligations,
         NEW actor \in Actors, NEW direct \in BOOLEAN, NEW links \in SUBSET Links,
         Con!Deliver(c, o, actor, direct, links)
  PROVE  ContractsInv'
<1> DEFINE s == Con!Seen(c)
           was == s[Con!ObligationDoc(o)]
           now == [was EXCEPT !.status = "DELIVERED", !.direct = direct, !.links = links,
                              !.deliverer = actor, !.reviewer = Con!NoOne]
<1>1. /\ Con!Ready(c) /\ was.status = "OPEN"
      /\ \A l \in links : Con!ActiveLink(s, l, o)
      /\ was.required => direct \/ links # {}
      /\ Con!Write(c, Con!:>(Con!ObligationDoc(o), now))
  BY DEF Con!Deliver, Con!Workable, Con!Obligation
<1>2. ObligationOK(s, o, was)
  BY <1>1, KnownObligation
<1> HIDE DEF s
<1>3. \A l \in links : Linked(s, l, o)
  BY <1>1 DEF Con!ActiveLink, Con!LinkOf, Linked, Con!Nothing
<1>4. ObligationOK(s, o, now)
  BY <1>1, <1>2, <1>3 DEF ObligationOK, ObligationType, DeliveredKept
<1> HIDE DEF now
<1> QED BY <1>1, <1>4, PutObligation DEF s

\* Another than who delivered accepts.
LEMMA ReviewKeeps ==
  ASSUME ContractsInv, NEW c \in Clients \cup {Con!Now}, NEW o \in Obligations, NEW actor \in Actors,
         Con!Reject(c, o, actor) \/ Con!Accept(c, o, actor)
  PROVE  ContractsInv'
<1> DEFINE s == Con!Seen(c)
           was == s[Con!ObligationDoc(o)]
<1>1. PICK decision \in {"REJECTED", "ACCEPTED"} :
        /\ Con!Ready(c) /\ was.status = "DELIVERED"
        /\ decision = "ACCEPTED" => was.deliverer # actor
        /\ Con!Write(c, Con!:>(Con!ObligationDoc(o),
                               [was EXCEPT !.status = decision, !.reviewer = actor]))
  BY DEF Con!Reject, Con!Accept, Con!Workable, Con!Obligation, Con!Reviewed
<1>2. ObligationOK(s, o, was)
  BY <1>1, KnownObligation
<1> HIDE DEF s
<1>3. ObligationOK(s, o, [was EXCEPT !.status = decision, !.reviewer = actor])
  BY <1>1, <1>2, NoOneIsNobody DEF ObligationOK, ObligationType, DeliveredKept
<1> QED BY <1>1, <1>3, PutObligation DEF s

\* A link is of one obligation from the first.
LEMMA LinkStepKeeps ==
  ASSUME ContractsInv, NEW c \in Clients \cup {Con!Now}, NEW l \in Links,
         \/ Con!RemoveLink(c, l)
         \/ \E o \in Obligations, event \in EvidenceEvents : Con!LinkEvent(c, l, o, event)
  PROVE  ContractsInv'
<1> DEFINE s == Con!Seen(c)
           was == s[Con!LinkDoc(l)]
<1>1. ASSUME NEW o \in Obligations, NEW event \in EvidenceEvents, Con!LinkEvent(c, l, o, event)
      PROVE  ContractsInv'
  <2> DEFINE content == [status |-> "ACTIVE", of |-> o, event |-> event]
  <2>1. /\ Con!Ready(c) /\ db[Con!LinkDoc(l)] = Con!Nothing
        /\ Con!Write(c, Con!:>(Con!LinkDoc(l), content))
    BY <1>1 DEF Con!LinkEvent
  <2>2. was = Con!Nothing
    <3>1. Con!Commit(c, Con!:>(Con!LinkDoc(l), content))
      BY <2>1 DEF Con!Write
    <3>2. DOMAIN Con!:>(Con!LinkDoc(l), content) = {Con!LinkDoc(l)}
      BY ContractsPut
    <3> HIDE DEF content
    <3> QED BY <2>1, <3>1, <3>2, ContractsDocs, ContractsRight DEF ContractsInv
  <2>3. content \in LinkType
    BY DEF LinkType
  <2> HIDE DEF content
  <2> QED BY <2>1, <2>2, <2>3, PutLink
<1>2. CASE Con!RemoveLink(c, l)
  <2>1. /\ Con!Ready(c) /\ was.status = "ACTIVE"
        /\ Con!Write(c, Con!:>(Con!LinkDoc(l), [was EXCEPT !.status = "REMOVED"]))
    BY <1>2 DEF Con!RemoveLink, Con!LinkOf
  <2>2. was \in LinkType
    BY <2>1, ContractsSeen DEF ContractsOK, Con!Nothing
  <2>3. [was EXCEPT !.status = "REMOVED"] \in LinkType
          /\ [was EXCEPT !.status = "REMOVED"].of = was.of
    BY <2>2 DEF LinkType
  <2> QED BY <2>1, <2>3, PutLink
<1> QED BY <1>1, <1>2
-----------------------------------------------------------------------------
(* The invariant.                                                          *)

LEMMA ContractsInit == Con!Init => ContractsInv
<1> SUFFICES ASSUME Con!Init PROVE ContractsInv
  OBVIOUS
<1>1. db = [d \in Con!Docs |-> Con!Nothing] /\ Con!Nothing \in ContractType
  BY DEF Con!Init, ContractType, Con!Nothing
<1>2. \A c \in Clients : ~Con!InTxn(c)
  BY DEF Con!Init, Con!TxnInit, Con!InTxn
<1>3. ContractsTaken
  BY <1>1, <1>2 DEF ContractsTaken, Con!Init, Con!TxnInit
<1>4. ContractsOK(db)
  BY <1>1, ContractsDocs DEF ContractsOK
<1> QED BY <1>2, <1>3, <1>4 DEF ContractsInv, Con!SnapshotCurrent, LinksAged

LEMMA ContractsBegin ==
  ASSUME ContractsInv, NEW c \in Clients, Con!Begin(c)
  PROVE  ContractsInv'
<1>1. /\ snap' = [snap EXCEPT ![c] = db]
      /\ db' = db /\ missed' = missed
  BY DEF Con!Begin
<1>2. \A o \in Clients : snap'[o] = IF o = c THEN db ELSE snap[o]
  BY <1>1 DEF ContractsInv, ContractsTaken
<1>3. \A o \in Clients : o # c => Con!InTxn(o)' = Con!InTxn(o)
  BY <1>2 DEF Con!InTxn, Con!NoSnapshot
<1>4. ContractsTaken'
  BY <1>1, <1>2, <1>3 DEF ContractsInv, ContractsTaken
<1>5. ContractsOK(db)' /\ \A o \in Clients : Con!InTxn(o)' => ContractsOK(snap[o])'
  BY <1>1, <1>2, <1>3 DEF ContractsInv, ContractsOK, ObligationOK, Linked
<1>6. Con!SnapshotCurrent'
  BY <1>1, <1>2, <1>3 DEF ContractsInv, Con!SnapshotCurrent
<1>7. LinksAged'
  BY <1>1, <1>2, <1>3 DEF ContractsInv, LinksAged, Linked
<1> QED BY <1>4, <1>5, <1>6, <1>7 DEF ContractsInv

LEMMA ContractsAbort ==
  ASSUME ContractsInv, NEW c \in Clients, Con!Abort(c)
  PROVE  ContractsInv'
<1>1. /\ snap' = [snap EXCEPT ![c] = Con!NoSnapshot]
      /\ db' = db /\ missed' = [missed EXCEPT ![c] = {}]
  BY DEF Con!Abort
<1>2. \A o \in Clients : Con!InTxn(o)' =>
        Con!InTxn(o) /\ snap'[o] = snap[o] /\ missed'[o] = missed[o]
  BY <1>1 DEF ContractsInv, ContractsTaken, Con!InTxn, Con!NoSnapshot
<1>3. ContractsTaken'
  BY <1>1, <1>2 DEF ContractsInv, ContractsTaken
<1>4. ContractsOK(db)' /\ \A o \in Clients : Con!InTxn(o)' => ContractsOK(snap[o])'
  BY <1>1, <1>2 DEF ContractsInv, ContractsOK, ObligationOK, Linked
<1>5. Con!SnapshotCurrent'
  BY <1>1, <1>2 DEF ContractsInv, Con!SnapshotCurrent
<1>6. LinksAged'
  BY <1>1, <1>2 DEF ContractsInv, LinksAged, Linked
<1> QED BY <1>3, <1>4, <1>5, <1>6 DEF ContractsInv

LEMMA ContractsNext ==
  ASSUME ContractsInv, [Con!Next]_(Con!vars)
  PROVE  ContractsInv'
<1>1. CASE UNCHANGED Con!vars
  <2>1. db' = db /\ snap' = snap /\ missed' = missed
    BY <1>1 DEF Con!vars
  <2>2. \A c \in Clients : Con!InTxn(c)' = Con!InTxn(c)
    BY <2>1 DEF Con!InTxn
  <2>3. ContractsTaken'
    BY <2>1, <2>2 DEF ContractsInv, ContractsTaken
  <2>4. ContractsOK(db)' /\ \A c \in Clients : Con!InTxn(c)' => ContractsOK(snap[c])'
    BY <2>1, <2>2 DEF ContractsInv, ContractsOK, ObligationOK, Linked
  <2>5. Con!SnapshotCurrent' /\ LinksAged'
    BY <2>1, <2>2 DEF ContractsInv, Con!SnapshotCurrent, LinksAged, Linked
  <2> QED BY <2>3, <2>4, <2>5 DEF ContractsInv
<1>2. ASSUME NEW c \in Clients \cup {Con!Now}, Con!Operation(c)
      PROVE  ContractsInv'
  BY <1>2, ContractStepKeeps, CreateObligationKeeps, MoveObligationKeeps, DeliverKeeps,
     ReviewKeeps, LinkStepKeeps DEF Con!Operation
<1> QED BY <1>1, <1>2, ContractsBegin, ContractsAbort DEF Con!Next

\* The invariant of the part.
LEMMA PartIsContracts == Spec => [](part = "contracts" => ContractsInv)
<1> DEFINE I == part = "contracts" => ContractsInv
<1>1. Init => I
  BY ContractsInit DEF Init
<1>2. I /\ [Next]_vars => I'
  <2> SUFFICES ASSUME I, [Next]_vars, part' = "contracts" PROVE ContractsInv'
    OBVIOUS
  <2>1. part = "contracts" /\ [Con!Next]_(Con!vars)
    BY DEF Next, vars, Con!vars
  <2> QED BY <2>1, ContractsNext
<1> QED BY <1>1, <1>2, PTL DEF Spec

\* Whatever transactions overlap, what stands delivered has the evidence its
\* policy asks for, and another than its deliverer accepted it: policy, evidence,
\* deliverer and reviewer are in one document.
THEOREM DeliveryHolds == Spec => []DeliveryKept
<1>1. (part = "contracts" => ContractsInv) => DeliveryKept
  <2> SUFFICES ASSUME ContractsInv, NEW o \in Obligations
               PROVE  DeliveredKept(Con!Obligation(db, o))
    BY DEF DeliveryKept, Con!DeliveryKept, DeliveredKept
  <2>1. CASE db[Con!ObligationDoc(o)] = Con!Nothing
    BY <2>1 DEF DeliveredKept, Con!Obligation, Con!Nothing
  <2>2. CASE ObligationOK(db, o, db[Con!ObligationDoc(o)])
    BY <2>2 DEF ObligationOK, Con!Obligation
  <2> QED BY <2>1, <2>2 DEF ContractsInv, ContractsOK
<1> QED BY <1>1, PartIsContracts, PTL
-----------------------------------------------------------------------------
(* Steps.                                                                  *)

\* What ContractErrsLateStep and StrandedStaysStep say of a timely step.
ContractsCalm(t, u) ==
  /\ \A o \in Obligations : Con!EvidenceGone(u, o) => Con!EvidenceGone(t, o)
  /\ \A k \in ContractIds, o \in Obligations :
       Con!Contract(u, k).status = "ARCHIVED" /\ Con!Unresolved(u, o, k) =>
         Con!Contract(t, k).status = "ARCHIVED" /\ Con!Unresolved(t, o, k)
  /\ \A o \in Obligations : Con!Stranded(t, o) =>
       Con!Obligation(u, o) = Con!Obligation(t, o) /\ Con!Stranded(u, o)

\* u is t but for one document.
ContractsDiffer(t, u, d, content) ==
  \A e \in Con!Docs : u[e] = IF e = d THEN content ELSE t[e]

\* Who has missed nothing writes one document of the database it decides on.
LEMMA TimelyContract ==
  ASSUME ContractsInv, NEW c \in Clients \cup {Con!Now}, Con!Ready(c), ~Con!LateStep,
         NEW d \in Con!Docs, NEW content, Con!Write(c, Con!:>(d, content))
  PROVE  Con!Seen(c) = db /\ ContractsDiffer(db, db', d, content)
<1> DEFINE puts == Con!:>(d, content)
<1>1. DOMAIN puts = {d} /\ puts[d] = content
  BY ContractsPut
<1>2. Con!Commit(c, puts)
  BY DEF Con!Write
<1> HIDE DEF puts
<1>3. db' = ContractsAfter(db, puts)
  BY <1>1, <1>2, ContractsRight DEF ContractsInv
<1> QED BY <1>1, <1>2, <1>3, ContractsSeeAll DEF ContractsAfter, ContractsDiffer

\* The evidence of what is delivered is among the links, and linked to it.
LEMMA EvidenceIsLinked ==
  ASSUME NEW t, ContractsOK(t), NEW o \in Obligations,
         t[Con!ObligationDoc(o)].status \in {"DELIVERED", "REJECTED", "ACCEPTED"},
         NEW l \in t[Con!ObligationDoc(o)].links
  PROVE  l \in Links /\ t[Con!LinkDoc(l)].of = o
  BY DEF ContractsOK, Con!Nothing, ObligationOK, ObligationType, Linked

\* A timely step of a contract: only what has nothing unresolved is archived,
\* and what has ended stays so until then.
LEMMA ContractCalm ==
  ASSUME NEW t, NEW u, NEW k \in ContractIds, NEW content, ContractsOK(t),
         ContractsDiffer(t, u, Con!ContractDoc(k), content),
         content.status = "ARCHIVED" =>
           t[Con!ContractDoc(k)].status = "ARCHIVED"
             \/ ~\E o \in Obligations : Con!Unresolved(t, o, k),
         t[Con!ContractDoc(k)].status \in {"EXPIRED", "TERMINATED"} =>
           content.status \in {"EXPIRED", "TERMINATED"}
             \/ ~\E o \in Obligations : Con!Unresolved(t, o, k)
  PROVE  ContractsCalm(t, u)
<1>1. /\ \A o \in Obligations : u[Con!ObligationDoc(o)] = t[Con!ObligationDoc(o)]
      /\ \A l \in Links : u[Con!LinkDoc(l)] = t[Con!LinkDoc(l)]
      /\ \A j \in ContractIds : u[Con!ContractDoc(j)] =
           IF j = k THEN content ELSE t[Con!ContractDoc(j)]
  BY ContractsDocs DEF ContractsDiffer
<1>2. \A o \in Obligations, j \in ContractIds :
        Con!Unresolved(u, o, j) = Con!Unresolved(t, o, j)
  BY <1>1 DEF Con!Unresolved, Con!Obligation
<1>3. ASSUME NEW o \in Obligations, Con!EvidenceGone(u, o) PROVE Con!EvidenceGone(t, o)
  BY <1>1, <1>3, EvidenceIsLinked DEF Con!EvidenceGone, Con!Obligation, Con!LinkOf
<1>4. ASSUME NEW j \in ContractIds, NEW o \in Obligations,
             Con!Contract(u, j).status = "ARCHIVED", Con!Unresolved(u, o, j)
      PROVE  Con!Contract(t, j).status = "ARCHIVED" /\ Con!Unresolved(t, o, j)
  BY <1>1, <1>2, <1>4 DEF Con!Contract
<1>5. ASSUME NEW o \in Obligations, Con!Stranded(t, o)
      PROVE  Con!Obligation(u, o) = Con!Obligation(t, o) /\ Con!Stranded(u, o)
  <2>1. PICK j \in ContractIds : /\ Con!Unresolved(t, o, j)
                                 /\ Con!Contract(t, j).status \in {"EXPIRED", "TERMINATED"}
    BY <1>5 DEF Con!Stranded
  <2>2. Con!Contract(u, j).status \in {"EXPIRED", "TERMINATED"}
    BY <1>1, <2>1 DEF Con!Contract
  <2> QED BY <1>1, <1>2, <2>1, <2>2 DEF Con!Stranded, Con!Obligation
<1> QED BY <1>3, <1>4, <1>5 DEF ContractsCalm

\* A timely step of an obligation: its contract is in force, and it is delivered
\* with links that are there or was delivered with the same.
LEMMA ObligationCalm ==
  ASSUME NEW t, NEW u, NEW o \in Obligations, NEW content, ContractsOK(t),
         ContractsDiffer(t, u, Con!ObligationDoc(o), content),
         Con!InForce(t, content.contract),
         \/ t[Con!ObligationDoc(o)] = Con!Nothing
         \/ t[Con!ObligationDoc(o)].contract = content.contract,
         content.links \subseteq Links,
         content.status \in {"DELIVERED", "REJECTED", "ACCEPTED"} =>
           \/ \A l \in content.links : t[Con!LinkDoc(l)].status # "REMOVED"
           \/ /\ t[Con!ObligationDoc(o)].status = "DELIVERED"
              /\ t[Con!ObligationDoc(o)].links = content.links
  PROVE  ContractsCalm(t, u)
<1>1. /\ \A p \in Obligations : u[Con!ObligationDoc(p)] =
           IF p = o THEN content ELSE t[Con!ObligationDoc(p)]
      /\ \A l \in Links : u[Con!LinkDoc(l)] = t[Con!LinkDoc(l)]
      /\ \A k \in ContractIds : u[Con!ContractDoc(k)] = t[Con!ContractDoc(k)]
  BY ContractsDocs DEF ContractsDiffer
<1>2. Con!Contract(t, content.contract).status = "ACTIVE"
  BY DEF Con!InForce
<1>3. ASSUME NEW p \in Obligations, Con!EvidenceGone(u, p) PROVE Con!EvidenceGone(t, p)
  <2>1. CASE p # o
    BY <1>1, <1>3, <2>1, EvidenceIsLinked
       DEF Con!EvidenceGone, Con!Obligation, Con!LinkOf
  <2>2. CASE p = o
    <3>1. /\ content.status \in {"DELIVERED", "REJECTED", "ACCEPTED"}
          /\ \E l \in content.links : u[Con!LinkDoc(l)].status = "REMOVED"
      BY <1>1, <1>3, <2>2 DEF Con!EvidenceGone, Con!Obligation, Con!LinkOf
    <3>2. PICK l \in content.links : t[Con!LinkDoc(l)].status = "REMOVED"
      BY <1>1, <3>1
    <3> QED BY <2>2, <3>1, <3>2 DEF Con!EvidenceGone, Con!Obligation, Con!LinkOf
  <2> QED BY <2>1, <2>2
<1>4. ASSUME NEW j \in ContractIds, NEW p \in Obligations,
             Con!Contract(u, j).status = "ARCHIVED", Con!Unresolved(u, p, j)
      PROVE  Con!Contract(t, j).status = "ARCHIVED" /\ Con!Unresolved(t, p, j)
  <2>1. Con!Contract(t, j).status = "ARCHIVED"
    BY <1>1, <1>4 DEF Con!Contract
  <2>2. p # o
    BY <1>1, <1>2, <1>4, <2>1 DEF Con!Unresolved, Con!Obligation
  <2> QED BY <1>1, <1>4, <2>1, <2>2 DEF Con!Unresolved, Con!Obligation
<1>5. ASSUME NEW p \in Obligations, Con!Stranded(t, p)
      PROVE  Con!Obligation(u, p) = Con!Obligation(t, p) /\ Con!Stranded(u, p)
  <2>1. PICK j \in ContractIds : /\ Con!Unresolved(t, p, j)
                                 /\ Con!Contract(t, j).status \in {"EXPIRED", "TERMINATED"}
    BY <1>5 DEF Con!Stranded
  <2>2. p # o
    BY <1>2, <2>1 DEF Con!Unresolved, Con!UnresolvedStatuses, Con!Obligation, Con!Nothing
  <2>3. u[Con!ObligationDoc(p)] = t[Con!ObligationDoc(p)]
          /\ u[Con!ContractDoc(j)] = t[Con!ContractDoc(j)]
    BY <1>1, <2>2
  <2> QED BY <2>1, <2>3 DEF Con!Stranded, Con!Obligation, Con!Unresolved, Con!Contract
<1> QED BY <1>3, <1>4, <1>5 DEF ContractsCalm

\* A timely step of a link: the obligation it is removed from is open.
LEMMA LinkCalm ==
  ASSUME NEW t, NEW u, NEW l \in Links, NEW content, ContractsOK(t),
         ContractsDiffer(t, u, Con!LinkDoc(l), content),
         content.status = "REMOVED" =>
           Con!Obligation(t, t[Con!LinkDoc(l)].of).status = "OPEN"
  PROVE  ContractsCalm(t, u)
<1>1. /\ \A o \in Obligations : u[Con!ObligationDoc(o)] = t[Con!ObligationDoc(o)]
      /\ \A m \in Links : u[Con!LinkDoc(m)] =
           IF m = l THEN content ELSE t[Con!LinkDoc(m)]
      /\ \A k \in ContractIds : u[Con!ContractDoc(k)] = t[Con!ContractDoc(k)]
  BY ContractsDocs DEF ContractsDiffer
<1>2. ASSUME NEW o \in Obligations, Con!EvidenceGone(u, o) PROVE Con!EvidenceGone(t, o)
  <2> DEFINE was == t[Con!ObligationDoc(o)]
  <2>1. /\ was.status \in {"DELIVERED", "REJECTED", "ACCEPTED"}
        /\ \E m \in was.links : u[Con!LinkDoc(m)].status = "REMOVED"
    BY <1>1, <1>2 DEF Con!EvidenceGone, Con!Obligation, Con!LinkOf
  <2>2. PICK m \in was.links : u[Con!LinkDoc(m)].status = "REMOVED"
    BY <2>1
  <2>3. m \in Links /\ t[Con!LinkDoc(m)].of = o
    BY <2>1, EvidenceIsLinked
  <2>4. m # l
    BY <1>1, <2>1, <2>2, <2>3 DEF Con!Obligation
  <2> QED BY <1>1, <2>1, <2>2, <2>3, <2>4 DEF Con!EvidenceGone, Con!Obligation, Con!LinkOf
<1>3. \A o \in Obligations, k \in ContractIds :
        Con!Unresolved(u, o, k) = Con!Unresolved(t, o, k)
          /\ Con!Contract(u, k) = Con!Contract(t, k)
          /\ Con!Obligation(u, o) = Con!Obligation(t, o)
  BY <1>1 DEF Con!Unresolved, Con!Obligation, Con!Contract
<1> QED BY <1>2, <1>3, <1>1 DEF ContractsCalm, Con!Stranded, Con!Obligation

\* The timely operations on contracts.
LEMMA ContractStepCalm ==
  ASSUME ContractsInv, ~Con!LateStep, NEW c \in Clients \cup {Con!Now}, NEW k \in ContractIds,
         \/ Con!CreateContract(c, k) \/ Con!EditContract(c, k) \/ Con!ArchiveContract(c, k)
         \/ \E to \in {"PENDING_SIGNATURE", "DRAFT", "ACTIVE", "EXPIRED", "TERMINATED"} :
              Con!MoveContract(c, k, to)
  PROVE  ContractsCalm(db, db')
<1> DEFINE d == Con!ContractDoc(k)
           seen == Con!Seen(c)[d]
<1>1. Con!Ready(c) /\ d \in Con!Docs /\ ContractsOK(db)
  BY ContractsDocs DEF Con!CreateContract, Con!EditContract, Con!ArchiveContract,
                Con!MoveContract, ContractsInv
<1>2. CASE Con!CreateContract(c, k)
  <2> DEFINE now == [status |-> "DRAFT"]
  <2>1. db[d].status = "none" /\ now.status = "DRAFT" /\ Con!Write(c, Con!:>(d, now))
    BY <1>2 DEF Con!CreateContract, Con!Nothing
  <2> HIDE DEF now
  <2>2. ContractsDiffer(db, db', d, now)
    BY <1>1, <2>1, TimelyContract
  <2> QED BY <1>1, <2>1, <2>2, ContractCalm
<1>3. CASE Con!EditContract(c, k)
  <2>1. seen.status # "ARCHIVED" /\ Con!Write(c, Con!:>(d, seen))
    BY <1>3 DEF Con!EditContract, Con!Contract
  <2>2. Con!Seen(c) = db /\ ContractsDiffer(db, db', d, seen)
    BY <1>1, <2>1, TimelyContract
  <2> QED BY <1>1, <2>1, <2>2, ContractCalm
<1>4. CASE Con!ArchiveContract(c, k)
  <2> DEFINE now == [seen EXCEPT !.status = "ARCHIVED"]
  <2>1. /\ ~\E o \in Obligations : Con!Unresolved(Con!Seen(c), o, k)
        /\ Con!Write(c, Con!:>(d, now))
    BY <1>4 DEF Con!ArchiveContract, Con!Contract
  <2> HIDE DEF now
  <2>2. Con!Seen(c) = db /\ ContractsDiffer(db, db', d, now)
    BY <1>1, <2>1, TimelyContract
  <2> QED BY <1>1, <2>1, <2>2, ContractCalm
<1>5. ASSUME NEW to \in {"PENDING_SIGNATURE", "DRAFT", "ACTIVE", "EXPIRED", "TERMINATED"},
             Con!MoveContract(c, k, to)
      PROVE  ContractsCalm(db, db')
  <2> DEFINE now == [seen EXCEPT !.status = to]
  <2>1. /\ seen.status \in {"DRAFT", "PENDING_SIGNATURE", "ACTIVE"}
        /\ Con!Write(c, Con!:>(d, now))
    BY <1>5 DEF Con!MoveContract, Con!Contract
  <2>2. Con!Seen(c) = db /\ ContractsDiffer(db, db', d, now)
    BY <1>1, <2>1, TimelyContract
  <2>3. now.status = to
    BY <1>1, <2>2 DEF ContractsOK, ContractType
  <2> HIDE DEF now
  <2> QED BY <1>1, <2>1, <2>2, <2>3, ContractCalm
<1> QED BY <1>2, <1>3, <1>4, <1>5

\* The timely operations on obligations.
LEMMA ObligationStepCalm ==
  ASSUME ContractsInv, ~Con!LateStep, NEW c \in Clients \cup {Con!Now}, NEW o \in Obligations,
         \/ \E k \in ContractIds, required \in BOOLEAN : Con!CreateObligation(c, o, k, required)
         \/ \E required \in BOOLEAN : Con!UpdateObligation(c, o, required)
         \/ \E to \in {"OPEN", "CANCELLED", "ARCHIVED"} : Con!MoveObligation(c, o, to)
         \/ \E actor \in Actors :
              \/ \E direct \in BOOLEAN, links \in SUBSET Links :
                   Con!Deliver(c, o, actor, direct, links)
              \/ Con!Reject(c, o, actor)
              \/ Con!Accept(c, o, actor)
  PROVE  ContractsCalm(db, db')
<1> DEFINE d == Con!ObligationDoc(o)
           seen == Con!Seen(c)[d]
<1>1. Con!Ready(c) /\ d \in Con!Docs /\ ContractsOK(db)
  BY ContractsDocs DEF Con!CreateObligation, Con!UpdateObligation, Con!MoveObligation,
                Con!Deliver, Con!Reject, Con!Accept, ContractsInv
\* A new one.
<1>2. ASSUME NEW k \in ContractIds, NEW required \in BOOLEAN,
             Con!CreateObligation(c, o, k, required)
      PROVE  ContractsCalm(db, db')
  <2> DEFINE now == [status |-> "DRAFT", contract |-> k, required |-> required,
                     direct |-> FALSE, links |-> {}, deliverer |-> Con!NoOne,
                     reviewer |-> Con!NoOne]
  <2>1. /\ db[d] = Con!Nothing /\ Con!InForce(Con!Seen(c), k)
        /\ Con!Write(c, Con!:>(d, now))
    BY <1>2 DEF Con!CreateObligation
  <2>2. /\ now.contract = k /\ now.status = "DRAFT" /\ now.links \subseteq Links
    OBVIOUS
  <2> HIDE DEF now
  <2>3. Con!Seen(c) = db /\ ContractsDiffer(db, db', d, now)
    BY <1>1, <2>1, TimelyContract
  <2> QED BY <1>1, <2>1, <2>2, <2>3, ObligationCalm
\* One that is there: what is written is of the same contract, and what is not
\* delivered by it, or just then, has the links it had.
<1>3. ASSUME NEW now, Con!Write(c, Con!:>(d, now)),
             seen.status # "none", Con!InForce(Con!Seen(c), seen.contract),
             seen \in ObligationType =>
               /\ now.contract = seen.contract /\ now.links \subseteq Links
               /\ now.status \in {"DELIVERED", "REJECTED", "ACCEPTED"} =>
                    \/ \A l \in now.links : Con!ActiveLink(Con!Seen(c), l, o)
                    \/ seen.status = "DELIVERED" /\ seen.links = now.links
      PROVE  ContractsCalm(db, db')
  <2>1. Con!Seen(c) = db /\ ContractsDiffer(db, db', d, now)
    BY <1>1, <1>3, TimelyContract
  <2>2. seen \in ObligationType
    BY <1>1, <1>3, KnownObligation DEF ObligationOK
  <2>3. (\A l \in now.links : Con!ActiveLink(db, l, o)) =>
          \A l \in now.links : db[Con!LinkDoc(l)].status # "REMOVED"
    BY DEF Con!ActiveLink, Con!LinkOf
  <2> QED BY <1>1, <1>3, <2>1, <2>2, <2>3, ObligationCalm
<1>4. ASSUME NEW required \in BOOLEAN, Con!UpdateObligation(c, o, required)
      PROVE  ContractsCalm(db, db')
  <2> DEFINE now == [seen EXCEPT !.required = required]
  <2>1. /\ Con!Write(c, Con!:>(d, now)) /\ seen.status \in {"DRAFT", "OPEN"}
        /\ Con!InForce(Con!Seen(c), seen.contract)
    BY <1>4 DEF Con!UpdateObligation, Con!Workable, Con!Obligation
  <2>2. seen \in ObligationType =>
          now.contract = seen.contract /\ now.links \subseteq Links /\ now.status = seen.status
    BY DEF ObligationType
  <2> HIDE DEF now, seen
  <2> QED BY <2>1, <2>2, <1>3
<1>5. ASSUME NEW to \in {"OPEN", "CANCELLED", "ARCHIVED"}, Con!MoveObligation(c, o, to)
      PROVE  ContractsCalm(db, db')
  <2> DEFINE now == [seen EXCEPT !.status = to]
  <2>1. /\ Con!Write(c, Con!:>(d, now)) /\ seen.status # "none"
        /\ Con!InForce(Con!Seen(c), seen.contract)
    BY <1>5 DEF Con!MoveObligation, Con!Obligation
  <2>2. seen \in ObligationType =>
          now.contract = seen.contract /\ now.links \subseteq Links /\ now.status = to
    BY DEF ObligationType
  <2> HIDE DEF now, seen
  <2> QED BY <2>1, <2>2, <1>3
<1>6. ASSUME NEW actor \in Actors, NEW direct \in BOOLEAN, NEW links \in SUBSET Links,
             Con!Deliver(c, o, actor, direct, links)
      PROVE  ContractsCalm(db, db')
  <2> DEFINE now == [seen EXCEPT !.status = "DELIVERED", !.direct = direct, !.links = links,
                                 !.deliverer = actor, !.reviewer = Con!NoOne]
  <2>1. /\ Con!Write(c, Con!:>(d, now)) /\ seen.status = "OPEN"
        /\ Con!InForce(Con!Seen(c), seen.contract)
        /\ \A l \in links : Con!ActiveLink(Con!Seen(c), l, o)
    BY <1>6 DEF Con!Deliver, Con!Workable, Con!Obligation
  <2>2. seen \in ObligationType => now.contract = seen.contract /\ now.links = links
    BY DEF ObligationType
  <2> HIDE DEF now, seen
  <2> QED BY <2>1, <2>2, <1>3
<1>7. ASSUME NEW actor \in Actors, Con!Reject(c, o, actor) \/ Con!Accept(c, o, actor)
      PROVE  ContractsCalm(db, db')
  <2>1. PICK decision \in {"REJECTED", "ACCEPTED"} :
          /\ Con!Write(c, Con!:>(d, [seen EXCEPT !.status = decision, !.reviewer = actor]))
          /\ seen.status = "DELIVERED" /\ Con!InForce(Con!Seen(c), seen.contract)
    BY <1>7 DEF Con!Reject, Con!Accept, Con!Workable, Con!Obligation, Con!Reviewed
  <2> DEFINE now == [seen EXCEPT !.status = decision, !.reviewer = actor]
  <2>2. seen \in ObligationType =>
          now.contract = seen.contract /\ now.links = seen.links /\ now.links \subseteq Links
    BY DEF ObligationType
  <2>3. Con!Write(c, Con!:>(d, now))
    BY <2>1
  <2> HIDE DEF now, seen
  <2> QED BY <2>1, <2>2, <2>3, <1>3
<1> QED BY <1>2, <1>4, <1>5, <1>6, <1>7

\* The timely operations on links.
LEMMA LinkStepCalm ==
  ASSUME ContractsInv, ~Con!LateStep, NEW c \in Clients \cup {Con!Now}, NEW l \in Links,
         \/ Con!RemoveLink(c, l)
         \/ \E o \in Obligations, event \in EvidenceEvents : Con!LinkEvent(c, l, o, event)
  PROVE  ContractsCalm(db, db')
<1> DEFINE d == Con!LinkDoc(l)
           seen == Con!Seen(c)[d]
<1>1. Con!Ready(c) /\ d \in Con!Docs /\ ContractsOK(db)
  BY ContractsDocs DEF Con!RemoveLink, Con!LinkEvent, ContractsInv
<1>2. ASSUME NEW o \in Obligations, NEW event \in EvidenceEvents, Con!LinkEvent(c, l, o, event)
      PROVE  ContractsCalm(db, db')
  <2> DEFINE now == [status |-> "ACTIVE", of |-> o, event |-> event]
  <2>1. Con!Write(c, Con!:>(d, now)) /\ now.status = "ACTIVE"
    BY <1>2 DEF Con!LinkEvent
  <2> HIDE DEF now
  <2>2. ContractsDiffer(db, db', d, now)
    BY <1>1, <2>1, TimelyContract
  <2> QED BY <1>1, <2>1, <2>2, LinkCalm
<1>3. CASE Con!RemoveLink(c, l)
  <2> DEFINE now == [seen EXCEPT !.status = "REMOVED"]
  <2>1. /\ Con!Write(c, Con!:>(d, now))
        /\ Con!Obligation(Con!Seen(c), seen.of).status = "OPEN"
    BY <1>3 DEF Con!RemoveLink, Con!Workable, Con!LinkOf
  <2> HIDE DEF now
  <2>2. Con!Seen(c) = db /\ ContractsDiffer(db, db', d, now)
    BY <1>1, <2>1, TimelyContract
  <2> QED BY <1>1, <2>1, <2>2, LinkCalm
<1> QED BY <1>2, <1>3

\* Evidence goes, and an archived contract gets unresolved obligations, only by a
\* transaction that missed another's commit; what an ended contract strands no
\* timely step moves: expire and terminate do not ask, and nothing else helps.
THEOREM ContractsErrOnlyLate == Spec => ContractsErrLate
<1>1. ASSUME ContractsInv, [Con!Next]_(Con!vars)
      PROVE  Con!ContractErrsLateStep /\ Con!StrandedStaysStep
  <2> SUFFICES ASSUME ~Con!LateStep PROVE ContractsCalm(db, db')
    BY DEF Con!ContractErrsLateStep, Con!StrandedStaysStep, ContractsCalm
  <2>1. ASSUME NEW c \in Clients \cup {Con!Now}, Con!Operation(c)
        PROVE  ContractsCalm(db, db')
    BY <1>1, <2>1, ContractStepCalm, ObligationStepCalm, LinkStepCalm DEF Con!Operation
  <2>2. CASE db' = db
    BY <2>2 DEF ContractsCalm
  <2> QED BY <1>1, <2>1, <2>2 DEF Con!Next, Con!Begin, Con!Abort, Con!vars
<1>2. (part = "contracts" => ContractsInv) /\ [Next]_vars =>
        [part = "contracts" => Con!ContractErrsLateStep /\ Con!StrandedStaysStep]_vars
  <2> SUFFICES ASSUME part = "contracts" => ContractsInv, [Next]_vars, part = "contracts"
               PROVE  Con!ContractErrsLateStep /\ Con!StrandedStaysStep
    OBVIOUS
  <2>1. [Con!Next]_(Con!vars)
    BY DEF Next, vars, Con!vars
  <2> QED BY <1>1, <2>1
<1> QED BY <1>2, PartIsContracts, PTL DEF Spec, ContractsErrLate
-----------------------------------------------------------------------------
(* Revenue entries and what is paid of them.                               *)

EntryType ==
  [status : {"DRAFT", "FINALIZED", "RECONCILED", "VOIDED", "ARCHIVED"}, amount : Amounts]

RuleType ==
  [status : {"DRAFT", "ACTIVE", "INACTIVE", "ARCHIVED"}, payee : Payees, rate : Rates]

\* The entry is not edited any more.
Settled(s, e) == s[Com!EntryDoc(e)].status \notin {"none", "DRAFT"}

\* A settlement with its lines, of entries as s has them.
SettlementOK(s, x, lines) ==
  /\ x = [f \in DOMAIN x |-> x[f]]
  /\ DOMAIN x = {"status", "rule", "payee", "rate", "entries", "gross", "amount"}
  /\ x.status \in {"DRAFT", "FINALIZED", "VOIDED", "ARCHIVED"}
  /\ x.rule \in Rules /\ x.payee \in Payees /\ x.rate \in Rates /\ x.entries \subseteq Entries
  /\ DOMAIN lines = x.entries
  /\ x.amount = Com!SumFunction(lines)
  /\ x.gross = Com!Gross(s, x.entries)
  /\ \A e \in x.entries : Settled(s, e)
  /\ \E rate \in Rates : \A e \in x.entries :
       lines[e] = Com!Share(s[Com!EntryDoc(e)].amount, rate)

\* What is said of one state of the documents.
CommissionOK(s) ==
  /\ \A e \in Entries : s[Com!EntryDoc(e)] \in EntryType \cup {Com!Nothing}
  /\ \A r \in Rules : s[Com!RuleDoc(r)] \in RuleType \cup {Com!Nothing}
  /\ \A t \in Settlements : s[Com!SettlementDoc(t)] # Com!Nothing =>
       SettlementOK(s, s[Com!SettlementDoc(t)], s[Com!Lines(t)])

\* What is known of a snapshot: an entry it shows settled has the amount it
\* shows, and a settlement stands for its lines.
CommissionAged(c) ==
  /\ \A e \in Entries : Settled(snap[c], e) =>
       Settled(db, e) /\ db[Com!EntryDoc(e)].amount = snap[c][Com!EntryDoc(e)].amount
  /\ \A t \in Settlements : Com!Lines(t) \in missed[c] => Com!SettlementDoc(t) \in missed[c]

\* The inductive invariant.
CommissionInv ==
  /\ Taken(Com!Docs)
  /\ CommissionOK(db)
  /\ \A c \in Clients :
       IF Open(c) THEN CommissionOK(snap[c]) /\ CommissionAged(c) ELSE missed[c] = {}

CommissionAfter(s, puts) == [d \in Com!Docs |-> IF d \in DOMAIN puts THEN puts[d] ELSE s[d]]

\* What an operation that reads s may write.
CommissionSound(s, puts) ==
  /\ DOMAIN puts \subseteq Com!Docs
  /\ \A e \in Entries : Com!EntryDoc(e) \in DOMAIN puts =>
       /\ puts[Com!EntryDoc(e)] \in EntryType
       /\ Settled(s, e) => /\ puts[Com!EntryDoc(e)].status # "DRAFT"
                           /\ puts[Com!EntryDoc(e)].amount = s[Com!EntryDoc(e)].amount
  /\ \A r \in Rules : Com!RuleDoc(r) \in DOMAIN puts => puts[Com!RuleDoc(r)] \in RuleType
  /\ \A t \in Settlements :
       /\ Com!Lines(t) \in DOMAIN puts => Com!SettlementDoc(t) \in DOMAIN puts
       /\ Com!SettlementDoc(t) \in DOMAIN puts =>
            SettlementOK(s, puts[Com!SettlementDoc(t)], CommissionAfter(s, puts)[Com!Lines(t)])

LEMMA CommissionDocs ==
  /\ \A e \in Entries : Com!EntryDoc(e) \in Com!Docs
  /\ \A r \in Rules : Com!RuleDoc(r) \in Com!Docs
  /\ \A t \in Settlements : Com!SettlementDoc(t) \in Com!Docs /\ Com!Lines(t) \in Com!Docs
  /\ \A x, y : Com!EntryDoc(x) = Com!EntryDoc(y) => x = y
  /\ \A x, y : Com!RuleDoc(x) = Com!RuleDoc(y) => x = y
  /\ \A x, y : Com!SettlementDoc(x) = Com!SettlementDoc(y) => x = y
  /\ \A x, y : Com!Lines(x) = Com!Lines(y) => x = y
  /\ \A x, y : /\ Com!EntryDoc(x) # Com!RuleDoc(y) /\ Com!EntryDoc(x) # Com!SettlementDoc(y)
               /\ Com!EntryDoc(x) # Com!Lines(y) /\ Com!RuleDoc(x) # Com!SettlementDoc(y)
               /\ Com!RuleDoc(x) # Com!Lines(y) /\ Com!SettlementDoc(x) # Com!Lines(y)
  BY DEF Com!Docs, Com!EntryDoc, Com!RuleDoc, Com!SettlementDoc, Com!Lines

LEMMA CommissionTxn ==
  /\ \A c : Com!Ready(c) <=> Able(c)
  /\ \A c : Com!Seen(c) = Sees(c)
  /\ \A c, puts : Com!Commit(c, puts) <=> Committed(Com!Docs, c, puts)
  /\ \A c : Com!Begin(c) <=> Begun(c)
  /\ \A c : Com!Abort(c) <=> Aborted(c)
  /\ Com!LateCommit <=> Late
  /\ Com!Now = "now"
  BY DEF Com!Ready, Com!Seen, Com!Commit, Com!Begin, Com!Abort, Com!LateCommit,
         Com!InTxn, Com!NoSnapshot, Com!Now, Able, Sees, Committed, Begun, Aborted,
         Late, Open

LEMMA CommissionPut ==
  ASSUME NEW d, NEW x
  PROVE  DOMAIN Com!:>(d, x) = {d} /\ Com!:>(d, x)[d] = x
  BY DEF Com!:>

LEMMA CommissionSees ==
  ASSUME CommissionInv, NEW c \in Clients \cup {"now"}, Able(c)
  PROVE  /\ CommissionOK(Sees(c))
         /\ \A e \in Entries : Settled(Sees(c), e) =>
              Settled(db, e) /\ db[Com!EntryDoc(e)].amount = Sees(c)[Com!EntryDoc(e)].amount
<1>1. CASE c = "now"
  BY <1>1 DEF CommissionInv, Sees
<1>2. CASE c # "now"
  <2>1. c \in Clients /\ Open(c) /\ Sees(c) = snap[c]
    BY <1>2 DEF Able, Sees
  <2> QED BY <2>1 DEF CommissionInv, CommissionAged
<1> QED BY <1>1, <1>2

\* A settlement that is there is in order.
LEMMA SettlementKnown ==
  ASSUME NEW s, CommissionOK(s), NEW t \in Settlements, Com!Settlement(s, t).status # "none"
  PROVE  /\ SettlementOK(s, Com!Settlement(s, t), s[Com!Lines(t)])
         /\ Com!Settlement(s, t).entries \subseteq Entries
<1>1. Com!Settlement(s, t) # Com!Nothing
  BY DEF Com!Nothing
<1>2. SettlementOK(s, Com!Settlement(s, t), s[Com!Lines(t)])
  BY <1>1 DEF CommissionOK, Com!Settlement
<1> QED BY <1>2 DEF SettlementOK

\* A settlement stays in order as long as its entries do.
LEMMA SettlementStays ==
  ASSUME NEW s, NEW u, NEW x, NEW lines, SettlementOK(s, x, lines),
         \A e \in Entries : Settled(s, e) =>
           Settled(u, e) /\ u[Com!EntryDoc(e)].amount = s[Com!EntryDoc(e)].amount
  PROVE  SettlementOK(u, x, lines)
<1>1. \A e \in x.entries : /\ e \in Entries /\ Settled(s, e) /\ Settled(u, e)
                           /\ u[Com!EntryDoc(e)].amount = s[Com!EntryDoc(e)].amount
  BY DEF SettlementOK
<1>3. Com!Gross(u, x.entries) = Com!Gross(s, x.entries)
  <2>1. [e \in x.entries |-> u[Com!EntryDoc(e)].amount]
          = [e \in x.entries |-> s[Com!EntryDoc(e)].amount]
    BY <1>1
  <2> QED BY <2>1 DEF Com!Gross
<1>2. \E rate \in Rates : \A e \in x.entries :
        lines[e] = Com!Share(u[Com!EntryDoc(e)].amount, rate)
  <2>1. PICK rate \in Rates : \A e \in x.entries :
          lines[e] = Com!Share(s[Com!EntryDoc(e)].amount, rate)
    BY DEF SettlementOK
  <2> QED BY <2>1, <1>1
<1> QED BY <1>1, <1>2, <1>3 DEF SettlementOK

\* Sound writes keep the invariant, and what is settled as it is.
LEMMA CommissionCommit ==
  ASSUME CommissionInv, NEW c \in Clients \cup {"now"}, Able(c),
         NEW puts, Committed(Com!Docs, c, puts), CommissionSound(Sees(c), puts)
  PROVE  /\ CommissionInv'
         /\ \A d \in Com!Docs : db'[d] = IF d \in DOMAIN puts THEN puts[d] ELSE db[d]
         /\ \A d \in DOMAIN puts : Sees(c)[d] = db[d]
         /\ \A t \in Settlements : Com!SettlementDoc(t) \in DOMAIN puts =>
              Sees(c)[Com!Lines(t)] = db[Com!Lines(t)]
         /\ \A e \in Entries : Settled(db, e) =>
              Settled(db', e) /\ db'[Com!EntryDoc(e)].amount = db[Com!EntryDoc(e)].amount
<1> DEFINE s == Sees(c)
           written(d) == d \in DOMAIN puts
           here == IF c = "now" THEN {} ELSE missed[c]
<1>1. /\ Taken(Com!Docs)'
      /\ \A d \in Com!Docs : db'[d] = IF d \in DOMAIN puts THEN puts[d] ELSE db[d]
      /\ \A d \in DOMAIN puts : s[d] = db[d]
      /\ \A o \in Clients : Open(o)' =>
           /\ Open(o) /\ snap'[o] = snap[o]
           /\ missed'[o] = missed[o] \cup DOMAIN puts
  BY CommitTaken DEF CommissionInv, CommissionSound
<1>2. \A d \in Com!Docs : d \notin here => s[d] = db[d]
  BY DEF CommissionInv, Taken, Sees, Able
<1>3. \A d \in DOMAIN puts : d \notin here
  BY DEF Committed
<1>4. \A d \in Com!Docs : CommissionAfter(s, puts)[d] = IF d \in DOMAIN puts THEN puts[d] ELSE s[d]
  BY DEF CommissionAfter
<1>5. \A t \in Settlements : Com!Lines(t) \in here => Com!SettlementDoc(t) \in here
  BY DEF CommissionInv, CommissionAged, Able
<1>6. \A e \in Entries : Settled(s, e) =>
        Settled(db, e) /\ db[Com!EntryDoc(e)].amount = s[Com!EntryDoc(e)].amount
  BY CommissionSees
<1> HIDE DEF s, here
<1>7. \A t \in Settlements : written(Com!SettlementDoc(t)) =>
        s[Com!Lines(t)] = db[Com!Lines(t)]
  BY <1>2, <1>3, <1>5, CommissionDocs
<1>8. \A e \in Entries :
        /\ db'[Com!EntryDoc(e)] \in EntryType \cup {Com!Nothing}
        /\ Settled(db, e) =>
             Settled(db', e) /\ db'[Com!EntryDoc(e)].amount = db[Com!EntryDoc(e)].amount
  <2> SUFFICES ASSUME NEW e \in Entries
               PROVE  /\ db'[Com!EntryDoc(e)] \in EntryType \cup {Com!Nothing}
                      /\ Settled(db, e) =>
                           /\ Settled(db', e)
                           /\ db'[Com!EntryDoc(e)].amount = db[Com!EntryDoc(e)].amount
    OBVIOUS
  <2>1. CASE written(Com!EntryDoc(e))
    <3>1. /\ db'[Com!EntryDoc(e)] = puts[Com!EntryDoc(e)]
          /\ s[Com!EntryDoc(e)] = db[Com!EntryDoc(e)]
      BY <2>1, <1>1, CommissionDocs
    <3>2. /\ puts[Com!EntryDoc(e)] \in EntryType
          /\ Settled(s, e) => /\ puts[Com!EntryDoc(e)].status # "DRAFT"
                              /\ puts[Com!EntryDoc(e)].amount = s[Com!EntryDoc(e)].amount
      BY <2>1 DEF CommissionSound, s
    <3>3. puts[Com!EntryDoc(e)].status # "none"
      BY <3>2 DEF EntryType
    <3> QED BY <3>1, <3>2, <3>3 DEF Settled
  <2>2. CASE ~written(Com!EntryDoc(e))
    BY <2>2, <1>1, CommissionDocs DEF CommissionInv, CommissionOK, Settled
  <2> QED BY <2>1, <2>2
<1>9. \A r \in Rules : db'[Com!RuleDoc(r)] \in RuleType \cup {Com!Nothing}
  BY <1>1, CommissionDocs DEF CommissionInv, CommissionOK, CommissionSound
<1>10. ASSUME NEW t \in Settlements, db'[Com!SettlementDoc(t)] # Com!Nothing
       PROVE  SettlementOK(db', db'[Com!SettlementDoc(t)], db'[Com!Lines(t)])
  <2>1. CASE written(Com!SettlementDoc(t))
    <3> DEFINE x == puts[Com!SettlementDoc(t)]
               lines == CommissionAfter(s, puts)[Com!Lines(t)]
    <3>1. SettlementOK(s, x, lines)
      BY <2>1 DEF CommissionSound, s
    <3>2. x = db'[Com!SettlementDoc(t)] /\ lines = db'[Com!Lines(t)]
      BY <2>1, <1>1, <1>4, <1>7, CommissionDocs
    <3> HIDE DEF x, lines
    <3>3. SettlementOK(db', x, lines)
      BY <3>1, <1>6, <1>8, SettlementStays
    <3> QED BY <3>2, <3>3
  <2>2. CASE ~written(Com!SettlementDoc(t))
    <3>1. ~written(Com!Lines(t))
      BY <2>2 DEF CommissionSound
    <3>2. /\ db'[Com!SettlementDoc(t)] = db[Com!SettlementDoc(t)]
          /\ db'[Com!Lines(t)] = db[Com!Lines(t)]
      BY <3>1, <2>2, <1>1, CommissionDocs
    <3> DEFINE x == db[Com!SettlementDoc(t)]
               lines == db[Com!Lines(t)]
    <3>3. SettlementOK(db, x, lines)
      BY <3>2, <1>10 DEF CommissionInv, CommissionOK
    <3> HIDE DEF x, lines
    <3>4. SettlementOK(db', x, lines)
      BY <3>3, <1>8, SettlementStays
    <3> QED BY <3>2, <3>4 DEF x, lines
  <2> QED BY <2>1, <2>2
<1>11. CommissionOK(db)'
  BY <1>8, <1>9, <1>10 DEF CommissionOK, SettlementOK, Settled
<1>12. ASSUME NEW o \in Clients, Open(o)'
       PROVE  CommissionOK(snap[o])' /\ CommissionAged(o)'
  <2>1. /\ Open(o) /\ snap'[o] = snap[o] /\ missed'[o] = missed[o] \cup DOMAIN puts
        /\ CommissionOK(snap[o]) /\ CommissionAged(o)
    BY <1>1, <1>12 DEF CommissionInv
  <2>2. \A t \in Settlements : Com!Lines(t) \in DOMAIN puts => Com!SettlementDoc(t) \in DOMAIN puts
    BY DEF CommissionSound
  <2>3. CommissionOK(snap'[o])
    BY <2>1
  <2> QED BY <2>1, <2>2, <2>3, <1>8 DEF CommissionAged, CommissionOK, SettlementOK, Settled
<1>13. \A o \in Clients : ~Open(o)' => missed'[o] = {}
  BY DEF Committed, Open
<1>14. CommissionInv'
  BY <1>1, <1>11, <1>12, <1>13 DEF CommissionInv
<1> QED BY <1>1, <1>7, <1>8, <1>14 DEF s
-----------------------------------------------------------------------------
(* The operations on entries and rules.                                    *)

CommissionFine == Com!VoidPaidLateStep /\ Com!RatePartsByReplacementStep

\* What is settled keeps its amount, and so its share.
LEMMA RateStays ==
  ASSUME NEW t \in Settlements, CommissionOK(db), Com!AtOwnRate(db, t),
         \A e \in Entries : Settled(db, e) =>
           Settled(db', e) /\ db'[Com!EntryDoc(e)].amount = db[Com!EntryDoc(e)].amount,
         Com!Settlement(db, t) # Com!Nothing,
         Com!Settlement(db', t).rate = Com!Settlement(db, t).rate,
         db'[Com!Lines(t)] = db[Com!Lines(t)]
  PROVE  Com!AtOwnRate(db', t)
<1> DEFINE x == db[Com!SettlementDoc(t)]
           lines == db[Com!Lines(t)]
<1>1. SettlementOK(db, x, lines)
  BY DEF CommissionOK, Com!Settlement
<1>2. \A e \in DOMAIN lines : e \in Entries /\ Settled(db, e)
  BY <1>1 DEF SettlementOK
<1> QED BY <1>2 DEF Com!AtOwnRate

\* A transaction that writes one entry.
LEMMA EntryKeeps ==
  ASSUME CommissionInv, NEW c \in Clients \cup {"now"}, Com!Ready(c), NEW e \in Entries,
         NEW x \in EntryType,
         Com!Write(c, Com!:>(Com!EntryDoc(e), x)),
         Com!Seen(c)[Com!EntryDoc(e)] = db[Com!EntryDoc(e)] /\ Settled(Com!Seen(c), e) =>
           x.status # "DRAFT" /\ x.amount = Com!Seen(c)[Com!EntryDoc(e)].amount,
         x.status = "VOIDED" => ~Com!UsedInFinal(Com!Seen(c), e)
  PROVE  CommissionInv' /\ CommissionFine
<1> DEFINE s == Com!Seen(c)
           d == Com!EntryDoc(e)
           puts == Com!:>(d, x)
<1>1. DOMAIN puts = {d} /\ puts[d] = x
  BY CommissionPut
<1>2. Able(c) /\ Committed(Com!Docs, c, puts) /\ s = Sees(c) /\ Com!Commit(c, puts)
  BY CommissionTxn DEF Com!Write
<1>3. d \in Com!Docs
  BY CommissionDocs
<1> HIDE DEF puts, s
<1>4. s[d] = db[d]
  BY <1>1, <1>2, <1>3, CommitTaken DEF CommissionInv
<1>5. CommissionSound(s, puts)
  <2>1. /\ \A o \in Entries : Com!EntryDoc(o) \in DOMAIN puts => o = e
        /\ \A r \in Rules : Com!RuleDoc(r) \notin DOMAIN puts
        /\ \A t \in Settlements : /\ Com!SettlementDoc(t) \notin DOMAIN puts
                                  /\ Com!Lines(t) \notin DOMAIN puts
    BY <1>1, CommissionDocs
  <2> QED BY <2>1, <1>1, <1>3, <1>4 DEF CommissionSound, s
<1>6. /\ CommissionInv'
      /\ \A f \in Com!Docs : db'[f] = IF f \in DOMAIN puts THEN puts[f] ELSE db[f]
      /\ \A o \in Entries : Settled(db, o) =>
           Settled(db', o) /\ db'[Com!EntryDoc(o)].amount = db[Com!EntryDoc(o)].amount
  BY <1>2, <1>5, CommissionCommit
<1>7. \A t \in Settlements : /\ Com!Settlement(db', t) = Com!Settlement(db, t)
                             /\ db'[Com!Lines(t)] = db[Com!Lines(t)]
  BY <1>1, <1>6, CommissionDocs DEF Com!Settlement
<1>8. Com!RatePartsByReplacementStep
  <2> SUFFICES ASSUME NEW t \in Settlements, Com!Settlement(db', t) # Com!Nothing,
                      ~Com!AtOwnRate(db', t),
                      Com!Settlement(db, t) = Com!Nothing \/ Com!AtOwnRate(db, t)
               PROVE  FALSE
    BY DEF Com!RatePartsByReplacementStep
  <2> QED BY <1>6, <1>7, RateStays DEF CommissionInv
<1>9. Com!VoidPaidLateStep
  <2> SUFFICES ASSUME NEW t \in Settlements, Com!PaysVoid(db', t), ~Com!PaysVoid(db, t), ~Late
               PROVE  FALSE
    BY CommissionTxn DEF Com!VoidPaidLateStep
  <2>1. s = db
    BY <1>2, SeesAll, CommitEnds DEF CommissionInv
  <2>2. PICK o \in Com!Settlement(db, t).entries : db'[Com!EntryDoc(o)].status = "VOIDED"
    BY <1>7 DEF Com!PaysVoid, Com!EntryStatus
  <2>3. Com!Settlement(db, t).status = "FINALIZED" /\ db[Com!EntryDoc(o)].status # "VOIDED"
    BY <2>2, <1>7 DEF Com!PaysVoid, Com!EntryStatus
  <2>4. o \in Entries
    BY <2>3, SettlementKnown DEF CommissionInv
  <2>5. o = e /\ x.status = "VOIDED"
    BY <2>2, <2>3, <2>4, <1>1, <1>6, CommissionDocs
  <2> QED BY <2>1, <2>3, <2>5 DEF Com!UsedInFinal, s
<1> QED BY <1>6, <1>8, <1>9 DEF CommissionFine

LEMMA EntryKnown ==
  ASSUME CommissionInv, NEW c \in Clients \cup {"now"}, Com!Ready(c), NEW e \in Entries,
         Com!EntryStatus(Com!Seen(c), e) # "none"
  PROVE  Com!Seen(c)[Com!EntryDoc(e)] \in EntryType
  BY CommissionTxn, CommissionSees DEF CommissionOK, Com!EntryStatus, Com!Nothing

LEMMA EntryStepKeeps ==
  ASSUME CommissionInv, NEW c \in Clients \cup {"now"}, NEW e \in Entries, Com!EntryStep(c, e)
  PROVE  CommissionInv' /\ CommissionFine
<1> DEFINE s == Com!Seen(c)
           x == s[Com!EntryDoc(e)]
<1>0. x.status = Com!EntryStatus(s, e) /\ (Settled(s, e) => x.status \notin {"none", "DRAFT"})
  BY DEF Com!EntryStatus, Settled
<1>1. ASSUME NEW amount \in Amounts, Com!CreateEntry(c, e, amount)
      PROVE  CommissionInv' /\ CommissionFine
  <2> DEFINE y == [status |-> "DRAFT", amount |-> amount]
  <2>1. /\ Com!Ready(c) /\ db[Com!EntryDoc(e)] = Com!Nothing
        /\ Com!Write(c, Com!:>(Com!EntryDoc(e), y))
    BY <1>1 DEF Com!CreateEntry
  <2>2. y \in EntryType /\ y.status = "DRAFT"
    BY DEF EntryType
  <2> HIDE DEF y
  <2>3. Com!Seen(c)[Com!EntryDoc(e)] = db[Com!EntryDoc(e)] => ~Settled(Com!Seen(c), e)
    BY <2>1 DEF Settled, Com!Nothing
  <2> QED BY <2>1, <2>2, <2>3, EntryKeeps
<1>2. ASSUME NEW amount \in Amounts, Com!UpdateEntry(c, e, amount)
      PROVE  CommissionInv' /\ CommissionFine
  <2> DEFINE y == [x EXCEPT !.amount = amount]
  <2>1. /\ Com!Ready(c) /\ x.status = "DRAFT"
        /\ Com!Write(c, Com!:>(Com!EntryDoc(e), y))
    BY <1>2, <1>0 DEF Com!UpdateEntry
  <2>2. x \in EntryType
    BY <2>1, <1>0, EntryKnown
  <2>3. y \in EntryType /\ y.status = "DRAFT"
    BY <2>1, <2>2 DEF EntryType
  <2> HIDE DEF y
  <2> QED BY <2>1, <2>3, <1>0, EntryKeeps
<1>3. ASSUME NEW to \in {"FINALIZED", "RECONCILED", "VOIDED", "ARCHIVED"}, Com!Ready(c),
             x.status # "none", Com!Write(c, Com!PutEntry(s, e, to)),
             to = "VOIDED" => ~Com!UsedInFinal(s, e)
      PROVE  CommissionInv' /\ CommissionFine
  <2> DEFINE y == [x EXCEPT !.status = to]
  <2>1. Com!Write(c, Com!:>(Com!EntryDoc(e), y))
    BY <1>3 DEF Com!PutEntry
  <2>2. x \in EntryType
    BY <1>3, <1>0, EntryKnown
  <2>3. y \in EntryType /\ y.status = to /\ y.amount = x.amount
    BY <2>2 DEF EntryType
  <2> HIDE DEF y
  <2> QED BY <2>1, <2>3, <1>3, EntryKeeps
<1> HIDE DEF x, s
<1>4. CASE Com!FinalizeEntry(c, e)
  BY <1>4, <1>3, <1>0 DEF Com!FinalizeEntry, s
<1>5. CASE Com!ReconcileEntry(c, e)
  BY <1>5, <1>3, <1>0 DEF Com!ReconcileEntry, s
<1>6. CASE Com!VoidEntry(c, e)
  BY <1>6, <1>3, <1>0 DEF Com!VoidEntry, s
<1>7. CASE Com!ArchiveEntry(c, e)
  BY <1>7, <1>3, <1>0 DEF Com!ArchiveEntry, s
<1> QED BY <1>1, <1>2, <1>4, <1>5, <1>6, <1>7 DEF Com!EntryStep

\* A transaction that writes one rule.
LEMMA RuleKeeps ==
  ASSUME CommissionInv, NEW c \in Clients \cup {"now"}, Com!Ready(c), NEW r \in Rules,
         NEW x \in RuleType, Com!Write(c, Com!:>(Com!RuleDoc(r), x))
  PROVE  CommissionInv' /\ CommissionFine
<1> DEFINE s == Com!Seen(c)
           d == Com!RuleDoc(r)
           puts == Com!:>(d, x)
<1>1. DOMAIN puts = {d} /\ puts[d] = x
  BY CommissionPut
<1>2. Able(c) /\ Committed(Com!Docs, c, puts) /\ s = Sees(c)
  BY CommissionTxn DEF Com!Write
<1>3. d \in Com!Docs
  BY CommissionDocs
<1> HIDE DEF puts, s
<1>4. CommissionSound(s, puts)
  <2>1. /\ \A o \in Entries : Com!EntryDoc(o) \notin DOMAIN puts
        /\ \A o \in Rules : Com!RuleDoc(o) \in DOMAIN puts => o = r
        /\ \A t \in Settlements : /\ Com!SettlementDoc(t) \notin DOMAIN puts
                                  /\ Com!Lines(t) \notin DOMAIN puts
    BY <1>1, CommissionDocs
  <2> QED BY <2>1, <1>1, <1>3 DEF CommissionSound
<1>5. /\ CommissionInv'
      /\ \A f \in Com!Docs : db'[f] = IF f \in DOMAIN puts THEN puts[f] ELSE db[f]
      /\ \A o \in Entries : Settled(db, o) =>
           Settled(db', o) /\ db'[Com!EntryDoc(o)].amount = db[Com!EntryDoc(o)].amount
  BY <1>2, <1>4, CommissionCommit
<1>6. /\ \A t \in Settlements : /\ Com!Settlement(db', t) = Com!Settlement(db, t)
                                /\ db'[Com!Lines(t)] = db[Com!Lines(t)]
      /\ \A o \in Entries : db'[Com!EntryDoc(o)] = db[Com!EntryDoc(o)]
  BY <1>1, <1>5, CommissionDocs DEF Com!Settlement
<1>7. Com!RatePartsByReplacementStep
  <2> SUFFICES ASSUME NEW t \in Settlements, Com!Settlement(db', t) # Com!Nothing,
                      ~Com!AtOwnRate(db', t),
                      Com!Settlement(db, t) = Com!Nothing \/ Com!AtOwnRate(db, t)
               PROVE  FALSE
    BY DEF Com!RatePartsByReplacementStep
  <2> QED BY <1>5, <1>6, RateStays DEF CommissionInv
<1>8. Com!VoidPaidLateStep
  <2>1. ASSUME NEW t \in Settlements, Com!PaysVoid(db', t) PROVE Com!PaysVoid(db, t)
    <3>1. Com!Settlement(db, t).status = "FINALIZED"
      BY <2>1, <1>6 DEF Com!PaysVoid
    <3>2. Com!Settlement(db, t).entries \subseteq Entries
      BY <3>1, SettlementKnown DEF CommissionInv
    <3> QED BY <3>1, <3>2, <2>1, <1>6 DEF Com!PaysVoid, Com!EntryStatus
  <2> QED BY <2>1 DEF Com!VoidPaidLateStep
<1> QED BY <1>5, <1>7, <1>8 DEF CommissionFine

LEMMA RuleStepKeeps ==
  ASSUME CommissionInv, NEW c \in Clients \cup {"now"}, NEW r \in Rules, Com!RuleStep(c, r)
  PROVE  CommissionInv' /\ CommissionFine
<1> DEFINE s == Com!Seen(c)
           x == s[Com!RuleDoc(r)]
<1>1. Com!Ready(c) /\ Com!RuleStatus(s, r) # "none" => x \in RuleType
  BY CommissionTxn, CommissionSees DEF CommissionOK, Com!RuleStatus, Com!Nothing
<1>2. ASSUME NEW payee \in Payees, NEW rate \in Rates, Com!CreateRule(c, r, payee, rate)
      PROVE  CommissionInv' /\ CommissionFine
  <2>1. [status |-> "DRAFT", payee |-> payee, rate |-> rate] \in RuleType
    BY DEF RuleType
  <2> QED BY <2>1, <1>2, RuleKeeps DEF Com!CreateRule
<1>3. ASSUME NEW payee \in Payees, NEW rate \in Rates, Com!UpdateRule(c, r, payee, rate)
      PROVE  CommissionInv' /\ CommissionFine
  <2>1. /\ Com!Ready(c) /\ Com!RuleStatus(s, r) # "none"
        /\ Com!Write(c, Com!:>(Com!RuleDoc(r), [x EXCEPT !.payee = payee, !.rate = rate]))
    BY <1>3 DEF Com!UpdateRule
  <2>2. [x EXCEPT !.payee = payee, !.rate = rate] \in RuleType
    BY <2>1, <1>1 DEF RuleType
  <2> QED BY <2>1, <2>2, RuleKeeps
<1>4. ASSUME NEW to \in {"ACTIVE", "INACTIVE", "ARCHIVED"}, Com!MoveRule(c, r, to)
      PROVE  CommissionInv' /\ CommissionFine
  <2>1. /\ Com!Ready(c) /\ Com!RuleStatus(s, r) # "none"
        /\ Com!Write(c, Com!:>(Com!RuleDoc(r), [x EXCEPT !.status = to]))
    BY <1>4 DEF Com!MoveRule, Com!PutRule
  <2>2. [x EXCEPT !.status = to] \in RuleType
    BY <2>1, <1>1 DEF RuleType
  <2> QED BY <2>1, <2>2, RuleKeeps
<1> QED BY <1>2, <1>3, <1>4 DEF Com!RuleStep

-----------------------------------------------------------------------------
(* The operations on settlements.                                          *)

\* The settlement and its lines after the writes of a transaction that reads s.
SettlementWritten(s, puts, t, x, lines) ==
  /\ Com!SettlementDoc(t) \in DOMAIN puts
  /\ DOMAIN puts \subseteq {Com!SettlementDoc(t), Com!Lines(t)}
  /\ puts[Com!SettlementDoc(t)] = x
  /\ CommissionAfter(s, puts)[Com!Lines(t)] = lines

\* What a transaction that reads s may make of the rate.
RateDue(s, t, x, lines) ==
  \/ /\ Com!Settlement(s, t) # Com!Nothing
     /\ x.rate = Com!Settlement(s, t).rate /\ lines = s[Com!Lines(t)]
  \/ \A e \in DOMAIN lines : lines[e] = Com!Share(s[Com!EntryDoc(e)].amount, x.rate)
  \/ /\ Com!Settlement(s, t) # Com!Nothing
     /\ x.entries # Com!Settlement(s, t).entries
     /\ Com!RateOf(s, t) # Com!Settlement(s, t).rate

\* A transaction that writes one settlement.
LEMMA SettlementKeeps ==
  ASSUME CommissionInv, NEW c \in Clients \cup {"now"}, Com!Ready(c), NEW t \in Settlements,
         NEW x, NEW lines, NEW puts, Com!Write(c, puts),
         SettlementWritten(Com!Seen(c), puts, t, x, lines),
         SettlementOK(Com!Seen(c), x, lines), RateDue(Com!Seen(c), t, x, lines),
         x.status = "FINALIZED" => Com!Payable(Com!Seen(c), x.entries)
  PROVE  CommissionInv' /\ CommissionFine
<1> DEFINE s == Com!Seen(c)
<1>2. Able(c) /\ Committed(Com!Docs, c, puts) /\ s = Sees(c) /\ Com!Commit(c, puts)
  BY CommissionTxn DEF Com!Write
<1> HIDE DEF s
<1>3. /\ DOMAIN puts \subseteq Com!Docs
      /\ \A o \in Entries : Com!EntryDoc(o) \notin DOMAIN puts
      /\ \A r \in Rules : Com!RuleDoc(r) \notin DOMAIN puts
      /\ \A o \in Settlements \ {t} : /\ Com!SettlementDoc(o) \notin DOMAIN puts
                                      /\ Com!Lines(o) \notin DOMAIN puts
  <2>1. DOMAIN puts \subseteq {Com!SettlementDoc(t), Com!Lines(t)}
    BY DEF SettlementWritten
  <2>2. /\ \A o \in Entries : Com!EntryDoc(o) \notin {Com!SettlementDoc(t), Com!Lines(t)}
        /\ \A r \in Rules : Com!RuleDoc(r) \notin {Com!SettlementDoc(t), Com!Lines(t)}
        /\ \A o \in Settlements \ {t} :
             /\ Com!SettlementDoc(o) \notin {Com!SettlementDoc(t), Com!Lines(t)}
             /\ Com!Lines(o) \notin {Com!SettlementDoc(t), Com!Lines(t)}
    BY CommissionDocs
  <2>3. {Com!SettlementDoc(t), Com!Lines(t)} \subseteq Com!Docs
    BY CommissionDocs
  <2> QED BY <2>1, <2>2, <2>3
<1>4. CommissionSound(s, puts)
  <2>1. /\ Com!SettlementDoc(t) \in DOMAIN puts
        /\ SettlementOK(s, puts[Com!SettlementDoc(t)], CommissionAfter(s, puts)[Com!Lines(t)])
    BY DEF SettlementWritten, s
  <2> QED BY <2>1, <1>3 DEF CommissionSound
<1>5. /\ CommissionInv'
      /\ \A d \in Com!Docs : db'[d] = IF d \in DOMAIN puts THEN puts[d] ELSE db[d]
      /\ \A d \in DOMAIN puts : s[d] = db[d]
      /\ s[Com!Lines(t)] = db[Com!Lines(t)]
      /\ \A o \in Entries : Settled(db, o) =>
           Settled(db', o) /\ db'[Com!EntryDoc(o)].amount = db[Com!EntryDoc(o)].amount
  BY <1>2, <1>4, CommissionCommit DEF SettlementWritten
<1>6. /\ \A o \in Settlements \ {t} : /\ Com!Settlement(db', o) = Com!Settlement(db, o)
                                      /\ db'[Com!Lines(o)] = db[Com!Lines(o)]
      /\ \A o \in Entries : db'[Com!EntryDoc(o)] = db[Com!EntryDoc(o)]
  BY <1>3, <1>5, CommissionDocs DEF Com!Settlement
<1>7. /\ Com!Settlement(db', t) = x /\ db'[Com!Lines(t)] = lines
      /\ Com!Settlement(s, t) = Com!Settlement(db, t)
  BY <1>5, CommissionDocs DEF SettlementWritten, Com!Settlement, CommissionAfter, s
<1>8. /\ \A e \in DOMAIN lines : e \in Entries /\ Settled(s, e)
      /\ DOMAIN lines = x.entries
  BY DEF SettlementOK, s
<1>9. \A e \in DOMAIN lines : db'[Com!EntryDoc(e)].amount = s[Com!EntryDoc(e)].amount
  BY <1>2, <1>6, <1>8, CommissionSees
<1>10. Com!RatePartsByReplacementStep
  <2> SUFFICES ASSUME NEW o \in Settlements, Com!Settlement(db', o) # Com!Nothing,
                      ~Com!AtOwnRate(db', o),
                      Com!Settlement(db, o) = Com!Nothing \/ Com!AtOwnRate(db, o)
               PROVE  /\ Com!Settlement(db, o) # Com!Nothing
                      /\ Com!Settlement(db', o).entries # Com!Settlement(db, o).entries
                      /\ \E u \in {db} \cup {snap[p] : p \in {q \in Clients : Com!InTxn(q)}} :
                           Com!RateOf(u, o) # Com!Settlement(db, o).rate
    BY DEF Com!RatePartsByReplacementStep
  <2>1. o = t
    BY <1>5, <1>6, RateStays DEF CommissionInv
  <2>2. CASE /\ Com!Settlement(s, t) # Com!Nothing
             /\ x.rate = Com!Settlement(s, t).rate /\ lines = s[Com!Lines(t)]
    <3>1. /\ Com!Settlement(db, t) # Com!Nothing
          /\ Com!Settlement(db', t).rate = Com!Settlement(db, t).rate
          /\ db'[Com!Lines(t)] = db[Com!Lines(t)]
      BY <2>2, <1>5, <1>7
    <3> QED BY <3>1, <2>1, <1>5, RateStays DEF CommissionInv
  <2>3. CASE \A e \in DOMAIN lines :
               lines[e] = Com!Share(s[Com!EntryDoc(e)].amount, x.rate)
    <3>1. Com!AtOwnRate(db', t)
      BY <2>3, <1>7, <1>9 DEF Com!AtOwnRate
    <3> QED BY <3>1, <2>1
  <2>4. CASE /\ Com!Settlement(s, t) # Com!Nothing
             /\ x.entries # Com!Settlement(s, t).entries
             /\ Com!RateOf(s, t) # Com!Settlement(s, t).rate
    <3>1. s \in {db} \cup {snap[p] : p \in {q \in Clients : Com!InTxn(q)}}
      BY <1>2 DEF Sees, Able, Open, Com!InTxn, Com!NoSnapshot
    <3> QED BY <3>1, <2>4, <2>1, <1>7
  <2> QED BY <2>2, <2>3, <2>4 DEF RateDue, s
<1>11. Com!VoidPaidLateStep
  <2> SUFFICES ASSUME NEW o \in Settlements, Com!PaysVoid(db', o), ~Com!PaysVoid(db, o), ~Late
               PROVE  FALSE
    BY CommissionTxn DEF Com!VoidPaidLateStep
  <2>1. s = db
    BY <1>2, SeesAll, CommitEnds DEF CommissionInv
  <2>2. CASE o = t
    <3>1. PICK e \in x.entries : db'[Com!EntryDoc(e)].status = "VOIDED"
      BY <2>2, <1>7 DEF Com!PaysVoid, Com!EntryStatus
    <3>2. Com!Payable(s, x.entries)
      BY <2>2, <1>7 DEF Com!PaysVoid, s
    <3> QED BY <3>1, <3>2, <2>1, <1>6, <1>8 DEF Com!Payable, Com!EntryStatus
  <2>3. CASE o # t
    <3>1. /\ Com!Settlement(db, o) = Com!Settlement(db', o)
          /\ Com!Settlement(db, o).status = "FINALIZED"
      BY <2>3, <1>6 DEF Com!PaysVoid
    <3>2. Com!Settlement(db, o).entries \subseteq Entries
      BY <3>1, SettlementKnown DEF CommissionInv
    <3> QED BY <3>1, <3>2, <1>6 DEF Com!PaysVoid, Com!EntryStatus
  <2> QED BY <2>2, <2>3
<1> QED BY <1>5, <1>10, <1>11 DEF CommissionFine

\* The terms of a settlement to be, whatever it selects.
TermsOK(base) ==
  /\ base = [f \in DOMAIN base |-> base[f]]
  /\ DOMAIN base = {"status", "rule", "payee", "rate", "entries", "gross", "amount"}
  /\ base.status = "DRAFT" /\ base.rule \in Rules /\ base.payee \in Payees /\ base.rate \in Rates

SameTerms(x, base) == x.rate = base.rate /\ x.status = base.status

\* What a selection of final entries makes of it.
LEMMA SelectedOK ==
  ASSUME NEW s, NEW base, TermsOK(base), NEW es \in SUBSET Entries, NEW rate \in Rates,
         Com!Payable(s, es)
  PROVE  /\ SettlementOK(s, Com!Selected(base, s, es, rate), Com!Evaluated(s, es, rate))
         /\ SameTerms(Com!Selected(base, s, es, rate), base)
         /\ Com!Selected(base, s, es, rate).entries = es
<1> DEFINE x == Com!Selected(base, s, es, rate)
           lines == Com!Evaluated(s, es, rate)
           gross == Com!Gross(s, es)
           amount == Com!SumFunction(lines)
<1>1. x = [base EXCEPT !.entries = es, !.gross = gross, !.amount = amount]
  BY DEF Com!Selected
<1> HIDE DEF gross, amount
<1>2. /\ x = [f \in DOMAIN x |-> x[f]]
      /\ DOMAIN x = {"status", "rule", "payee", "rate", "entries", "gross", "amount"}
      /\ x.status = base.status /\ x.rule = base.rule /\ x.payee = base.payee
      /\ x.rate = base.rate /\ x.entries = es /\ x.gross = gross /\ x.amount = amount
  <2> HIDE DEF x
  <2> QED BY <1>1 DEF TermsOK
<1>3. DOMAIN lines = es /\ \A e \in es : lines[e] = Com!Share(s[Com!EntryDoc(e)].amount, rate)
  BY DEF Com!Evaluated
<1>4. \A e \in es : Settled(s, e)
  BY DEF Com!Payable, Com!EntryStatus, Settled
<1> HIDE DEF x, lines
<1>5. SettlementOK(s, x, lines)
  BY <1>2, <1>3, <1>4 DEF SettlementOK, TermsOK, gross, amount
<1> QED BY <1>2, <1>5 DEF SameTerms, x, lines

LEMMA CommissionOver ==
  ASSUME NEW p, NEW q
  PROVE  /\ DOMAIN Com!@@(p, q) = DOMAIN p \cup DOMAIN q
         /\ \A d \in DOMAIN p : Com!@@(p, q)[d] = p[d]
         /\ \A d \in DOMAIN q : d \notin DOMAIN p => Com!@@(p, q)[d] = q[d]
  BY DEF Com!@@

\* A settlement written with its lines.
LEMMA WrittenWithLines ==
  ASSUME NEW s, NEW t \in Settlements, NEW x, NEW lines
  PROVE  SettlementWritten(s, Com!@@(Com!:>(Com!SettlementDoc(t), x),
                                     Com!:>(Com!Lines(t), lines)), t, x, lines)
<1> DEFINE p == Com!:>(Com!SettlementDoc(t), x)
           q == Com!:>(Com!Lines(t), lines)
           both == Com!@@(p, q)
<1>1. /\ DOMAIN p = {Com!SettlementDoc(t)} /\ p[Com!SettlementDoc(t)] = x
      /\ DOMAIN q = {Com!Lines(t)} /\ q[Com!Lines(t)] = lines
  BY CommissionPut
<1> HIDE DEF p, q
<1>2. /\ DOMAIN both = DOMAIN p \cup DOMAIN q
      /\ \A d \in DOMAIN p : both[d] = p[d]
      /\ \A d \in DOMAIN q : d \notin DOMAIN p => both[d] = q[d]
  BY CommissionOver
<1> HIDE DEF both
<1>3. both[Com!SettlementDoc(t)] = x /\ both[Com!Lines(t)] = lines
  BY <1>1, <1>2, CommissionDocs
<1>4. SettlementWritten(s, both, t, x, lines)
  BY <1>1, <1>2, <1>3, CommissionDocs DEF SettlementWritten, CommissionAfter
<1> QED BY <1>4 DEF both, p, q

\* A draft written with what it selects, at the rate it carries or at the rate
\* its rule has meanwhile.
LEMMA DraftKeeps ==
  ASSUME CommissionInv, NEW c \in Clients \cup {"now"}, Com!Ready(c), NEW t \in Settlements,
         NEW base, TermsOK(base), NEW es \in SUBSET Entries, NEW rate \in Rates,
         Com!Payable(Com!Seen(c), es),
         Com!Write(c, Com!@@(
           Com!:>(Com!SettlementDoc(t), Com!Selected(base, Com!Seen(c), es, rate)),
           Com!:>(Com!Lines(t), Com!Evaluated(Com!Seen(c), es, rate)))),
         \/ base.rate = rate
         \/ /\ Com!Settlement(Com!Seen(c), t) # Com!Nothing
            /\ es # Com!Settlement(Com!Seen(c), t).entries
            /\ Com!RateOf(Com!Seen(c), t) # Com!Settlement(Com!Seen(c), t).rate
  PROVE  CommissionInv' /\ CommissionFine
<1> DEFINE s == Com!Seen(c)
           x == Com!Selected(base, s, es, rate)
           lines == Com!Evaluated(s, es, rate)
           puts == Com!@@(Com!:>(Com!SettlementDoc(t), x), Com!:>(Com!Lines(t), lines))
<1>1. SettlementOK(s, x, lines) /\ SameTerms(x, base) /\ x.entries = es
  BY SelectedOK
<1>2. DOMAIN lines = es /\ \A e \in es : lines[e] = Com!Share(s[Com!EntryDoc(e)].amount, rate)
  BY DEF Com!Evaluated
<1> HIDE DEF s, x, lines
<1>3. SettlementWritten(s, puts, t, x, lines)
  BY WrittenWithLines
<1>4. RateDue(s, t, x, lines)
  BY <1>1, <1>2 DEF RateDue, SameTerms, s
<1>5. x.status = "DRAFT"
  BY <1>1 DEF SameTerms, TermsOK
<1>6. Com!Write(c, puts)
  BY DEF s, x, lines
<1> HIDE DEF puts
<1> QED BY <1>1, <1>3, <1>4, <1>5, <1>6, SettlementKeeps DEF s

\* A settlement written without its lines.
LEMMA TermsKeep ==
  ASSUME CommissionInv, NEW c \in Clients \cup {"now"}, Com!Ready(c), NEW t \in Settlements,
         NEW x, SettlementOK(Com!Seen(c), x, Com!Seen(c)[Com!Lines(t)]),
         Com!Settlement(Com!Seen(c), t).status # "none",
         x.rate = Com!Settlement(Com!Seen(c), t).rate,
         Com!Write(c, Com!:>(Com!SettlementDoc(t), x)),
         x.status = "FINALIZED" => Com!Payable(Com!Seen(c), x.entries)
  PROVE  CommissionInv' /\ CommissionFine
<1> DEFINE s == Com!Seen(c)
           lines == s[Com!Lines(t)]
           puts == Com!:>(Com!SettlementDoc(t), x)
<1>1. DOMAIN puts = {Com!SettlementDoc(t)} /\ puts[Com!SettlementDoc(t)] = x
  BY CommissionPut
<1> HIDE DEF puts
<1>2. CommissionAfter(s, puts)[Com!Lines(t)] = lines
  BY <1>1, CommissionDocs DEF CommissionAfter
<1>3. SettlementWritten(s, puts, t, x, lines)
  BY <1>1, <1>2 DEF SettlementWritten
<1>4. Com!Settlement(s, t) # Com!Nothing
  BY DEF Com!Nothing
<1>5. RateDue(s, t, x, lines)
  BY <1>4 DEF RateDue
<1>6. Com!Write(c, puts)
  BY DEF puts
<1> HIDE DEF lines
<1> QED BY <1>3, <1>5, <1>6, SettlementKeeps DEF lines

\* Moving a settlement on leaves it in order.
LEMMA MovedOK ==
  ASSUME NEW s, NEW x, NEW lines, SettlementOK(s, x, lines),
         NEW to \in {"FINALIZED", "VOIDED", "ARCHIVED"},
         NEW y, y = [x EXCEPT !.status = to]
  PROVE  /\ SettlementOK(s, y, lines)
         /\ y.rate = x.rate /\ y.entries = x.entries /\ y.status = to
<1>1. /\ x = [f \in DOMAIN x |-> x[f]]
      /\ DOMAIN x = {"status", "rule", "payee", "rate", "entries", "gross", "amount"}
  BY DEF SettlementOK
<1>2. /\ y = [f \in DOMAIN y |-> y[f]] /\ DOMAIN y = DOMAIN x
      /\ y.status = to /\ y.rule = x.rule /\ y.payee = x.payee /\ y.rate = x.rate
      /\ y.entries = x.entries /\ y.gross = x.gross /\ y.amount = x.amount
  BY <1>1
<1>3. SettlementOK(s, y, lines)
  BY <1>2 DEF SettlementOK
<1> QED BY <1>2, <1>3

LEMMA SettlementStepKeeps ==
  ASSUME CommissionInv, NEW c \in Clients \cup {"now"}, NEW t \in Settlements,
         Com!SettlementStep(c, t)
  PROVE  CommissionInv' /\ CommissionFine
<1> DEFINE s == Com!Seen(c)
           x == Com!Settlement(s, t)
           lines == s[Com!Lines(t)]
           rule(r) == s[Com!RuleDoc(r)]
<1>1. Com!Ready(c) => CommissionOK(s)
  BY CommissionTxn, CommissionSees
<1>2. ASSUME Com!Ready(c), x.status # "none"
      PROVE  SettlementOK(s, x, lines) /\ x.entries \subseteq Entries /\ x # Com!Nothing
  BY <1>1, <1>2, SettlementKnown DEF Com!Nothing
<1>3. ASSUME Com!Ready(c), NEW r \in Rules, Com!RuleStatus(s, r) = "ACTIVE"
      PROVE  rule(r).payee \in Payees /\ rule(r).rate \in Rates
  <2>1. rule(r) # Com!Nothing /\ rule(r) \in RuleType \cup {Com!Nothing}
    BY <1>1, <1>3 DEF Com!RuleStatus, Com!Nothing, CommissionOK
  <2> QED BY <2>1 DEF RuleType
<1>4. ASSUME NEW r \in Rules, NEW es \in SUBSET Entries, Com!CreateSettlement(c, t, r, es)
      PROVE  CommissionInv' /\ CommissionFine
  <2> DEFINE base == [status |-> "DRAFT", rule |-> r, payee |-> rule(r).payee,
                      rate |-> rule(r).rate, entries |-> {}, gross |-> 0, amount |-> 0]
             rate == rule(r).rate
  <2>1. /\ Com!Ready(c) /\ Com!RuleStatus(s, r) = "ACTIVE" /\ Com!Payable(s, es)
        /\ Com!Write(c, Com!@@(Com!:>(Com!SettlementDoc(t), Com!Selected(base, s, es, rate)),
                               Com!:>(Com!Lines(t), Com!Evaluated(s, es, rate))))
    BY <1>4 DEF Com!CreateSettlement, Com!Selectable
  <2>2. TermsOK(base) /\ rate \in Rates /\ base.rate = rate
    BY <2>1, <1>3 DEF TermsOK
  <2> HIDE DEF base, rate
  <2> QED BY <2>1, <2>2, DraftKeeps
<1>5. ASSUME NEW es \in SUBSET Entries, Com!ReplaceEntries(c, t, es)
      PROVE  CommissionInv' /\ CommissionFine
  <2> DEFINE rate == Com!RateOf(s, t)
  <2>1. /\ Com!Ready(c) /\ x.status = "DRAFT" /\ Com!RuleStatus(s, x.rule) = "ACTIVE"
        /\ Com!Payable(s, es) /\ es # x.entries
        /\ Com!Write(c, Com!@@(Com!:>(Com!SettlementDoc(t), Com!Selected(x, s, es, rate)),
                               Com!:>(Com!Lines(t), Com!Evaluated(s, es, rate))))
    BY <1>5 DEF Com!ReplaceEntries, Com!Selectable, Com!LinesReplaced
  <2>2. SettlementOK(s, x, lines) /\ x # Com!Nothing
    BY <2>1, <1>2
  <2>3. TermsOK(x)
    BY <2>1, <2>2 DEF TermsOK, SettlementOK
  <2>4. rate \in Rates
    BY <2>1, <2>3, <1>3 DEF TermsOK, Com!RateOf
  <2>5. \/ x.rate = rate
        \/ x # Com!Nothing /\ es # x.entries /\ Com!RateOf(s, t) # x.rate
    BY <2>1, <2>2
  <2> HIDE DEF rate
  <2> QED BY <2>1, <2>3, <2>4, <2>5, DraftKeeps DEF rate
<1>6. ASSUME Com!UpdateSettlement(c, t)
      PROVE  CommissionInv' /\ CommissionFine
  <2>1. /\ Com!Ready(c) /\ x.status = "DRAFT"
        /\ Com!Write(c, Com!:>(Com!SettlementDoc(t), x))
    BY <1>6 DEF Com!UpdateSettlement, Com!Kept
  <2>2. SettlementOK(s, x, lines)
    BY <2>1, <1>2
  <2> QED BY <2>1, <2>2, TermsKeep
<1>7. ASSUME NEW to \in {"FINALIZED", "VOIDED", "ARCHIVED"}, Com!Ready(c), x.status # "none",
             Com!Write(c, Com!:>(Com!SettlementDoc(t), [x EXCEPT !.status = to])),
             to = "FINALIZED" => Com!Payable(s, x.entries)
      PROVE  CommissionInv' /\ CommissionFine
  <2> DEFINE y == [x EXCEPT !.status = to]
  <2>1. SettlementOK(s, x, lines)
    BY <1>7, <1>2
  <2>2. y = [x EXCEPT !.status = to] /\ Com!Write(c, Com!:>(Com!SettlementDoc(t), y))
    BY <1>7
  <2> HIDE DEF y, s, x, lines
  <2>3. SettlementOK(s, y, lines) /\ y.rate = x.rate /\ y.entries = x.entries /\ y.status = to
    BY <2>1, <2>2, MovedOK
  <2> QED BY <2>2, <2>3, <1>7, TermsKeep DEF s, x, lines
<1>8. CASE Com!FinalizeSettlement(c, t)
  BY <1>8, <1>7 DEF Com!FinalizeSettlement, Com!Selectable
<1>9. ASSUME NEW to \in {"VOIDED", "ARCHIVED"}, Com!EndSettlement(c, t, to)
      PROVE  CommissionInv' /\ CommissionFine
  BY <1>9, <1>7 DEF Com!EndSettlement
<1> QED BY <1>4, <1>5, <1>6, <1>8, <1>9 DEF Com!SettlementStep
-----------------------------------------------------------------------------
(* What is paid.                                                           *)

LEMMA CommissionSame ==
  ASSUME CommissionInv, Taken(Com!Docs)', db' = db,
         \A c \in Clients :
           /\ Open(c)' => CommissionOK(snap'[c]) /\ CommissionAged(c)'
           /\ ~Open(c)' => missed'[c] = {}
  PROVE  CommissionInv' /\ CommissionFine
<1>1. CommissionOK(db)'
  BY DEF CommissionInv, CommissionOK, SettlementOK, Settled
<1>2. \A c \in Clients : Open(c)' => CommissionOK(snap[c])'
  BY DEF CommissionOK, SettlementOK, Settled
<1>3. CommissionFine
  BY DEF CommissionFine, Com!VoidPaidLateStep, Com!PaysVoid, Com!EntryStatus,
         Com!RatePartsByReplacementStep, Com!AtOwnRate
<1> QED BY <1>1, <1>2, <1>3 DEF CommissionInv

LEMMA CommissionNext ==
  ASSUME CommissionInv, [Com!Next]_(Com!txnVars)
  PROVE  CommissionInv' /\ CommissionFine
<1>1. ASSUME NEW c \in Clients, Com!Begin(c)
      PROVE  CommissionInv' /\ CommissionFine
  <2>1. Begun(c)
    BY <1>1, CommissionTxn
  <2>2. /\ Taken(Com!Docs)' /\ db' = db
        /\ \A o \in Clients : Open(o)' => snap'[o] = IF o = c THEN db ELSE snap[o]
        /\ \A o \in Clients : Open(o)' /\ o # c => Open(o) /\ missed'[o] = missed[o]
    BY <2>1, BeginTaken DEF CommissionInv
  <2>3. missed' = missed /\ missed[c] = {} /\ \A o \in Clients : ~Open(o)' => ~Open(o)
    BY <2>1 DEF Begun, CommissionInv, Open, Taken
  <2>4. ASSUME NEW o \in Clients, Open(o)' PROVE CommissionOK(snap'[o]) /\ CommissionAged(o)'
    <3>1. CASE o = c
      <4>1. snap'[c] = db /\ missed'[c] = {}
        BY <2>2, <2>3, <2>4, <3>1
      <4> QED BY <4>1, <3>1, <2>2 DEF CommissionInv, CommissionAged, Settled
    <3>2. CASE o # c
      BY <3>2, <2>2, <2>4 DEF CommissionInv, CommissionAged, Settled
    <3> QED BY <3>1, <3>2
  <2>5. \A o \in Clients : ~Open(o)' => missed'[o] = {}
    BY <2>3 DEF CommissionInv
  <2> QED BY <2>2, <2>4, <2>5, CommissionSame
<1>2. CASE UNCHANGED <<db, snap, missed>>
  <2>1. /\ Taken(Com!Docs)'
        /\ \A o \in Clients : Open(o)' =>
             Open(o) /\ snap'[o] = snap[o] /\ missed'[o] = missed[o]
    BY <1>2, IdleTaken DEF CommissionInv
  <2>2. \A o \in Clients : Open(o)' => CommissionOK(snap'[o]) /\ CommissionAged(o)'
    BY <2>1, <1>2 DEF CommissionInv, CommissionAged, Settled
  <2>3. \A o \in Clients : ~Open(o)' => missed'[o] = {}
    BY <1>2 DEF CommissionInv, Open
  <2> QED BY <2>1, <2>2, <2>3, <1>2, CommissionSame
<1>3. ASSUME NEW c \in Clients, Com!Abort(c)
      PROVE  CommissionInv' /\ CommissionFine
  <2>1. Aborted(c)
    BY <1>3, CommissionTxn
  <2>2. /\ Taken(Com!Docs)' /\ db' = db
        /\ \A o \in Clients : Open(o)' =>
             Open(o) /\ snap'[o] = snap[o] /\ missed'[o] = missed[o]
    BY <2>1, AbortTaken DEF CommissionInv
  <2>3. \A o \in Clients : Open(o)' => CommissionOK(snap'[o]) /\ CommissionAged(o)'
    BY <2>2 DEF CommissionInv, CommissionAged, Settled
  <2>4. \A o \in Clients : ~Open(o)' => missed'[o] = {}
    BY <2>1 DEF Aborted, CommissionInv, Open, Taken
  <2> QED BY <2>2, <2>3, <2>4, CommissionSame
<1> QED BY <1>1, <1>2, <1>3, EntryStepKeeps, RuleStepKeeps, SettlementStepKeeps, CommissionTxn
        DEF Com!Next, Com!txnVars

LEMMA CommissionInit == Com!Init => CommissionInv
<1> SUFFICES ASSUME Com!Init PROVE CommissionInv
  OBVIOUS
<1>1. /\ db = [d \in Com!Docs |-> IF d[1] = "lines" THEN <<>> ELSE Com!Nothing]
      /\ snap = [c \in Clients |-> <<>>] /\ missed = [c \in Clients |-> {}]
  BY DEF Com!Init, Com!TxnInit, Com!NoSnapshot
<1>2. Taken(Com!Docs)
  BY <1>1 DEF Taken, Open
<1>3. /\ \A e \in Entries : db[Com!EntryDoc(e)] = Com!Nothing
      /\ \A r \in Rules : db[Com!RuleDoc(r)] = Com!Nothing
      /\ \A t \in Settlements : db[Com!SettlementDoc(t)] = Com!Nothing
  <2>1. \A x : /\ Com!EntryDoc(x)[1] = "entry" /\ Com!RuleDoc(x)[1] = "rule"
               /\ Com!SettlementDoc(x)[1] = "settlement"
    BY DEF Com!EntryDoc, Com!RuleDoc, Com!SettlementDoc
  <2> QED BY <2>1, <1>1, CommissionDocs
<1>4. CommissionOK(db)
  BY <1>3 DEF CommissionOK
<1>5. \A c \in Clients : ~Open(c) /\ missed[c] = {}
  BY <1>1 DEF Open
<1> QED BY <1>2, <1>4, <1>5 DEF CommissionInv

LEMMA PartIsCommission == Spec => [](part = "commission" => CommissionInv)
<1>1. Init => (part = "commission" => CommissionInv)
  BY CommissionInit DEF Init
<1>2. (part = "commission" => CommissionInv) /\ [Next]_vars
        => (part = "commission" => CommissionInv)'
  <2> SUFFICES ASSUME part = "commission" => CommissionInv, [Next]_vars, (part = "commission")'
               PROVE  CommissionInv'
    OBVIOUS
  <2>1. part = "commission" /\ [Com!Next]_(Com!txnVars)
    BY DEF Next, vars, Com!txnVars
  <2> QED BY <2>1, CommissionNext
<1> QED BY <1>1, <1>2, PTL DEF Spec

\* A settlement is the sum of its lines, one for each of its entries, all at
\* one rate (replaceSettlementLines writes both), and of entries as the ledger
\* still has them.
LEMMA SettlementsAddUp == Spec => [](part = "commission" => Com!LinesAddUp)
<1>1. CommissionInv => Com!LinesAddUp
  <2> SUFFICES ASSUME CommissionInv, NEW t \in Settlements,
                      Com!Settlement(db, t) # Com!Nothing
               PROVE  LET settlement == Com!Settlement(db, t)
                          lines == db[Com!Lines(t)]
                      IN  /\ DOMAIN lines = settlement.entries
                          /\ settlement.amount = Com!SumFunction(lines)
                          /\ settlement.gross = Com!Gross(db, DOMAIN lines)
                          /\ \E rate \in Rates : \A e \in DOMAIN lines :
                               lines[e] = Com!Share(db[Com!EntryDoc(e)].amount, rate)
    BY DEF Com!LinesAddUp
  <2>1. SettlementOK(db, Com!Settlement(db, t), db[Com!Lines(t)])
    BY DEF CommissionInv, CommissionOK, Com!Settlement
  <2> QED BY <2>1 DEF SettlementOK
<1>2. (part = "commission" => CommissionInv) => (part = "commission" => Com!LinesAddUp)
  BY <1>1
<1> QED BY <1>2, PartIsCommission, PTL

\* A final settlement comes to pay a voided entry only when the commit of its
\* finalization or of the voiding missed the other, and its amounts part from
\* the rate it carries only when its entries are replaced after its rule has
\* another rate.
THEOREM SettlementsStray == Spec => StraysForCause
<1>1. (part = "commission" => CommissionInv) /\ [Next]_vars =>
        [part = "commission" => CommissionFine]_vars
  <2> SUFFICES ASSUME part = "commission", CommissionInv, [Next]_vars PROVE CommissionFine
    OBVIOUS
  <2>1. [Com!Next]_(Com!txnVars)
    BY DEF Next, vars, Com!txnVars
  <2> QED BY <2>1, CommissionNext
<1>2. Spec => [][part = "commission" => CommissionFine]_vars
  BY <1>1, PartIsCommission, PTL DEF Spec
<1> QED BY <1>2 DEF CommissionFine, StraysForCause
-----------------------------------------------------------------------------
(* Sums over finite sets.                                                  *)

\* Induction over the natural numbers, for a set of them.
LEMMA AllNaturals ==
  ASSUME NEW N, 0 \in N, \A n \in Nat : n \in N => n + 1 \in N
  PROVE  Nat \subseteq N
<1> SUFFICES ASSUME Nat \ N # {} PROVE FALSE
  OBVIOUS
<1>1. PICK n \in Nat \ N : \A m \in Nat \ N : <<m, n>> \notin OpToRel(<, Nat)
  BY NatLessThanWellFounded, WFMin
<1>2. n # 0 /\ n - 1 \in Nat /\ n - 1 < n
  OBVIOUS
<1>3. <<n - 1, n>> \in OpToRel(<, Nat)
  BY <1>2 DEF OpToRel
<1>4. n - 1 \in N
  BY <1>1, <1>2, <1>3
<1>5. (n - 1) + 1 = n
  OBVIOUS
<1> QED BY <1>2, <1>4, <1>5

\* Induction over the parts of a finite set.
LEMMA AllParts ==
  ASSUME NEW S, IsFiniteSet(S), NEW Good, {} \in Good,
         \A some \in SUBSET S :
           some # {} /\ (\A x \in some : some \ {x} \in Good) => some \in Good
  PROVE  S \in Good
<1> DEFINE Up(n) == \A some \in SUBSET S : Cardinality(some) = n => some \in Good
           N == {n \in Nat : Up(n)}
<1>0. \A some \in SUBSET S : IsFiniteSet(some) /\ (Cardinality(some) = 0 <=> some = {})
  BY FS_Subset, FS_EmptySet
<1>1. 0 \in N
  BY <1>0
<1>2. ASSUME NEW n \in Nat, n \in N PROVE n + 1 \in N
  <2>1. ASSUME NEW some \in SUBSET S, Cardinality(some) = n + 1 PROVE some \in Good
    <3>1. IsFiniteSet(some) /\ some # {}
      BY <1>0, <2>1
    <3>2. ASSUME NEW x \in some PROVE some \ {x} \in Good
      <4>1. Cardinality(some \ {x}) = Cardinality(some) - 1
        BY <3>1, FS_RemoveElement
      <4>2. Cardinality(some \ {x}) = n
        BY <4>1, <2>1
      <4> QED BY <4>2, <1>2
    <3> QED BY <3>1, <3>2
  <2> QED BY <2>1
<1> HIDE DEF N
<1>3. Nat \subseteq N
  BY <1>1, <1>2, AllNaturals
<1>4. Cardinality(S) \in Nat
  BY FS_CardinalityType
<1> QED BY <1>3, <1>4 DEF N

\* The element of a part that is added next, as the community module takes it.
Pick(some) == CHOOSE x \in some : TRUE

\* What g says of a part when it adds up A.
Added(A, g, some) == IF some = {} THEN 0 ELSE A[Pick(some)] + g[some \ {Pick(some)}]

AddsUp(A, S, g) == g = [some \in SUBSET S |-> Added(A, g, some)]

Total(A, S) == (CHOOSE g : AddsUp(A, S, g))[S]

\* Every finite set is added up by some function.
LEMMA SumExists == ASSUME NEW A, NEW S, IsFiniteSet(S) PROVE \E g : AddsUp(A, S, g)
<1> DEFINE Small(n) == {some \in SUBSET S : Cardinality(some) <= n}
           Upto(n, g) == g = [some \in Small(n) |-> Added(A, g, some)]
           N == {n \in Nat : \E g : Upto(n, g)}
<1>0. \A some \in SUBSET S : /\ IsFiniteSet(some) /\ Cardinality(some) \in Nat
                             /\ Cardinality(some) <= Cardinality(S)
                             /\ Cardinality(some) = 0 <=> some = {}
  BY FS_Subset, FS_CardinalityType, FS_EmptySet
<1>1. 0 \in N
  <2> DEFINE g == [some \in Small(0) |-> 0]
  <2>1. \A some \in Small(0) : some = {}
    BY <1>0
  <2>2. \A some \in Small(0) : Added(A, g, some) = 0
    BY <2>1 DEF Added
  <2> HIDE DEF Small
  <2>3. Upto(0, g)
    BY <2>2
  <2> QED BY <2>3
<1>2. ASSUME NEW n \in Nat, n \in N PROVE n + 1 \in N
  <2>1. PICK g : Upto(n, g)
    BY <1>2
  <2> DEFINE h == [some \in Small(n + 1) |-> Added(A, g, some)]
  <2>2. ASSUME NEW some \in Small(n), some # {}
        PROVE  some \in Small(n + 1)
    BY <1>0
  <2>3. ASSUME NEW some \in Small(n + 1), some # {}
        PROVE  some \ {Pick(some)} \in Small(n) /\ some \ {Pick(some)} \in Small(n + 1)
    <3>1. Pick(some) \in some
      BY <2>3 DEF Pick
    <3>2. Cardinality(some \ {Pick(some)}) = Cardinality(some) - 1
      BY <1>0, <3>1, FS_RemoveElement
    <3> QED BY <1>0, <3>2
  <2> HIDE DEF Small
  <2>4. ASSUME NEW some \in Small(n + 1), some # {}
        PROVE  h[some \ {Pick(some)}] = g[some \ {Pick(some)}]
    <3> DEFINE rest == some \ {Pick(some)}
    <3>1. rest \in Small(n) /\ rest \in Small(n + 1)
      BY <2>3, <2>4
    <3> HIDE DEF rest
    <3>2. h[rest] = Added(A, g, rest)
      BY <3>1
    <3>3. g[rest] = Added(A, g, rest)
      BY <3>1, <2>1
    <3> QED BY <3>2, <3>3 DEF rest
  <2>5. \A some \in Small(n + 1) : Added(A, g, some) = Added(A, h, some)
    <3> HIDE DEF h
    <3> QED BY <2>4 DEF Added
  <2>6. Upto(n + 1, h)
    BY <2>5
  <2> HIDE DEF h, Upto
  <2> QED BY <2>6
<1> HIDE DEF N
<1>3. Cardinality(S) \in N
  BY <1>1, <1>2, AllNaturals, FS_CardinalityType
<1>4. Small(Cardinality(S)) = SUBSET S
  BY <1>0
<1>5. PICK g : Upto(Cardinality(S), g)
  BY <1>3 DEF N
<1> HIDE DEF Small
<1> QED BY <1>4, <1>5 DEF AddsUp

\* And by no two.
LEMMA SumUnique ==
  ASSUME NEW A, NEW S, NEW R, IsFiniteSet(R), R \subseteq S, NEW g, NEW h,
         AddsUp(A, S, g), AddsUp(A, R, h)
  PROVE  g[R] = h[R]
<1> DEFINE Up(n) == \A some \in SUBSET R : Cardinality(some) = n => g[some] = h[some]
           N == {n \in Nat : Up(n)}
<1>0. \A some \in SUBSET R : /\ IsFiniteSet(some) /\ Cardinality(some) \in Nat
                             /\ Cardinality(some) = 0 <=> some = {}
  BY FS_Subset, FS_CardinalityType, FS_EmptySet
<1>1. \A some \in SUBSET R : g[some] = Added(A, g, some) /\ h[some] = Added(A, h, some)
  BY DEF AddsUp
<1>2. 0 \in N
  BY <1>0, <1>1 DEF Added
<1>3. ASSUME NEW n \in Nat, n \in N PROVE n + 1 \in N
  <2>1. ASSUME NEW some \in SUBSET R, Cardinality(some) = n + 1 PROVE g[some] = h[some]
    <3>1. some # {}
      BY <1>0, <2>1
    <3>2. Pick(some) \in some
      BY <3>1 DEF Pick
    <3>3. Cardinality(some \ {Pick(some)}) = n
      BY <1>0, <2>1, <3>2, FS_RemoveElement
    <3>4. g[some \ {Pick(some)}] = h[some \ {Pick(some)}]
      BY <1>3, <3>3
    <3> QED BY <1>1, <3>1, <3>4 DEF Added
  <2> QED BY <2>1
<1> HIDE DEF N
<1>4. Cardinality(R) \in N
  BY <1>2, <1>3, AllNaturals, FS_CardinalityType
<1> QED BY <1>4 DEF N
\* What a function that adds up a set says of its parts is their total.
LEMMA TotalOf ==
  ASSUME NEW A, NEW S, IsFiniteSet(S), NEW g, AddsUp(A, S, g), NEW R \in SUBSET S
  PROVE  g[R] = Total(A, R)
<1> DEFINE h == CHOOSE f : AddsUp(A, R, f)
<1>1. IsFiniteSet(R)
  BY FS_Subset
<1>2. AddsUp(A, R, h)
  BY <1>1, SumExists
<1> HIDE DEF h
<1>3. g[R] = h[R]
  BY <1>1, <1>2, SumUnique
<1> QED BY <1>3 DEF h, Total

LEMMA TotalOfNone == \A A : Total(A, {}) = 0
<1> TAKE A
<1>1. PICK g : AddsUp(A, {}, g)
  BY SumExists, FS_EmptySet
<1>2. g[{}] = 0
  BY <1>1 DEF AddsUp, Added
<1> QED BY <1>1, <1>2, TotalOf, FS_EmptySet

LEMMA TotalByPick ==
  ASSUME NEW A, NEW S, IsFiniteSet(S), S # {}
  PROVE  Pick(S) \in S /\ Total(A, S) = A[Pick(S)] + Total(A, S \ {Pick(S)})
<1>1. Pick(S) \in S
  BY DEF Pick
<1>2. PICK g : AddsUp(A, S, g)
  BY SumExists
<1>3. g[S] = A[Pick(S)] + g[S \ {Pick(S)}]
  BY <1>2 DEF AddsUp, Added
<1>4. g[S] = Total(A, S) /\ g[S \ {Pick(S)}] = Total(A, S \ {Pick(S)})
  BY <1>2, TotalOf
<1> QED BY <1>1, <1>3, <1>4

LEMMA TotalIsNat ==
  ASSUME NEW A, NEW S, IsFiniteSet(S), \A x \in S : A[x] \in Nat
  PROVE  Total(A, S) \in Nat
<1> DEFINE Good == {some \in SUBSET S : Total(A, some) \in Nat}
<1>1. {} \in Good
  BY TotalOfNone
<1>2. ASSUME NEW some \in SUBSET S, some # {}, \A x \in some : some \ {x} \in Good
      PROVE  some \in Good
  <2>1. Pick(some) \in some /\ Total(A, some) = A[Pick(some)] + Total(A, some \ {Pick(some)})
    BY <1>2, TotalByPick, FS_Subset
  <2>2. A[Pick(some)] \in Nat /\ Total(A, some \ {Pick(some)}) \in Nat
    BY <1>2, <2>1
  <2> QED BY <2>1, <2>2
<1> HIDE DEF Good
<1>3. S \in Good
  BY <1>1, <1>2, AllParts
<1> QED BY <1>3 DEF Good

\* The order does not matter.
LEMMA TotalLess ==
  ASSUME NEW A, NEW S, IsFiniteSet(S), \A x \in S : A[x] \in Nat, NEW y \in S
  PROVE  Total(A, S) = A[y] + Total(A, S \ {y})
<1> DEFINE Split(some) == \A x \in some : Total(A, some) = A[x] + Total(A, some \ {x})
           Good == {some \in SUBSET S : Split(some)}
<1>1. {} \in Good
  OBVIOUS
<1>2. ASSUME NEW some \in SUBSET S, some # {}, \A x \in some : some \ {x} \in Good
      PROVE  some \in Good
  <2> SUFFICES ASSUME NEW x \in some PROVE Total(A, some) = A[x] + Total(A, some \ {x})
    BY <1>2
  <2> DEFINE p == Pick(some)
             rest == (some \ {p}) \ {x}
  <2>1. p \in some /\ Total(A, some) = A[p] + Total(A, some \ {p})
    BY <1>2, TotalByPick, FS_Subset
  <2> HIDE DEF p
  <2>2. CASE x = p
    BY <2>1, <2>2
  <2>3. CASE x # p
    <3>1. Total(A, some \ {p}) = A[x] + Total(A, rest)
      BY <1>2, <2>1, <2>3
    <3>2. Total(A, some \ {x}) = A[p] + Total(A, (some \ {x}) \ {p})
      BY <1>2, <2>1, <2>3
    <3>3. (some \ {x}) \ {p} = rest
      OBVIOUS
    <3>4. A[x] \in Nat /\ A[p] \in Nat /\ Total(A, rest) \in Nat
      BY <2>1, TotalIsNat, FS_Subset
    <3> HIDE DEF rest
    <3>5. Total(A, some) = A[p] + (A[x] + Total(A, rest))
      BY <2>1, <3>1
    <3>6. Total(A, some \ {x}) = A[p] + Total(A, rest)
      BY <3>2, <3>3
    <3> QED BY ONLY <3>4, <3>5, <3>6
  <2> QED BY <2>2, <2>3
<1> HIDE DEF Good
<1>3. S \in Good
  BY <1>1, <1>2, AllParts
<1> QED BY <1>3 DEF Good

\* Two sets with nothing in common.
LEMMA TotalOfBoth ==
  ASSUME NEW A, NEW S, NEW R, IsFiniteSet(S), IsFiniteSet(R), S \cap R = {},
         \A x \in S \cup R : A[x] \in Nat
  PROVE  Total(A, S \cup R) = Total(A, S) + Total(A, R)
<1> DEFINE Good == {some \in SUBSET S : Total(A, some \cup R) = Total(A, some) + Total(A, R)}
<1>1. {} \in Good
  <2>1. {} \cup R = R
    OBVIOUS
  <2>2. Total(A, R) \in Nat
    BY TotalIsNat
  <2> QED BY <2>1, <2>2, TotalOfNone
<1>2. ASSUME NEW some \in SUBSET S, some # {}, \A x \in some : some \ {x} \in Good
      PROVE  some \in Good
  <2>1. PICK x \in some : TRUE
    BY <1>2
  <2>2. IsFiniteSet(some) /\ IsFiniteSet(some \cup R) /\ IsFiniteSet(some \ {x})
    BY FS_Subset, FS_Union
  <2>3. Total(A, some) = A[x] + Total(A, some \ {x})
    BY <2>2, TotalLess
  <2>4. Total(A, some \cup R) = A[x] + Total(A, (some \cup R) \ {x})
    BY <2>2, TotalLess
  <2>5. (some \cup R) \ {x} = (some \ {x}) \cup R
    OBVIOUS
  <2>6. Total(A, (some \ {x}) \cup R) = Total(A, some \ {x}) + Total(A, R)
    BY <1>2
  <2>7. A[x] \in Nat /\ Total(A, some \ {x}) \in Nat /\ Total(A, R) \in Nat
    BY <2>2, TotalIsNat
  <2>8. Total(A, some \cup R) = A[x] + (Total(A, some \ {x}) + Total(A, R))
    BY <2>4, <2>5, <2>6
  <2>9. Total(A, some \cup R) = Total(A, some) + Total(A, R)
    BY ONLY <2>3, <2>7, <2>8
  <2> QED BY <2>9
<1> HIDE DEF Good
<1>3. S \in Good
  BY <1>1, <1>2, AllParts
<1> QED BY <1>3 DEF Good

\* What is smaller in every element is smaller in total.
LEMMA TotalAtMost ==
  ASSUME NEW A, NEW B, NEW S, IsFiniteSet(S),
         \A x \in S : A[x] \in Nat /\ B[x] \in Nat /\ A[x] <= B[x]
  PROVE  Total(A, S) <= Total(B, S)
<1> DEFINE Good == {some \in SUBSET S : Total(A, some) <= Total(B, some)}
<1>1. {} \in Good
  BY TotalOfNone
<1>2. ASSUME NEW some \in SUBSET S, some # {}, \A x \in some : some \ {x} \in Good
      PROVE  some \in Good
  <2> DEFINE p == Pick(some)
  <2>1. /\ p \in some /\ Total(A, some) = A[p] + Total(A, some \ {p})
        /\ Total(B, some) = B[p] + Total(B, some \ {p})
    BY <1>2, TotalByPick, FS_Subset
  <2> HIDE DEF p
  <2>2. Total(A, some \ {p}) \in Nat /\ Total(B, some \ {p}) \in Nat
    BY TotalIsNat, FS_Subset
  <2>3. Total(A, some \ {p}) <= Total(B, some \ {p})
    BY <1>2, <2>1
  <2>4. A[p] \in Nat /\ B[p] \in Nat /\ A[p] <= B[p]
    BY <2>1
  <2>5. Total(A, some) <= Total(B, some)
    BY <2>1, <2>2, <2>3, <2>4
  <2> QED BY <2>5
<1> HIDE DEF Good
<1>3. S \in Good
  BY <1>1, <1>2, AllParts
<1> QED BY <1>3 DEF Good

\* A finite set of numbers has a highest.
LEMMA Highest ==
  ASSUME NEW S \in SUBSET Nat, IsFiniteSet(S), S # {}
  PROVE  \E high \in S : \A x \in S : x <= high
<1> DEFINE Top(some) == some # {} => \E high \in some : \A x \in some : x <= high
           Good == {some \in SUBSET S : Top(some)}
<1>1. {} \in Good
  OBVIOUS
<1>2. ASSUME NEW some \in SUBSET S, some # {}, \A x \in some : some \ {x} \in Good
      PROVE  some \in Good
  <2>1. PICK y \in some : TRUE
    BY <1>2
  <2>2. CASE some \ {y} = {}
    BY <2>1, <2>2
  <2>3. CASE some \ {y} # {}
    <3>1. PICK high \in some \ {y} : \A x \in some \ {y} : x <= high
      BY <1>2, <2>3
    <3>2. \A x \in some : x <= high \/ x = y
      BY <3>1
    <3>3. high \in Nat /\ y \in Nat /\ some \subseteq Nat
      BY <3>1
    <3>4. (\A x \in some : x <= high) \/ (\A x \in some : x <= y)
      BY <3>1, <3>2, <3>3
    <3> QED BY <3>4, <3>1
  <2> QED BY <2>2, <2>3
<1> HIDE DEF Good
<1>3. S \in Good
  BY <1>1, <1>2, AllParts
<1> QED BY <1>3 DEF Good
-----------------------------------------------------------------------------
(* What a payee is owed.                                                   *)

\* The sum of a function, and of what is said of the members of a set.
LEMMA SumOfLines == \A f : Com!SumFunction(f) = Total(f, DOMAIN f)
<1> TAKE f
<1>1. Com!SumFunction(f) = (CHOOSE g : AddsUp(f, DOMAIN f, g))[DOMAIN f]
  BY DEF Com!SumFunction, Com!SumFunctionOnSet, Com!FoldFunctionOnSet,
         Com!MapThenFoldSet, AddsUp, Added, Pick
<1> QED BY <1>1 DEF Total

Paid(s, S) == Com!MapThenSumSet(LAMBDA t : Com!Settlement(s, t).amount, S)

Shares(s, rate, S) ==
  Com!MapThenSumSet(LAMBDA e : Com!Share(s[Com!EntryDoc(e)].amount, rate), S)

LEMMA SumOfAmounts ==
  ASSUME NEW s, NEW S, NEW A, \A t \in S : Com!Settlement(s, t).amount = A[t]
  PROVE  Paid(s, S) = Total(A, S)
<1> DEFINE Rows(g) == g = [some \in SUBSET S |->
             IF some = {} THEN 0
             ELSE Com!Settlement(s, Pick(some)).amount + g[some \ {Pick(some)}]]
<1>1. Paid(s, S) = (CHOOSE g : Rows(g))[S]
  BY DEF Paid, Com!MapThenSumSet, Com!MapThenFoldSet, Pick
<1>2. \A g : Rows(g) <=> AddsUp(A, S, g)
  <2> TAKE g
  <2>1. \A some \in SUBSET S : some # {} => Pick(some) \in S
    BY DEF Pick
  <2>2. \A some \in SUBSET S :
          (IF some = {} THEN 0
           ELSE Com!Settlement(s, Pick(some)).amount + g[some \ {Pick(some)}])
        = Added(A, g, some)
    BY <2>1 DEF Added
  <2> QED BY <2>2 DEF AddsUp
<1> HIDE DEF Rows
<1>3. (CHOOSE g : Rows(g)) = (CHOOSE g : AddsUp(A, S, g))
  BY <1>2
<1> QED BY <1>1, <1>3 DEF Total

LEMMA SumOfShares ==
  ASSUME NEW s, NEW rate, NEW S, NEW A,
         \A e \in S : Com!Share(s[Com!EntryDoc(e)].amount, rate) = A[e]
  PROVE  Shares(s, rate, S) = Total(A, S)
<1> DEFINE Rows(g) == g = [some \in SUBSET S |->
             IF some = {} THEN 0
             ELSE Com!Share(s[Com!EntryDoc(Pick(some))].amount, rate)
                    + g[some \ {Pick(some)}]]
<1>1. Shares(s, rate, S) = (CHOOSE g : Rows(g))[S]
  BY DEF Shares, Com!MapThenSumSet, Com!MapThenFoldSet, Pick
<1>2. \A g : Rows(g) <=> AddsUp(A, S, g)
  <2> TAKE g
  <2>1. \A some \in SUBSET S : some # {} => Pick(some) \in S
    BY DEF Pick
  <2>2. \A some \in SUBSET S :
          (IF some = {} THEN 0
           ELSE Com!Share(s[Com!EntryDoc(Pick(some))].amount, rate)
                  + g[some \ {Pick(some)}])
        = Added(A, g, some)
    BY <2>1 DEF Added
  <2> QED BY <2>2 DEF AddsUp
<1> HIDE DEF Rows
<1>3. (CHOOSE g : Rows(g)) = (CHOOSE g : AddsUp(A, S, g))
  BY <1>2
<1> QED BY <1>1, <1>3 DEF Total

\* Members that take what they come to from sets with nothing in common come
\* together to no more than all these sets.
LEMMA TotalOfFamily ==
  ASSUME NEW T, IsFiniteSet(T), NEW A, NEW B, NEW E,
         \A t \in T : /\ IsFiniteSet(E[t]) /\ \A x \in E[t] : B[x] \in Nat
                      /\ A[t] \in Nat /\ A[t] <= Total(B, E[t]),
         \A t, o \in T : t # o => E[t] \cap E[o] = {}
  PROVE  Total(A, T) <= Total(B, UNION {E[t] : t \in T})
<1> DEFINE Named(some) == UNION {E[t] : t \in some}
           Good == {some \in SUBSET T : /\ IsFiniteSet(Named(some))
                                        /\ Total(A, some) <= Total(B, Named(some))}
<1>1. {} \in Good
  <2>1. Named({}) = {}
    OBVIOUS
  <2> QED BY <2>1, TotalOfNone, FS_EmptySet
<1>2. ASSUME NEW some \in SUBSET T, some # {}, \A t \in some : some \ {t} \in Good
      PROVE  some \in Good
  <2>1. PICK t \in some : TRUE
    BY <1>2
  <2> DEFINE rest == some \ {t}
  <2>2. IsFiniteSet(Named(rest)) /\ Total(A, rest) <= Total(B, Named(rest))
    BY <1>2
  <2>3. IsFiniteSet(some) /\ IsFiniteSet(rest)
    BY FS_Subset
  <2>4. Total(A, some) = A[t] + Total(A, rest) /\ Total(A, rest) \in Nat
    BY <2>3, TotalLess, TotalIsNat
  <2>5. Named(some) = E[t] \cup Named(rest) /\ E[t] \cap Named(rest) = {}
    OBVIOUS
  <2>6. \A x \in E[t] \cup Named(rest) : B[x] \in Nat
    OBVIOUS
  <2>7. IsFiniteSet(E[t]) /\ A[t] \in Nat /\ A[t] <= Total(B, E[t])
    OBVIOUS
  <2> HIDE DEF Named, rest
  <2>8. Total(B, Named(some)) = Total(B, E[t]) + Total(B, Named(rest))
    BY <2>2, <2>5, <2>6, <2>7, TotalOfBoth
  <2>9. Total(B, E[t]) \in Nat /\ Total(B, Named(rest)) \in Nat
    BY <2>2, <2>6, <2>7, TotalIsNat
  <2>10. Total(A, some) <= Total(B, Named(some))
    <3>1. A[t] \in Nat /\ A[t] <= Total(B, E[t]) /\ Total(A, rest) <= Total(B, Named(rest))
      BY <2>2, <2>7
    <3> QED BY ONLY <2>4, <2>8, <2>9, <3>1
  <2>11. IsFiniteSet(Named(some))
    <3>1. IsFiniteSet(E[t] \cup Named(rest))
      BY <2>2, <2>7, FS_Union
    <3> QED BY <2>5, <3>1
  <2> QED BY <2>10, <2>11
<1> HIDE DEF Good
<1>3. T \in Good
  BY <1>1, <1>2, AllParts
<1> QED BY <1>3 DEF Good

\* A higher rate pays no less.
LEMMA ShareGrows ==
  ASSUME NEW amount \in Nat, NEW rate \in Nat, NEW high \in Nat, rate <= high
  PROVE  /\ Com!Share(amount, rate) \in Nat /\ Com!Share(amount, high) \in Nat
         /\ Com!Share(amount, rate) <= Com!Share(amount, high)
<1>1. amount * rate \in Nat /\ amount * high \in Nat /\ amount * rate <= amount * high
  <2>1. amount * (high - rate) \in Nat
    OBVIOUS
  <2>2. amount * high = amount * rate + amount * (high - rate)
    OBVIOUS
  <2>3. amount * rate \in Nat /\ amount * high \in Nat
    OBVIOUS
  <2> DEFINE x == amount * rate
             y == amount * high
             z == amount * (high - rate)
  <2>4. x \in Nat /\ y \in Nat /\ z \in Nat /\ y = x + z
    BY <2>1, <2>2, <2>3
  <2> HIDE DEF x, y, z
  <2>5. x <= y
    BY ONLY <2>4
  <2> QED BY <2>3, <2>5 DEF x, y
<1> DEFINE x == amount * rate
           y == amount * high
<1>2. x \in Nat /\ y \in Nat /\ x <= y
  BY <1>1
<1> HIDE DEF x, y
<1>3. /\ (x + 50) \div 100 \in Nat /\ (y + 50) \div 100 \in Nat
      /\ (x + 50) \div 100 <= (y + 50) \div 100
  BY ONLY <1>2
<1> QED BY <1>3 DEF x, y, Com!Share

\* The unique index: no write leaves two settlements that stand for one payee
\* with an entry in common.
LEMMA FitsStays ==
  ASSUME Com!Fits(db), [Com!Next]_(Com!txnVars) PROVE Com!Fits(db')
<1>1. ASSUME NEW c, NEW puts, Com!Write(c, puts) PROVE Com!Fits(db')
  BY <1>1 DEF Com!Write
<1>2. ASSUME db' = db PROVE Com!Fits(db')
  BY <1>2
<1>3. ASSUME NEW c, NEW e \in Entries, Com!EntryStep(c, e) PROVE Com!Fits(db')
  BY <1>1, <1>3 DEF Com!EntryStep, Com!CreateEntry, Com!UpdateEntry, Com!FinalizeEntry,
                    Com!ReconcileEntry, Com!VoidEntry, Com!ArchiveEntry
<1>4. ASSUME NEW c, NEW r \in Rules, Com!RuleStep(c, r) PROVE Com!Fits(db')
  BY <1>1, <1>4 DEF Com!RuleStep, Com!CreateRule, Com!UpdateRule, Com!MoveRule
<1>5. ASSUME NEW c, NEW t \in Settlements, Com!SettlementStep(c, t) PROVE Com!Fits(db')
  BY <1>1, <1>5 DEF Com!SettlementStep, Com!CreateSettlement, Com!ReplaceEntries,
                    Com!UpdateSettlement, Com!FinalizeSettlement, Com!EndSettlement
<1>6. ASSUME NEW c, Com!Begin(c) \/ Com!Abort(c) PROVE Com!Fits(db')
  BY <1>2, <1>6 DEF Com!Begin, Com!Abort
<1>7. CASE UNCHANGED Com!txnVars
  BY <1>2, <1>7 DEF Com!txnVars
<1> QED BY <1>3, <1>4, <1>5, <1>6, <1>7 DEF Com!Next

LEMMA PartFits == Spec => [](part = "commission" => Com!Fits(db))
<1> DEFINE Good == part = "commission" => Com!Fits(db)
<1>1. Init => Good
  <2>1. ASSUME Com!Init, NEW t \in Settlements PROVE ~Com!Standing(db, t)
    <3>1. db[Com!SettlementDoc(t)] = Com!Nothing
      BY <2>1, CommissionDocs DEF Com!Init, Com!SettlementDoc
    <3> QED BY <3>1 DEF Com!Standing, Com!Settlement, Com!Nothing
  <2> QED BY <2>1 DEF Init, Com!Fits
<1>2. Good /\ [Next]_vars => Good'
  <2> SUFFICES ASSUME Good, [Next]_vars, (part = "commission")' PROVE (Com!Fits(db))'
    OBVIOUS
  <2>1. part = "commission" /\ [Com!Next]_(Com!txnVars)
    BY DEF Next, vars, Com!txnVars
  <2>2. Com!Fits(db')
    BY <2>1, FitsStays
  <2> QED BY <2>2
<1> QED BY <1>1, <1>2, PTL DEF Spec

\* A settlement that is in order comes to no more than the shares, at the
\* highest rate, of the entries it names.
LEMMA SettlementWithin ==
  ASSUME CommissionInv, NEW t \in Settlements, Com!Settlement(db, t).status # "none",
         NEW high \in Nat, \A rate \in Rates : rate <= high, NEW B,
         \A e \in Entries : B[e] = Com!Share(db[Com!EntryDoc(e)].amount, high)
  PROVE  LET x == Com!Settlement(db, t)
         IN  /\ IsFiniteSet(x.entries) /\ \A e \in x.entries : B[e] \in Nat
             /\ x.amount \in Nat /\ x.amount <= Total(B, x.entries)
<1> DEFINE x == Com!Settlement(db, t)
           lines == db[Com!Lines(t)]
<1>1. SettlementOK(db, x, lines) /\ x.entries \subseteq Entries
  BY SettlementKnown DEF CommissionInv
<1> HIDE DEF x, lines
<1>2. PICK rate \in Rates : \A e \in x.entries :
        lines[e] = Com!Share(db[Com!EntryDoc(e)].amount, rate)
  BY <1>1 DEF SettlementOK
<1>3. rate \in Nat /\ rate <= high
  BY CommissionIsCounted
<1>4. ASSUME NEW e \in x.entries
      PROVE  lines[e] \in Nat /\ B[e] \in Nat /\ lines[e] <= B[e]
  <2>1. Settled(db, e) /\ e \in Entries
    BY <1>1 DEF SettlementOK
  <2>2. db[Com!EntryDoc(e)] \in EntryType
    BY <2>1 DEF CommissionInv, CommissionOK, Settled, Com!Nothing
  <2>3. db[Com!EntryDoc(e)].amount \in Nat
    BY <2>2, CommissionIsCounted DEF EntryType
  <2>4. B[e] = Com!Share(db[Com!EntryDoc(e)].amount, high)
    BY <2>1
  <2> QED BY <1>2, <1>3, <2>3, <2>4, ShareGrows
<1>5. IsFiniteSet(x.entries)
  BY <1>1, CommissionIsCounted, FS_Subset
<1>6. x.amount = Total(lines, x.entries)
  BY <1>1, SumOfLines DEF SettlementOK
<1>7. Total(lines, x.entries) \in Nat /\ Total(lines, x.entries) <= Total(B, x.entries)
  BY <1>4, <1>5, TotalIsNat, TotalAtMost
<1> QED BY <1>4, <1>5, <1>6, <1>7 DEF x

LEMMA EachPaidOnce == ASSUME CommissionInv, Com!Fits(db) PROVE Com!OwedOnce
<1> SUFFICES ASSUME NEW p \in Payees
             PROVE  LET standing == {t \in Settlements : Com!Standing(db, t)
                                       /\ Com!Settlement(db, t).payee = p}
                        named == UNION {Com!Settlement(db, t).entries : t \in standing}
                        highest == CHOOSE rate \in Rates : \A other \in Rates : other <= rate
                    IN  Paid(db, standing) <= Shares(db, highest, named)
  BY DEF Com!OwedOnce, Paid, Shares
<1> DEFINE standing == {t \in Settlements : Com!Standing(db, t)
                          /\ Com!Settlement(db, t).payee = p}
           named == UNION {Com!Settlement(db, t).entries : t \in standing}
           highest == CHOOSE rate \in Rates : \A other \in Rates : other <= rate
           A == [t \in Settlements |-> Com!Settlement(db, t).amount]
           B == [e \in Entries |-> Com!Share(db[Com!EntryDoc(e)].amount, highest)]
           E == [t \in Settlements |-> Com!Settlement(db, t).entries]
<1>1. ASSUME NEW t \in standing
      PROVE  /\ t \in Settlements /\ Com!Settlement(db, t).status # "none"
             /\ Com!Settlement(db, t).entries \subseteq Entries /\ Rates # {}
  <2>1. t \in Settlements /\ Com!Settlement(db, t).status # "none"
    BY <1>1 DEF Com!Standing
  <2>2. SettlementOK(db, Com!Settlement(db, t), db[Com!Lines(t)])
        /\ Com!Settlement(db, t).entries \subseteq Entries
    BY <2>1, SettlementKnown DEF CommissionInv
  <2> QED BY <2>1, <2>2 DEF SettlementOK
<1>2. ASSUME Rates # {} PROVE highest \in Nat /\ \A rate \in Rates : rate <= highest
  <2>1. \E rate \in Rates : \A other \in Rates : other <= rate
    BY <1>2, CommissionIsCounted, Highest
  <2>2. highest \in Rates /\ \A other \in Rates : other <= highest
    BY <2>1
  <2> QED BY <2>2, CommissionIsCounted
<1>3. \A e \in Entries : B[e] = Com!Share(db[Com!EntryDoc(e)].amount, highest)
  OBVIOUS
<1>4. \A t \in standing : A[t] = Com!Settlement(db, t).amount
                          /\ E[t] = Com!Settlement(db, t).entries
  BY <1>1
<1>5. \A t, o \in standing : t # o => E[t] \cap E[o] = {}
  BY <1>4 DEF Com!Fits
<1>6. standing \subseteq Settlements
  OBVIOUS
<1> HIDE DEF highest, A, B, E, standing
<1>7. named \subseteq Entries /\ named = UNION {E[t] : t \in standing}
  BY <1>1, <1>4
<1>8. \A t \in standing : /\ IsFiniteSet(E[t]) /\ \A e \in E[t] : B[e] \in Nat
                          /\ A[t] \in Nat /\ A[t] <= Total(B, E[t])
  <2> SUFFICES ASSUME NEW t \in standing
               PROVE  /\ IsFiniteSet(E[t]) /\ \A e \in E[t] : B[e] \in Nat
                      /\ A[t] \in Nat /\ A[t] <= Total(B, E[t])
    OBVIOUS
  <2>1. t \in Settlements /\ Com!Settlement(db, t).status # "none"
    BY <1>1
  <2>2. highest \in Nat /\ \A rate \in Rates : rate <= highest
    BY <1>1, <1>2
  <2> QED BY <2>1, <2>2, <1>3, <1>4, SettlementWithin
<1>9. IsFiniteSet(standing)
  BY <1>6, CommissionIsCounted, FS_Subset
<1>10. Total(A, standing) <= Total(B, named)
  <2>1. Total(A, standing) <= Total(B, UNION {E[t] : t \in standing})
    BY ONLY <1>5, <1>8, <1>9, TotalOfFamily
  <2> QED BY <2>1, <1>7
<1>11. Paid(db, standing) = Total(A, standing)
  BY <1>4, SumOfAmounts
<1> HIDE DEF named
<1>12. Shares(db, highest, named) = Total(B, named)
  <2>1. \A e \in named : Com!Share(db[Com!EntryDoc(e)].amount, highest) = B[e]
    BY <1>3, <1>7
  <2> QED BY ONLY <2>1, SumOfShares
<1> QED BY <1>10, <1>11, <1>12 DEF standing, named, highest

\* Whatever entries, rules and settlements there are and however creations
\* and replacements overlap: a settlement is the sum of its lines, and all
\* that stand for a payee together come to no more than the payee's share of
\* the entries they name, each counted once.
THEOREM PaidOnce == Spec => []PaidAsListed
<1>1. CommissionInv /\ Com!Fits(db) => Com!OwedOnce
  BY EachPaidOnce
<1>2. /\ part = "commission" => CommissionInv
      /\ part = "commission" => Com!Fits(db)
      /\ part = "commission" => Com!LinesAddUp
      => PaidAsListed
  BY <1>1 DEF PaidAsListed, Com!PaidAsListed
<1> QED BY <1>2, PartIsCommission, PartFits, SettlementsAddUp, PTL
=============================================================================
