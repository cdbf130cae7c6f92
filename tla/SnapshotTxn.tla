---------------------------- MODULE SnapshotTxn ----------------------------
(***************************************************************************)
(* The MongoDB transactions in which every administrative mutation runs    *)
(* (the callback the mutation bridge wraps in session.withTransaction).    *)
(*                                                                         *)
(* A transaction reads the snapshot of the database taken when it began    *)
(* and writes a few documents.  It commits only if no other transaction    *)
(* has committed a write to one of THOSE documents since: a document it    *)
(* only read may have changed.  This is snapshot isolation, not            *)
(* serializability, and the services that use it decide on the documents   *)
(* they read.                                                              *)
(*                                                                         *)
(* A transaction whose snapshot no commit overtakes is one step, taken by  *)
(* the client Now; one that is overtaken belongs to a client of Clients,   *)
(* whose Begin is a step of its own.  Each client adds one transaction to  *)
(* the number that may overlap.                                            *)
(***************************************************************************)
CONSTANTS Clients,      \* handlers whose transactions other commits overtake
          Docs          \* the identities (primary or unique keys) of documents

VARIABLES db,           \* Docs -> committed content
          snap,         \* Clients -> snapshot of db, or NoSnapshot
          missed        \* Clients -> documents committed by others since

txnVars == <<db, snap, missed>>

Now == "now"
NoSnapshot == <<>>

InTxn(c) == snap[c] # NoSnapshot

\* What a transaction of c reads.
Seen(c) == IF c = Now THEN db ELSE snap[c]

Ready(c) == c # Now => InTxn(c)

Begin(c) ==
  /\ ~InTxn(c)
  /\ snap' = [snap EXCEPT ![c] = db]
  /\ UNCHANGED <<db, missed>>

\* One document, and the documents of both, p's content where both have one.
d :> content == [x \in {d} |-> content]
p @@ q == [x \in DOMAIN p \cup DOMAIN q |-> IF x \in DOMAIN p THEN p[x] ELSE q[x]]

\* The last commit wins, whatever was committed in between.
CommitOver(c, puts) ==
  /\ db' = [d \in Docs |-> IF d \in DOMAIN puts THEN puts[d] ELSE db[d]]
  /\ snap' = [o \in Clients |-> IF o = c THEN NoSnapshot ELSE snap[o]]
  /\ missed' = [o \in Clients |->
       IF o # c /\ InTxn(o) THEN missed[o] \cup DOMAIN puts ELSE {}]

\* puts: the documents written and their new content.
Commit(c, puts) ==
  /\ c # Now => missed[c] \cap DOMAIN puts = {}
  /\ db' = [d \in Docs |-> IF d \in DOMAIN puts THEN puts[d] ELSE db[d]]
  /\ snap' = [o \in Clients |-> IF o = c THEN NoSnapshot ELSE snap[o]]
  /\ missed' = [o \in Clients |->
       IF o # c /\ InTxn(o) THEN missed[o] \cup DOMAIN puts ELSE {}]

\* The transaction ends without a write: a refused command, a write conflict,
\* a crash.  The bridge's retry is a new Begin.
Abort(c) ==
  /\ InTxn(c)
  /\ snap' = [snap EXCEPT ![c] = NoSnapshot]
  /\ missed' = [missed EXCEPT ![c] = {}]
  /\ UNCHANGED db

TxnInit ==
  /\ snap = [c \in Clients |-> NoSnapshot]
  /\ missed = [c \in Clients |-> {}]

\* A document nobody else has committed since a snapshot is still what the
\* snapshot shows: what the decisions taken on a snapshot rest on.
SnapshotCurrent ==
  \A c \in Clients : InTxn(c) =>
    \A d \in Docs \ missed[c] : snap[c][d] = db[d]
=============================================================================
