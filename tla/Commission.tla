----------------------------- MODULE Commission -----------------------------
(***************************************************************************)
(* Revenue entries, the commission rules that pay a share of them and the  *)
(* settlements that select entries under a rule:                           *)
(* admin.revenue-ledger.service.ts, admin.commission.service.ts and        *)
(* commission.repository.ts.                                               *)
(*                                                                         *)
(* Every operation is a transaction (SnapshotTxn).  A settlement copies    *)
(* the rule's payee and rate when it is created; later operations on the   *)
(* draft read the entries again, and the rate from the rule as it is then. *)
(* Whether entry and rule fit otherwise (period, currency, kind, talent,   *)
(* source contract) only refuses, which a transaction may do at any time.  *)
(***************************************************************************)
EXTENDS Integers, FiniteSets, FiniteSetsExt, Functions

CONSTANTS Clients,
          Entries, Rules, Settlements,
          Payees,       \* the beneficiaries: talents and employees
          Amounts,      \* recognized amounts, in cents
          Rates         \* per cent

VARIABLES db, snap, missed

EntryDoc(e) == <<"entry", e>>
RuleDoc(r) == <<"rule", r>>
SettlementDoc(t) == <<"settlement", t>>
Lines(t) == <<"lines", t>>        \* entry -> amount settled for it

Docs == {EntryDoc(e) : e \in Entries} \cup {RuleDoc(r) : r \in Rules}
          \cup {SettlementDoc(t) : t \in Settlements}
          \cup {Lines(t) : t \in Settlements}

INSTANCE SnapshotTxn

Nothing == [status |-> "none"]

EntryStatus(s, e) == s[EntryDoc(e)].status
RuleStatus(s, r) == s[RuleDoc(r)].status
Settlement(s, t) == s[SettlementDoc(t)]

\* The settlements the unique index is about, status DRAFT or FINALIZED.
Standing(s, t) == Settlement(s, t).status \in {"DRAFT", "FINALIZED"}

\* A duplicate key of the unique index (payee, entry) aborts the transaction.
FitsAnything(s) == TRUE
Fits(s) == \A t, o \in Settlements :
  t # o /\ Standing(s, t) /\ Standing(s, o)
    /\ Settlement(s, t).payee = Settlement(s, o).payee
  => Settlement(s, t).entries \cap Settlement(s, o).entries = {}

Write(c, puts) == Commit(c, puts) /\ Fits(db')
-----------------------------------------------------------------------------
(* The ledger.                                                             *)

PutEntry(s, e, status) == EntryDoc(e) :> [s[EntryDoc(e)] EXCEPT !.status = status]

CreateEntry(c, e, amount) ==
  /\ Ready(c)
  /\ db[EntryDoc(e)] = Nothing
  /\ Write(c, EntryDoc(e) :> [status |-> "DRAFT", amount |-> amount])

UpdateEntry(c, e, amount) ==
  LET s == Seen(c) IN
  /\ Ready(c)
  /\ EntryStatus(s, e) = "DRAFT"
  /\ Write(c, EntryDoc(e) :> [s[EntryDoc(e)] EXCEPT !.amount = amount])

FinalizeEntry(c, e) ==
  /\ Ready(c)
  /\ EntryStatus(Seen(c), e) = "DRAFT"
  /\ Write(c, PutEntry(Seen(c), e, "FINALIZED"))

ReconcileEntry(c, e) ==
  /\ Ready(c)
  /\ EntryStatus(Seen(c), e) = "FINALIZED"
  /\ Write(c, PutEntry(Seen(c), e, "RECONCILED"))

\* A check that overlooks finalized settlements, and the one there is
\* (findFinalizedSettlementReferenceByRevenueEntryId).
UsedInDraft(s, e) == \E t \in Settlements :
  Settlement(s, t).status = "DRAFT" /\ e \in Settlement(s, t).entries
UsedInFinal(s, e) == \E t \in Settlements :
  Settlement(s, t).status = "FINALIZED" /\ e \in Settlement(s, t).entries

VoidEntry(c, e) ==
  LET s == Seen(c) IN
  /\ Ready(c)
  /\ EntryStatus(s, e) = "FINALIZED"
  /\ ~UsedInFinal(s, e)
  /\ Write(c, PutEntry(s, e, "VOIDED"))

ArchiveEntry(c, e) ==
  /\ Ready(c)
  /\ EntryStatus(Seen(c), e) \in {"DRAFT", "RECONCILED", "VOIDED"}
  /\ Write(c, PutEntry(Seen(c), e, "ARCHIVED"))
-----------------------------------------------------------------------------
(* Rules.                                                                  *)

PutRule(s, r, status) == RuleDoc(r) :> [s[RuleDoc(r)] EXCEPT !.status = status]

CreateRule(c, r, payee, rate) ==
  /\ Ready(c)
  /\ db[RuleDoc(r)] = Nothing
  /\ Write(c, RuleDoc(r) :> [status |-> "DRAFT", payee |-> payee, rate |-> rate])

\* updateCommissionRuleDraftCore: a rule that is not active, once or yet.
UpdateRule(c, r, payee, rate) ==
  LET s == Seen(c) IN
  /\ Ready(c)
  /\ RuleStatus(s, r) \in {"DRAFT", "INACTIVE"}
  /\ Write(c, RuleDoc(r) :> [s[RuleDoc(r)] EXCEPT !.payee = payee, !.rate = rate])

MoveRule(c, r, to) ==
  LET s == Seen(c) IN
  /\ Ready(c)
  /\ <<RuleStatus(s, r), to>> \in
       {<<"DRAFT", "ACTIVE">>, <<"INACTIVE", "ACTIVE">>, <<"ACTIVE", "INACTIVE">>,
        <<"DRAFT", "ARCHIVED">>, <<"INACTIVE", "ARCHIVED">>}
  /\ Write(c, PutRule(s, r, to))
-----------------------------------------------------------------------------
(* Settlements.                                                            *)

\* roundHalfUp of the entry's share, for every line by itself.
Share(amount, rate) == (amount * rate + 50) \div 100

\* A selection that takes entries before they are final.
AnyStatus(s, es) == \A e \in es : EntryStatus(s, e) \in {"DRAFT", "FINALIZED", "RECONCILED"}
Payable(s, es) == \A e \in es : EntryStatus(s, e) \in {"FINALIZED", "RECONCILED"}

\* findSettlementExclusivityConflict.
Taken(s, t, payee, es) == \E o \in Settlements \ {t} :
  Standing(s, o) /\ Settlement(s, o).payee = payee
    /\ es \cap Settlement(s, o).entries # {}

\* evaluateRevenueSelection with the rate of the rule as it is now.
Selectable(s, t, payee, rate, es) ==
  /\ es # {}
  /\ Payable(s, es)
  /\ \A e \in es : Share(s[EntryDoc(e)].amount, rate) > 0
  /\ ~Taken(s, t, payee, es)

Evaluated(s, es, rate) == [e \in es |-> Share(s[EntryDoc(e)].amount, rate)]
Gross(s, es) == SumFunction([e \in es |-> s[EntryDoc(e)].amount])

Selected(settlement, s, es, rate) ==
  [settlement EXCEPT
     !.entries = es,
     !.gross = Gross(s, es),
     !.amount = SumFunction(Evaluated(s, es, rate))]

CreateSettlement(c, t, r, es) ==
  LET s == Seen(c)
      rule == s[RuleDoc(r)]
  IN
  /\ Ready(c)
  /\ db[SettlementDoc(t)] = Nothing
  /\ RuleStatus(s, r) = "ACTIVE"
  /\ Selectable(s, t, rule.payee, rule.rate, es)
  /\ Write(c, SettlementDoc(t) :>
       Selected([status |-> "DRAFT", rule |-> r, payee |-> rule.payee,
                 rate |-> rule.rate, entries |-> {}, gross |-> 0, amount |-> 0],
                s, es, rule.rate)
       @@ Lines(t) :> Evaluated(s, es, rule.rate))

RateOf(s, t) == s[RuleDoc(Settlement(s, t).rule)].rate

\* What an evaluation would write, and what the update of a draft does write.
Reevaluated(s, t) ==
  LET es == Settlement(s, t).entries IN
  SettlementDoc(t) :> Selected(Settlement(s, t), s, es, RateOf(s, t))
    @@ Lines(t) :> Evaluated(s, es, RateOf(s, t))
Kept(s, t) == SettlementDoc(t) :> Settlement(s, t)

\* updateCommissionSettlementDraftCore: the rule need not be active.
UpdateSettlement(c, t) ==
  LET s == Seen(c) IN
  /\ Ready(c)
  /\ Settlement(s, t).status = "DRAFT"
  /\ Selectable(s, t, Settlement(s, t).payee, RateOf(s, t), Settlement(s, t).entries)
  /\ Write(c, Kept(s, t))

\* deleteSettlementLinesBySettlementId with insertSettlementLines, and without.
LinesAdded(old, new) == new @@ old
LinesReplaced(old, new) == new

ReplaceEntries(c, t, es) ==
  LET s == Seen(c)
      rate == RateOf(s, t)
  IN
  /\ Ready(c)
  /\ Settlement(s, t).status = "DRAFT"
  /\ RuleStatus(s, Settlement(s, t).rule) = "ACTIVE"
  /\ Selectable(s, t, Settlement(s, t).payee, rate, es)
  /\ es # Settlement(s, t).entries
  /\ Write(c, SettlementDoc(t) :> Selected(Settlement(s, t), s, es, rate)
       @@ Lines(t) :> LinesReplaced(s[Lines(t)], Evaluated(s, es, rate)))

FinalizeSettlement(c, t) ==
  LET s == Seen(c) IN
  /\ Ready(c)
  /\ Settlement(s, t).status = "DRAFT"
  /\ RuleStatus(s, Settlement(s, t).rule) = "ACTIVE"
  /\ Selectable(s, t, Settlement(s, t).payee, RateOf(s, t), Settlement(s, t).entries)
  /\ Write(c, SettlementDoc(t) :> [Settlement(s, t) EXCEPT !.status = "FINALIZED"])

\* voidCommissionSettlement and archiveCommissionSettlement.
EndSettlement(c, t, to) ==
  LET s == Seen(c) IN
  /\ Ready(c)
  /\ <<Settlement(s, t).status, to>> \in
       {<<"FINALIZED", "VOIDED">>, <<"DRAFT", "ARCHIVED">>, <<"VOIDED", "ARCHIVED">>}
  /\ Write(c, SettlementDoc(t) :> [Settlement(s, t) EXCEPT !.status = to])
-----------------------------------------------------------------------------
Init ==
  /\ db = [d \in Docs |-> IF d[1] = "lines" THEN <<>> ELSE Nothing]
  /\ TxnInit

EntryStep(c, e) ==
  \/ \E amount \in Amounts : CreateEntry(c, e, amount) \/ UpdateEntry(c, e, amount)
  \/ FinalizeEntry(c, e) \/ ReconcileEntry(c, e) \/ VoidEntry(c, e) \/ ArchiveEntry(c, e)

RuleStep(c, r) ==
  \/ \E payee \in Payees, rate \in Rates :
       CreateRule(c, r, payee, rate) \/ UpdateRule(c, r, payee, rate)
  \/ \E to \in {"ACTIVE", "INACTIVE", "ARCHIVED"} : MoveRule(c, r, to)

SettlementStep(c, t) ==
  \/ \E r \in Rules, es \in SUBSET Entries : CreateSettlement(c, t, r, es)
  \/ \E es \in SUBSET Entries : ReplaceEntries(c, t, es)
  \/ UpdateSettlement(c, t) \/ FinalizeSettlement(c, t)
  \/ \E to \in {"VOIDED", "ARCHIVED"} : EndSettlement(c, t, to)

Next ==
  \/ \E c \in Clients \cup {Now} :
       \/ \E e \in Entries : EntryStep(c, e)
       \/ \E r \in Rules : RuleStep(c, r)
       \/ \E t \in Settlements : SettlementStep(c, t)
  \/ \E c \in Clients : Begin(c) \/ Abort(c)

Spec == Init /\ [][Next]_txnVars
-----------------------------------------------------------------------------
(* Properties.                                                             *)

\* "Revenue entry ... is already included in settlement ... for the same
\* beneficiary snapshot": all the settlements that stand for a payee together
\* come to no more than the payee's share of the entries they name, each entry
\* counted once, whatever creations and replacements overlap.
OwedOnce == \A p \in Payees :
  LET standing == {t \in Settlements : Standing(db, t) /\ Settlement(db, t).payee = p}
      named == UNION {Settlement(db, t).entries : t \in standing}
      highest == CHOOSE rate \in Rates : \A other \in Rates : other <= rate
  IN  MapThenSumSet(LAMBDA t : Settlement(db, t).amount, standing)
        <= MapThenSumSet(LAMBDA e : Share(db[EntryDoc(e)].amount, highest), named)

\* A settlement, in whatever status, is the sum of its lines, one for each of
\* its entries, all at one rate, and of entries as the ledger still has them:
\* nothing changes an entry once a settlement has read it.
LinesAddUp == \A t \in Settlements : Settlement(db, t) # Nothing =>
  LET settlement == Settlement(db, t)
      lines == db[Lines(t)]
  IN
  /\ DOMAIN lines = settlement.entries
  /\ settlement.amount = SumFunction(lines)
  /\ settlement.gross = Gross(db, DOMAIN lines)
  /\ \E rate \in Rates : \A e \in DOMAIN lines :
       lines[e] = Share(db[EntryDoc(e)].amount, rate)

\* What settlements pay is what their lines list, and nobody is listed for one
\* entry in two of them.
PaidAsListed == OwedOnce /\ LinesAddUp

\* The step is the commit of a transaction that missed another's.
LateCommit == \E c \in Clients : missed[c] # {} /\ InTxn(c) /\ ~InTxn(c)'

PaysVoid(s, t) == Settlement(s, t).status = "FINALIZED" /\
  \E e \in Settlement(s, t).entries : EntryStatus(s, e) = "VOIDED"

\* "voidRevenueEntry is forbidden because RevenueEntry ... is referenced by
\* FINALIZED CommissionSettlement": it takes a finalization that overlaps the
\* voiding to leave a final settlement of a voided entry.
VoidPaidLateStep == \A t \in Settlements : PaysVoid(db', t) /\ ~PaysVoid(db, t) => LateCommit
VoidPaidLate == [][VoidPaidLateStep]_txnVars

AtOwnRate(s, t) == \A e \in DOMAIN s[Lines(t)] :
  s[Lines(t)][e] = Share(s[EntryDoc(e)].amount, Settlement(s, t).rate)

\* The amounts are those of the rate the settlement carries
\* (ratePercentSnapshot), until the rule is deactivated, edited and activated
\* again and the draft's entries are replaced: nothing else parts the two.
RatePartsByReplacementStep == \A t \in Settlements :
  /\ Settlement(db', t) # Nothing /\ ~AtOwnRate(db', t)
  /\ Settlement(db, t) = Nothing \/ AtOwnRate(db, t)
  => /\ Settlement(db, t) # Nothing
     /\ Settlement(db', t).entries # Settlement(db, t).entries
     /\ \E s \in {db} \cup {snap[c] : c \in {o \in Clients : InTxn(o)}} :
          RateOf(s, t) # Settlement(db, t).rate
RatePartsByReplacement == [][RatePartsByReplacementStep]_txnVars
=============================================================================
