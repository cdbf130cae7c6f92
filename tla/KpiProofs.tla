----------------------------- MODULE KpiProofs -----------------------------
(***************************************************************************)
(* Proofs about KpiPlan and KpiActuals, for any members, actors, targets   *)
(* and days, and any number of transactions that overlap.                  *)
(*                                                                         *)
(* The rows of one division are written together, and each names all the   *)
(* members it was drafted with, so that a transaction that has seen one    *)
(* row of a draft has seen all of them, and writes all or none (Whole).    *)
(* What a snapshot shows may be old: Since says how the database can have  *)
(* moved on.  Each operation is reduced to what it does to a state it has  *)
(* read and to the state it finds at its commit (Sound), and one lemma     *)
(* carries that over to the database and every open snapshot.              *)
(***************************************************************************)
EXTENDS KpiActuals, TLAPS

\* s with the documents puts written.
After(s, puts) == [d \in Docs |-> IF d \in DOMAIN puts THEN puts[d] ELSE s[d]]

\* The variables are the functions SnapshotTxn takes them for.
Functional ==
  /\ db = [d \in Docs |-> db[d]]
  /\ snap = [c \in Clients |-> snap[c]]
  /\ missed \in [Clients -> SUBSET Docs]
  /\ \A c \in Clients : InTxn(c) => snap[c] = [d \in Docs |-> snap[c][d]]

Over == {"ACTIVE", "FINALIZED", "ARCHIVED"}

Set(s, m) == s[Row(m)].set
Stg(s, m) == s[Row(m)].stage

\* Two rows that differ in their shares only.
Alike(r, q) ==
  /\ r.stage = q.stage /\ r.version = q.version /\ r.set = q.set
  /\ r.born = q.born /\ r.by = q.by /\ r.checker = q.checker

\* A drafted row is in one state with the rows of all members it was drafted
\* with; a row without a lifecycle is what replaceKpiAllocations stored.
Whole(s) == \A m \in Stored(s) :
  IF Set(s, m) = {}
  THEN /\ Stg(s, m) = "PLAIN" /\ s[Row(m)].version = 0 /\ s[Row(m)].born = 0
       /\ s[Row(m)].by = "none" /\ s[Row(m)].checker = "none"
  ELSE /\ Stg(s, m) # "PLAIN" /\ m \in Set(s, m)
       /\ \A n \in Set(s, m) : n \in Stored(s) /\ Alike(s[Row(m)], s[Row(n)])

Checked(s) == \A m \in Stored(s) : Stg(s, m) \in {"APPROVED", "PUBLISHED"} =>
  s[Row(m)].checker \notin {"none", s[Row(m)].by}

RowsTyped(s) == \A m \in Members : s[Row(m)] \in RowType \cup {NoRow}

RowsOK(s) == RowsTyped(s) /\ Whole(s) /\ Checked(s)

\* A live row that was drafted.
Drafted(s) == {m \in Live(s) : Set(s, m) # {}}

\* Rows of s later became those of t.
RowsSince(s, t) ==
  /\ Drafted(s) # {} => Drafted(t) # {}
  /\ \A m \in Stored(s) : Stg(s, m) = "PUBLISHED" => t[Row(m)] = s[Row(m)]
  /\ Versioned(s) /\ Versioned(t) =>
       /\ Version(s) <= Version(t)
       /\ Version(s) = Version(t) => \A m \in Live(t) : s[Row(m)] = t[Row(m)]

\* The rows of t are those of s, or one step further.
RowsStep(s, t) ==
  /\ RowsSince(s, t)
  /\ Versioned(t) /\ Drafted(s) # {} => Versioned(s)

\* A draft has no drafted rows, shares are published with the plan, entries
\* belong to them, and so do results.
Sane(s) ==
  /\ StateOK(s)
  /\ RowsOK(s)
  /\ Life(s) = "DRAFT" => \A m \in Stored(s) : Set(s, m) = {}
  /\ \A m \in Stored(s) : Stg(s, m) = "PUBLISHED" => Life(s) \in Over
  /\ Life(s) = "ACTIVE" => \E m \in Live(s) : Stg(s, m) = "PUBLISHED"
  /\ \A x \in Slots : HasEntry(s, x) => Published(s, x)
  /\ FinalCovers(s)

\* The plan of s later became that of t; once it is published, no share
\* becomes so.
PlanSince(s, t) ==
  /\ t[PlanDoc].reviewed = s[PlanDoc].reviewed
  /\ t[PlanDoc].subject = s[PlanDoc].subject
  /\ Life(t) = "DRAFT" => Life(s) = "DRAFT"
  /\ Life(s) \in Over =>
       /\ Life(t) \in Over
       /\ \A m \in Stored(t) : Stg(t, m) = "PUBLISHED" => s[Row(m)] = t[Row(m)]

Aged(s, t) == PlanSince(s, t) /\ RowsSince(s, t)

\* u is what a step may make of t.
Sound(t, u) == Sane(u) /\ PlanSince(t, u) /\ RowsStep(t, u)

\* The inductive invariant.
IInv ==
  /\ Functional
  /\ SnapshotCurrent
  /\ Sane(db)
  /\ \A c \in Clients : InTxn(c) => Sane(snap[c]) /\ Aged(snap[c], db)
  /\ clock \in Nat /\ since \in [Clients -> Nat]
-----------------------------------------------------------------------------
(* Documents.                                                              *)

\* The plan, rows, seats, entries and excuses.
LEMMA InDocs ==
  /\ PlanDoc \in Docs
  /\ \A m \in Members : Row(m) \in Docs /\ Seat(m) \in Docs
  /\ \A x \in Slots : Entry(x) \in Docs /\ Excuse(x) \in Docs
  BY DEF Docs

\* They are all different.
LEMMA Different ==
  /\ \A m, n : Row(m) = Row(n) => m = n
  /\ \A m, n : Entry(m) = Entry(n) => m = n
  /\ \A m, n : /\ Row(m) # Seat(n) /\ Row(m) # Entry(n) /\ Row(m) # Excuse(n)
               /\ Seat(m) # Entry(n) /\ Seat(m) # Excuse(n)
               /\ Entry(m) # Excuse(n)
  /\ \A m : /\ Row(m) # PlanDoc /\ Seat(m) # PlanDoc
            /\ Entry(m) # PlanDoc /\ Excuse(m) # PlanDoc
  BY DEF Row, Seat, Entry, Excuse, PlanDoc
-----------------------------------------------------------------------------
(* Rows.                                                                   *)

\* No live row is PLAIN, and all are of one snapshot: what every operation of
\* the division asks of what it reads.
Uniform(s) == OneSnapshot(s) /\ \A m \in Live(s) : Stg(s, m) # "PLAIN"

\* Such rows are one draft, in one version.
LEMMA OneDraft ==
  ASSUME NEW s, RowsOK(s), Uniform(s), NEW m \in Live(s)
  PROVE  /\ m \in Set(s, m) /\ Set(s, m) = Live(s)
         /\ Version(s) \in Nat
         /\ \A n \in Live(s) : Alike(s[Row(m)], s[Row(n)]) /\ s[Row(n)].version = Version(s)
<1>1. \A n \in Live(s) : /\ n \in Stored(s) /\ n \in Members /\ Stg(s, n) # "SUPERSEDED"
                         /\ Set(s, n) # {} /\ n \in Set(s, n)
                         /\ Set(s, n) = Set(s, m)
  BY DEF Live, Stored, RowsOK, Whole, Uniform, OneSnapshot, Stg, Set
<1>2. \A n \in Set(s, m) : n \in Stored(s) /\ Alike(s[Row(m)], s[Row(n)])
  BY <1>1 DEF RowsOK, Whole
<1>3. \A n \in Set(s, m) : n \in Live(s)
  BY <1>1, <1>2 DEF Live, Alike, Stg
<1>4. Set(s, m) = Live(s)
  BY <1>1, <1>3
<1>5. s[Row(m)].version \in Nat
  BY <1>1 DEF RowsOK, RowsTyped, RowType, Stored
<1>6. {s[Row(n)].version : n \in Live(s)} \cup {0} = {s[Row(m)].version, 0}
  BY <1>2, <1>4 DEF Alike
<1>7. Version(s) = s[Row(m)].version
  <2> DEFINE v == s[Row(m)].version
  <2>1. Version(s) = CHOOSE x \in {v, 0} : \A y \in {v, 0} : x >= y
    BY <1>6 DEF Version, Max
  <2>2. \A x \in {v, 0} : (\A y \in {v, 0} : x >= y) <=> x = v
    BY <1>5
  <2> HIDE DEF v
  <2>3. (CHOOSE x \in {v, 0} : \A y \in {v, 0} : x >= y) = v
    BY <2>2
  <2> QED BY <2>1, <2>3 DEF v
<1> QED BY <1>1, <1>2, <1>4, <1>5, <1>7 DEF Alike

\* Without live rows the version is 0.
LEMMA NoDraft == ASSUME NEW s, Live(s) = {} PROVE Version(s) = 0
<1>1. {s[Row(n)].version : n \in Live(s)} \cup {0} = {0}
  OBVIOUS
<1>2. (CHOOSE x \in {0} : \A y \in {0} : x >= y) = 0
  OBVIOUS
<1> QED BY <1>1, <1>2 DEF Version, Max

\* What is versioned is one draft.
LEMMA VersionedIsUniform ==
  ASSUME NEW s, RowsOK(s) PROVE Versioned(s) <=> Live(s) # {} /\ Uniform(s)
<1>1. \A m \in Live(s) : s[Row(m)].stage \in Stages
  BY DEF Live, Stored, RowsOK, RowsTyped, RowType
<1> QED BY <1>1 DEF Versioned, Uniform, LiveIn, Stg

\* What rows say depends on the rows.
LEMMA SameRows ==
  ASSUME NEW s, NEW t, RowsOK(s), \A m \in Members : s[Row(m)] = t[Row(m)]
  PROVE  /\ Stored(s) = Stored(t) /\ Live(s) = Live(t)
         /\ Version(s) = Version(t) /\ (Versioned(s) <=> Versioned(t))
         /\ RowsOK(t)
         /\ RowsStep(s, t)
<1>1. Stored(s) = Stored(t)
  BY DEF Stored
<1>2. Live(s) = Live(t)
  BY <1>1 DEF Live, Stored
<1>3. /\ \A m \in Live(t) : m \in Members
      /\ \A m \in Stored(t) : m \in Members
  BY DEF Live, Stored
<1>4. {s[Row(m)].version : m \in Live(s)} = {t[Row(m)].version : m \in Live(t)}
  BY <1>2, <1>3
<1>5. Version(s) = Version(t)
  BY <1>4 DEF Version
<1>6. Versioned(s) <=> Versioned(t)
  BY <1>2, <1>3 DEF Versioned, OneSnapshot, LiveIn
<1>7. RowsOK(t)
  BY <1>1, <1>3 DEF RowsOK, RowsTyped, Whole, Checked, Set, Stg
<1>8. Drafted(s) = Drafted(t)
  BY <1>2, <1>3 DEF Drafted, Set
<1>9. Versioned(t) => Version(t) <= Version(t)
  <2> SUFFICES ASSUME Versioned(t) PROVE Version(t) <= Version(t)
    OBVIOUS
  <2>1. PICK m \in Live(t) : Uniform(t)
    BY <1>7, VersionedIsUniform
  <2>2. Version(t) \in Nat
    BY <2>1, <1>7, OneDraft
  <2> QED BY <2>2
<1> QED BY <1>1, <1>2, <1>3, <1>5, <1>6, <1>7, <1>8, <1>9 DEF RowsStep, RowsSince, Stg

\* What has become of rows goes on becoming.
LEMMA SinceStep ==
  ASSUME NEW s, NEW t, NEW u, RowsOK(s), RowsOK(t), RowsOK(u),
         RowsSince(s, t), RowsStep(t, u)
  PROVE  RowsSince(s, u)
<1>1. \A m \in Stored(s) : Stg(s, m) = "PUBLISHED" => u[Row(m)] = s[Row(m)]
  BY DEF RowsSince, RowsStep, Stored, Stg, NoRow
<1>2. Drafted(s) # {} => Drafted(u) # {}
  BY DEF RowsSince, RowsStep
<1>3. ASSUME Versioned(s), Versioned(u)
      PROVE  /\ Version(s) <= Version(u)
             /\ Version(s) = Version(u) => \A m \in Live(u) : s[Row(m)] = u[Row(m)]
  <2>1. Drafted(s) # {}
    <3>1. PICK m \in Live(s) : Uniform(s)
      BY <1>3, VersionedIsUniform
    <3>2. m \in Drafted(s)
      BY <3>1, OneDraft DEF Drafted
    <3> QED BY <3>2
  <2>2. Versioned(t)
    BY <2>1, <1>3 DEF RowsSince, RowsStep
  <2>3. Version(s) \in Nat /\ Version(t) \in Nat /\ Version(u) \in Nat
    <3>1. PICK m \in Live(s), n \in Live(t), o \in Live(u) :
            Uniform(s) /\ Uniform(t) /\ Uniform(u)
      BY <1>3, <2>2, VersionedIsUniform
    <3> QED BY <3>1, OneDraft
  <2>4. /\ Version(s) <= Version(t) /\ Version(t) <= Version(u)
        /\ Version(s) = Version(t) => \A m \in Live(t) : s[Row(m)] = t[Row(m)]
        /\ Version(t) = Version(u) => \A m \in Live(u) : t[Row(m)] = u[Row(m)]
    BY <1>3, <2>2 DEF RowsSince, RowsStep
  <2>5. ASSUME Version(s) = Version(u), NEW m \in Live(u) PROVE s[Row(m)] = u[Row(m)]
    <3>1. t[Row(m)] = u[Row(m)]
      BY <2>3, <2>4, <2>5
    <3>2. m \in Live(t)
      BY <3>1 DEF Live, Stored
    <3> QED BY <3>1, <3>2, <2>3, <2>4, <2>5
  <2> QED BY <2>3, <2>4, <2>5
<1> QED BY <1>1, <1>2, <1>3 DEF RowsSince

\* A transaction that reads s, one draft, and commits on t writes the rows W:
\* what it read of them, whole drafts, in one new version.
LEMMA RowsWritten ==
  ASSUME NEW s, NEW t, NEW u, NEW W \in SUBSET Members, RowsOK(s), RowsOK(t),
         Uniform(s), Live(s) \subseteq W,
         \A m \in W : s[Row(m)] = t[Row(m)],
         \A m \in W : m \in Stored(s) => Set(s, m) \subseteq W /\ Stg(s, m) # "PUBLISHED",
         \A m \in Members \ W : u[Row(m)] = t[Row(m)],
         \A m \in W : u[Row(m)] \in RowType \cup {NoRow},
         \A m \in W : m \in Stored(u) =>
           /\ Stg(u, m) # "PLAIN" /\ m \in Set(u, m) /\ Set(u, m) \subseteq W
           /\ \A n \in Set(u, m) : n \in Stored(u) /\ Alike(u[Row(m)], u[Row(n)])
           /\ Stg(u, m) \in {"APPROVED", "PUBLISHED"} =>
                u[Row(m)].checker \notin {"none", u[Row(m)].by}
           /\ Stg(u, m) # "SUPERSEDED" => u[Row(m)].version = Version(s) + 1,
         \E m \in W : m \in Live(u)
  PROVE  RowsOK(u) /\ RowsStep(t, u)
<1>1. \A m \in Members \ W : m \in Stored(u) <=> m \in Stored(t)
  BY DEF Stored
<1>2. ASSUME NEW m \in Members \ W, m \in Stored(t), NEW n \in Set(t, m)
      PROVE  n \notin W
  <2> SUFFICES ASSUME n \in W PROVE FALSE
    OBVIOUS
  <2>1. n \in Stored(t) /\ Set(t, n) = Set(t, m) /\ m \in Set(t, m)
    BY <1>2 DEF RowsOK, Whole, Alike, Set
  <2>2. n \in Stored(s) /\ Set(s, n) = Set(t, m)
    BY <2>1 DEF Stored, Set
  <2> QED BY <2>1, <2>2
<1>3. RowsTyped(u)
  BY DEF RowsTyped, RowsOK
<1>4. Whole(u)
  <2> SUFFICES ASSUME NEW m \in Stored(u), m \in Members
               PROVE  IF Set(u, m) = {}
                      THEN /\ Stg(u, m) = "PLAIN" /\ u[Row(m)].version = 0
                           /\ u[Row(m)].born = 0
                           /\ u[Row(m)].by = "none" /\ u[Row(m)].checker = "none"
                      ELSE /\ Stg(u, m) # "PLAIN" /\ m \in Set(u, m)
                           /\ \A n \in Set(u, m) :
                                n \in Stored(u) /\ Alike(u[Row(m)], u[Row(n)])
    BY DEF Whole, Stored
  <2>1. CASE m \in W
    BY <2>1
  <2>2. CASE m \notin W
    <3>1. m \in Stored(t) /\ u[Row(m)] = t[Row(m)]
      BY <2>2, <1>1
    <3>2. \A n \in Set(t, m) : /\ n \in Stored(t) /\ n \in Members \ W
                              /\ Alike(t[Row(m)], t[Row(n)])
      BY <3>1, <2>2, <1>2 DEF RowsOK, Whole, Stored
    <3>3. \A n \in Set(t, m) : n \in Stored(u) /\ Alike(u[Row(m)], u[Row(n)])
      BY <3>1, <3>2, <1>1
    <3> QED BY <3>1, <3>3 DEF RowsOK, Whole, Set, Stg
  <2> QED BY <2>1, <2>2
<1>5. Checked(u)
  BY <1>1 DEF Checked, RowsOK, Stored, Stg
<1>6. \A m \in Stored(t) : Stg(t, m) = "PUBLISHED" => u[Row(m)] = t[Row(m)]
  BY DEF Stored, Stg
<1>7. PICK w \in W : w \in Live(u)
  OBVIOUS
<1>8. Drafted(u) # {}
  <2>1. w \in Drafted(u)
    BY <1>7 DEF Drafted, Live
  <2> QED BY <2>1
<1>9. ASSUME Versioned(u) PROVE Live(t) \subseteq W
  <2> SUFFICES ASSUME NEW m \in Live(t), m \notin W PROVE FALSE
    OBVIOUS
  <2>1. m \in Live(u) /\ m \in Members
    BY <1>1 DEF Live, Stored
  <2>2. Set(u, m) = Live(u) /\ Set(u, w) = Live(u)
    BY <2>1, <1>3, <1>4, <1>5, <1>7, <1>9, OneDraft, VersionedIsUniform DEF RowsOK
  <2> QED BY <2>1, <2>2, <1>7 DEF Live
<1>10. ASSUME Versioned(u)
       PROVE  Live(t) = Live(s) /\ \A m \in Live(s) : s[Row(m)] = t[Row(m)]
  BY <1>9, <1>10 DEF Live, Stored
<1>11. Version(s) \in Nat
  <2>1. CASE Live(s) = {}
    BY <2>1, NoDraft
  <2>2. CASE Live(s) # {}
    BY <2>2, OneDraft
  <2> QED BY <2>1, <2>2
<1>12. ASSUME Versioned(u), Versioned(t) PROVE Version(u) > Version(t)
  <2>1. {t[Row(m)].version : m \in Live(t)} = {s[Row(m)].version : m \in Live(s)}
    BY <1>10, <1>12
  <2>2. Version(t) = Version(s)
    BY <2>1 DEF Version
  <2>3. u[Row(w)].version = Version(u)
    BY <1>3, <1>4, <1>5, <1>7, <1>12, OneDraft, VersionedIsUniform DEF RowsOK
  <2>4. u[Row(w)].version = Version(s) + 1
    BY <1>7 DEF Live, Stg
  <2> QED BY <2>2, <2>3, <2>4, <1>11
<1>13. ASSUME Versioned(u), Drafted(t) # {} PROVE Versioned(t)
  <2>1. Live(t) # {}
    BY <1>13 DEF Drafted
  <2>2. Uniform(t)
    BY <1>10, <1>13 DEF Uniform, OneSnapshot, Stg
  <2> QED BY <2>1, <2>2, VersionedIsUniform
<1>14. ASSUME Versioned(u), Versioned(t)
       PROVE  Version(t) <= Version(u) /\ Version(t) # Version(u)
  <2>1. Version(t) \in Nat /\ Version(u) \in Nat
    <3>1. PICK n \in Live(t) : Uniform(t) /\ Uniform(u)
      BY <1>3, <1>4, <1>5, <1>14, VersionedIsUniform DEF RowsOK
    <3> QED BY <3>1, <1>3, <1>4, <1>5, <1>7, OneDraft DEF RowsOK
  <2> QED BY <2>1, <1>12, <1>14
<1>15. RowsSince(t, u)
  BY <1>6, <1>8, <1>14 DEF RowsSince
<1> QED BY <1>3, <1>4, <1>5, <1>13, <1>15 DEF RowsOK, RowsStep
-----------------------------------------------------------------------------
(* States.                                                                 *)

\* Slots are of members.
LEMMA SlotMembers == \A x \in Slots : x[1] \in Members
  BY KpiPlanAssumption

\* A share is published in two states alike.
LEMMA PublishedAlike ==
  ASSUME NEW t, NEW u, Aged(t, u), Life(t) \in Over
  PROVE  \A m \in Members : Stg(t, m) = "PUBLISHED" <=> Stg(u, m) = "PUBLISHED"
  BY DEF Aged, RowsSince, PlanSince, Stored, Stg, NoRow

\* What has become of a state goes on becoming.
LEMMA AgedStep ==
  ASSUME NEW s, NEW t, NEW u, Sane(s), Sane(t), Aged(s, t), Sound(t, u)
  PROVE  Aged(s, u)
<1>1. RowsSince(s, u)
  BY SinceStep DEF Aged, Sane, Sound
<1>2. PlanSince(s, u)
  <2>1. ASSUME Life(s) \in Over, NEW m \in Stored(u), Stg(u, m) = "PUBLISHED"
        PROVE  s[Row(m)] = u[Row(m)]
    <3>1. t[Row(m)] = u[Row(m)]
      BY <2>1 DEF Aged, Sound, PlanSince
    <3>2. m \in Stored(t) /\ Stg(t, m) = "PUBLISHED"
      BY <2>1, <3>1 DEF Stored, Stg
    <3> QED BY <2>1, <3>1, <3>2 DEF Aged, PlanSince
  <2> QED BY <2>1 DEF Aged, Sound, PlanSince
<1> QED BY <1>1, <1>2 DEF Aged

\* The plan is written, and nothing else.
LEMMA PlanWritten ==
  ASSUME NEW t, NEW u, Sane(t),
         \A m \in Members : u[Row(m)] = t[Row(m)] /\ u[Seat(m)] = t[Seat(m)],
         \A x \in Slots : u[Entry(x)] = t[Entry(x)] /\ u[Excuse(x)] = t[Excuse(x)],
         u[PlanDoc] \in PlanType,
         u[PlanDoc].reviewed = t[PlanDoc].reviewed,
         u[PlanDoc].subject = t[PlanDoc].subject,
         Life(u) = "DRAFT" => Life(t) = "DRAFT",
         Life(t) \in Over => Life(u) \in Over,
         Life(u) = "ACTIVE" => Life(t) = "ACTIVE",
         FinalCovers(u)
  PROVE  Sound(t, u)
<1>1. /\ Stored(u) = Stored(t) /\ Live(u) = Live(t)
      /\ RowsOK(u) /\ RowsStep(t, u)
  BY SameRows DEF Sane
<1>2. \A m \in Stored(t) : m \in Members /\ Stg(u, m) = Stg(t, m) /\ Set(u, m) = Set(t, m)
  BY DEF Stored, Stg, Set
<1>3. StateOK(u)
  BY DEF StateOK, Sane
<1>4. \A x \in Slots : HasEntry(u, x) => Published(u, x)
  BY SlotMembers DEF Sane, HasEntry, Published
<1>5. PlanSince(t, u)
  BY <1>1, <1>2 DEF PlanSince, Stored
<1>6. Live(t) \subseteq Stored(t)
  BY DEF Live
<1> QED BY <1>1, <1>2, <1>3, <1>4, <1>5, <1>6 DEF Sound, Sane

\* Actuals, excuses or seats are written.
LEMMA DayWritten ==
  ASSUME NEW t, NEW u, Sane(t),
         \A m \in Members : u[Row(m)] = t[Row(m)] /\ u[Seat(m)] \in {"ACTIVE", "LEFT"},
         u[PlanDoc] = t[PlanDoc],
         \A x \in Slots : /\ u[Entry(x)] \in EntryType \cup {NoEntry}
                          /\ u[Excuse(x)] \in BOOLEAN
                          /\ HasEntry(u, x) => Published(t, x)
  PROVE  Sound(t, u)
<1>1. /\ Stored(u) = Stored(t) /\ Live(u) = Live(t)
      /\ RowsOK(u) /\ RowsStep(t, u)
  BY SameRows DEF Sane
<1>2. \A m \in Stored(t) : m \in Members /\ Stg(u, m) = Stg(t, m) /\ Set(u, m) = Set(t, m)
  BY DEF Stored, Stg, Set
<1>3. Life(u) = Life(t)
  BY DEF Life
<1>4. StateOK(u)
  BY DEF StateOK, Sane
<1>5. \A x \in Slots : Published(u, x) <=> Published(t, x)
  BY SlotMembers DEF Published
<1>6. FinalCovers(u)
  BY <1>3, <1>5 DEF FinalCovers, Sane
<1>7. PlanSince(t, u)
  BY <1>1, <1>2, <1>3 DEF PlanSince, Stored
<1>8. Live(t) \subseteq Stored(t)
  BY DEF Live
<1> QED BY <1>1, <1>2, <1>3, <1>4, <1>5, <1>6, <1>7, <1>8 DEF Sound, Sane

\* Rows of a plan that is released are written, and none is published.
LEMMA DivisionWritten ==
  ASSUME NEW s, NEW t, NEW u, Sane(t), PlanSince(s, t), Life(s) = "RELEASED",
         RowsOK(u), RowsStep(t, u),
         \A m \in Stored(u) : Stg(u, m) = "PUBLISHED" => u[Row(m)] = t[Row(m)],
         \A m \in Members : u[Seat(m)] = t[Seat(m)],
         u[PlanDoc] = t[PlanDoc],
         \A x \in Slots : u[Entry(x)] = t[Entry(x)] /\ u[Excuse(x)] = t[Excuse(x)]
  PROVE  Sound(t, u)
<1>1. Life(u) = Life(t) /\ Life(t) # "DRAFT"
  BY DEF Life, PlanSince
<1>2. \A m \in Members : Stg(t, m) = "PUBLISHED" <=> Stg(u, m) = "PUBLISHED"
  BY DEF RowsStep, RowsSince, Stored, Stg, NoRow
<1>3. \A m \in Live(t) : Stg(t, m) = "PUBLISHED" => m \in Live(u)
  BY DEF RowsStep, RowsSince, Stored, Stg, Live
<1>4. StateOK(u)
  BY DEF StateOK, Sane, RowsOK, RowsTyped
<1>5. \A x \in Slots : Published(u, x) <=> Published(t, x)
  BY <1>2, SlotMembers DEF Published, Stg
<1>6. FinalCovers(u)
  BY <1>1, <1>5 DEF FinalCovers, Sane
<1>7. PlanSince(t, u)
  BY <1>1 DEF PlanSince
<1>8. \A x \in Slots : HasEntry(u, x) => Published(u, x)
  BY <1>5 DEF Sane, HasEntry
<1>9. /\ \A m \in Stored(u) : Stg(u, m) = "PUBLISHED" => Life(u) \in Over
      /\ Life(u) = "ACTIVE" => \E m \in Live(u) : Stg(u, m) = "PUBLISHED"
  <2>1. \A m \in Live(t) : m \in Members
    BY DEF Live, Stored
  <2>2. \A m \in Stored(u) : Stg(u, m) = "PUBLISHED" => m \in Stored(t)
    BY DEF Stored
  <2> QED BY <1>1, <1>2, <1>3, <2>1, <2>2 DEF Sane, Stored
<1> QED BY <1>1, <1>4, <1>6, <1>7, <1>8, <1>9 DEF Sound, Sane
-----------------------------------------------------------------------------
(* Commits.                                                                *)

\* A commit writes what its transaction would write to its snapshot to the
\* database, and of what it writes its snapshot is right.
LEMMA CommitIsSeen ==
  ASSUME Functional, SnapshotCurrent, NEW c \in Clients \cup {Now}, Ready(c),
         NEW puts, DOMAIN puts \subseteq Docs, Commit(c, puts)
  PROVE  /\ db' = After(db, puts)
         /\ \A d \in DOMAIN puts : Seen(c)[d] = db[d]
  BY DEF Functional, SnapshotCurrent, Ready, Commit, After, Seen, Now

\* What a transaction decides on is a state the database has had.
LEMMA SeenOK ==
  ASSUME IInv, NEW c \in Clients \cup {Now}, Ready(c)
  PROVE  Sane(Seen(c)) /\ Aged(Seen(c), db)
<1>1. CASE c = Now
  <2>1. RowsSince(db, db)
    BY SameRows DEF IInv, Sane, RowsStep
  <2>2. PlanSince(db, db)
    BY DEF PlanSince
  <2> QED BY <1>1, <2>1, <2>2 DEF Seen, Aged, IInv
<1>2. CASE c # Now
  BY <1>2 DEF IInv, Seen, Ready
<1> QED BY <1>1, <1>2

\* Sound writes keep the invariant.
LEMMA SoundCommit ==
  ASSUME IInv, NEW c \in Clients \cup {Now}, NEW puts, DOMAIN puts \subseteq Docs,
         Ready(c), Commit(c, puts), Sound(db, After(db, puts)), Closed, UNCHANGED clock
  PROVE  IInv'
<1>1. db' = After(db, puts) /\ \A d \in DOMAIN puts : Seen(c)[d] = db[d]
  BY CommitIsSeen DEF IInv
<1>2. \A o \in Clients : InTxn(o)' =>
        /\ InTxn(o) /\ snap'[o] = snap[o]
        /\ missed'[o] = missed[o] \cup DOMAIN puts
  BY DEF Commit, IInv, Functional, InTxn, NoSnapshot
<1>3. Functional'
  BY <1>1, <1>2 DEF Commit, Functional, After, IInv, InTxn, NoSnapshot
<1>4. SnapshotCurrent'
  BY <1>1, <1>2 DEF SnapshotCurrent, IInv, After
<1>5. Sane(db)'
  <2>1. Sane(db')
    BY <1>1 DEF Sound
  <2> QED BY <2>1
<1>6. ASSUME NEW o \in Clients, InTxn(o)' PROVE Sane(snap'[o]) /\ Aged(snap'[o], db')
  <2>1. Sane(snap[o]) /\ Aged(snap[o], db) /\ snap'[o] = snap[o]
    BY <1>2, <1>6 DEF IInv
  <2> QED BY <2>1, <1>1, AgedStep DEF IInv
<1>7. clock' \in Nat /\ since' \in [Clients -> Nat]
  BY DEF IInv, Closed
<1> QED BY <1>3, <1>4, <1>5, <1>6, <1>7 DEF IInv
-----------------------------------------------------------------------------
(* Operations of the division.                                             *)

\* MoveRows, of one row.
Turned(r, stage, version, by, checker) ==
  [r EXCEPT !.stage = stage, !.version = version,
            !.by = IF by = "none" THEN @ ELSE by,
            !.checker = IF checker = "none" THEN @ ELSE checker]

\* q is what r becomes.
Moved(q, r, stage, version, by, checker) ==
  /\ q \in RowType /\ q.stage = stage /\ q.version = version
  /\ q.set = r.set /\ q.born = r.born
  /\ q.by = IF by = "none" THEN r.by ELSE by
  /\ q.checker = IF checker = "none" THEN r.checker ELSE checker

\* A row that has moved is a row.
LEMMA RowTurned ==
  ASSUME NEW r \in RowType, NEW stage \in Stages, NEW version \in Nat,
         NEW by \in Actors \cup {"none"}, NEW checker \in Actors \cup {"none"}
  PROVE  Moved(Turned(r, stage, version, by, checker), r, stage, version, by, checker)
<1> DEFINE q == Turned(r, stage, version, by, checker)
           shares == 1..Target
           b == IF by = "none" THEN r.by ELSE by
           k == IF checker = "none" THEN r.checker ELSE checker
<1>1. RowType = [stage : Stages, share : shares, version : Nat,
                 set : SUBSET Members, born : Nat,
                 by : Actors \cup {"none"}, checker : Actors \cup {"none"}]
  BY DEF RowType
<1>2. q = [r EXCEPT !.stage = stage, !.version = version, !.by = b, !.checker = k]
  BY DEF Turned
<1>3. b \in Actors \cup {"none"} /\ k \in Actors \cup {"none"}
  BY DEF RowType
<1> HIDE DEF q, shares, b, k
<1>4. /\ q \in RowType /\ q.stage = stage /\ q.version = version
      /\ q.set = r.set /\ q.born = r.born /\ q.by = b /\ q.checker = k
  BY <1>1, <1>2, <1>3
<1> QED BY <1>4 DEF q, b, k, Moved

\* The rows of a draft move from one stage to another.
LEMMA RowsMoved ==
  ASSUME NEW s, NEW t, NEW u, RowsOK(s), RowsOK(t), Uniform(s), Live(s) # {},
         NEW stage \in {"SUBMITTED", "APPROVED", "CHANGES", "PUBLISHED"},
         NEW by \in Actors \cup {"none"}, NEW checker \in Actors \cup {"none"},
         \A m \in Live(s) :
           /\ s[Row(m)] = t[Row(m)] /\ Stg(s, m) # "PUBLISHED"
           /\ u[Row(m)] = Turned(s[Row(m)], stage, Version(s) + 1, by, checker),
         \A m \in Members \ Live(s) : u[Row(m)] = t[Row(m)],
         stage \in {"APPROVED", "PUBLISHED"} =>
           /\ by = "none"
           /\ \A m \in Live(s) : IF checker = "none" THEN Stg(s, m) = "APPROVED"
                                 ELSE checker # s[Row(m)].by
  PROVE  RowsOK(u) /\ RowsStep(t, u)
<1>1. Live(s) \in SUBSET Members /\ \A m \in Live(s) : m \in Stored(s)
  BY DEF Live, Stored
<1>2. PICK w \in Live(s) : TRUE
  OBVIOUS
<1>3. Version(s) + 1 \in Nat /\ \A m \in Live(s) : Set(s, m) = Live(s)
  <2>1. Version(s) \in Nat /\ \A m \in Live(s) : Set(s, m) = Live(s)
    BY <1>2, OneDraft
  <2> QED BY <2>1
<1>4. ASSUME NEW m \in Live(s)
      PROVE  /\ s[Row(m)] \in RowType
             /\ u[Row(m)] \in RowType
             /\ u[Row(m)].stage = stage /\ u[Row(m)].version = Version(s) + 1
             /\ u[Row(m)].set = Live(s) /\ u[Row(m)].born = s[Row(m)].born
             /\ u[Row(m)].by = (IF by = "none" THEN s[Row(m)].by ELSE by)
             /\ u[Row(m)].checker =
                  (IF checker = "none" THEN s[Row(m)].checker ELSE checker)
  <2>1. s[Row(m)] \in RowType
    BY <1>1 DEF RowsOK, RowsTyped, Stored
  <2>2. s[Row(m)].set = Live(s)
    BY <1>3 DEF Set
  <2>3. stage \in Stages
    BY DEF Stages
  <2>4. PICK v \in Nat : v = Version(s) + 1
    BY <1>3
  <2>5. u[Row(m)] = Turned(s[Row(m)], stage, v, by, checker)
    BY <2>4
  <2>6. Moved(u[Row(m)], s[Row(m)], stage, v, by, checker)
    <3>1. Moved(Turned(s[Row(m)], stage, v, by, checker), s[Row(m)], stage, v, by, checker)
      BY <2>1, <2>3, RowTurned
    <3> QED BY <2>5, <3>1
  <2> QED BY <2>1, <2>2, <2>4, <2>6 DEF Moved
<1>5. ASSUME NEW m \in Live(s) PROVE m \in Stored(u) /\ m \in Live(u)
  <2>1. u[Row(m)].stage # "none" /\ u[Row(m)].stage # "SUPERSEDED"
    <3>1. u[Row(m)].stage = stage
      BY <1>4
    <3> QED BY <3>1
  <2>2. u[Row(m)] # NoRow
    BY <2>1 DEF NoRow
  <2>3. m \in Members
    BY <1>1
  <2> QED BY <2>1, <2>2, <2>3 DEF Stored, Live
<1>6. \A m, n \in Live(s) : Alike(u[Row(m)], u[Row(n)])
  <2> SUFFICES ASSUME NEW m \in Live(s), NEW n \in Live(s) PROVE Alike(u[Row(m)], u[Row(n)])
    OBVIOUS
  <2>1. Alike(s[Row(m)], s[Row(n)])
    BY OneDraft
  <2> QED BY <2>1, <1>4 DEF Alike
<1>7. ASSUME NEW m \in Live(s), stage \in {"APPROVED", "PUBLISHED"}
      PROVE  u[Row(m)].checker \notin {"none", u[Row(m)].by}
  <2>1. u[Row(m)].by = s[Row(m)].by
    BY <1>4, <1>7
  <2>2. CASE checker = "none"
    BY <2>1, <2>2, <1>1, <1>4, <1>7 DEF RowsOK, Checked, Stg
  <2>3. CASE checker # "none"
    BY <2>1, <2>3, <1>4, <1>7
  <2> QED BY <2>2, <2>3
<1>8. \A m \in Live(s) : m \in Stored(u) =>
           /\ Stg(u, m) # "PLAIN" /\ m \in Set(u, m) /\ Set(u, m) \subseteq Live(s)
           /\ \A n \in Set(u, m) : n \in Stored(u) /\ Alike(u[Row(m)], u[Row(n)])
           /\ Stg(u, m) \in {"APPROVED", "PUBLISHED"} =>
                u[Row(m)].checker \notin {"none", u[Row(m)].by}
           /\ Stg(u, m) # "SUPERSEDED" => u[Row(m)].version = Version(s) + 1
  BY <1>3, <1>4, <1>5, <1>6, <1>7 DEF Stg, Set
<1>9. \A m \in Live(s) : m \in Stored(s) => Set(s, m) \subseteq Live(s) /\ Stg(s, m) # "PUBLISHED"
  BY <1>3
<1>10. \E m \in Live(s) : m \in Live(u)
  BY <1>2, <1>5
<1>11. \A m \in Live(s) : s[Row(m)] = t[Row(m)] /\ u[Row(m)] \in RowType \cup {NoRow}
  BY <1>4
<1>12. \A m \in Members \ Live(s) : u[Row(m)] = t[Row(m)]
  OBVIOUS
<1> QED BY <1>1, <1>8, <1>9, <1>10, <1>11, <1>12, RowsWritten

\* Writing rows changes rows.
LEMMA RowsPut ==
  ASSUME NEW t, NEW W \in SUBSET Members, NEW puts, DOMAIN puts = {Row(m) : m \in W}
  PROVE  /\ DOMAIN puts \subseteq Docs
         /\ \A m \in W : After(t, puts)[Row(m)] = puts[Row(m)]
         /\ \A m \in Members \ W : After(t, puts)[Row(m)] = t[Row(m)]
         /\ \A m \in Members : After(t, puts)[Seat(m)] = t[Seat(m)]
         /\ After(t, puts)[PlanDoc] = t[PlanDoc]
         /\ \A x \in Slots : /\ After(t, puts)[Entry(x)] = t[Entry(x)]
                             /\ After(t, puts)[Excuse(x)] = t[Excuse(x)]
<1>1. /\ \A m \in Members : Row(m) \in DOMAIN puts <=> m \in W
      /\ \A m : Seat(m) \notin DOMAIN puts
      /\ PlanDoc \notin DOMAIN puts
      /\ \A x : Entry(x) \notin DOMAIN puts /\ Excuse(x) \notin DOMAIN puts
  BY Different
<1>2. \A d \in Docs : After(t, puts)[d] = IF d \in DOMAIN puts THEN puts[d] ELSE t[d]
  BY DEF After
<1> QED BY <1>1, <1>2, InDocs

\* Submit, approve and send back.
LEMMA DivisionMoved ==
  ASSUME IInv, NEW c \in Clients \cup {Now}, Ready(c), Closed, UNCHANGED clock,
         Life(Seen(c)) = "RELEASED", Uniform(Seen(c)), Live(Seen(c)) # {},
         NEW stage \in {"SUBMITTED", "APPROVED", "CHANGES"},
         NEW by \in Actors \cup {"none"}, NEW checker \in Actors \cup {"none"},
         \A m \in Live(Seen(c)) : Stg(Seen(c), m) # "PUBLISHED",
         stage = "APPROVED" =>
           /\ by = "none"
           /\ \A m \in Live(Seen(c)) : IF checker = "none" THEN Stg(Seen(c), m) = "APPROVED"
                                       ELSE checker # Seen(c)[Row(m)].by,
         Commit(c, MoveRows(Seen(c), Live(Seen(c)), stage, by, checker))
  PROVE  IInv'
<1> DEFINE s == Seen(c)
           puts == MoveRows(s, Live(s), stage, by, checker)
           u == After(db, puts)
<1>1. Sane(s) /\ Aged(s, db)
  BY SeenOK
<1>2. Live(s) \in SUBSET Members
  BY DEF Live, Stored
<1>3. /\ DOMAIN puts = {Row(m) : m \in Live(s)}
      /\ \A m \in Live(s) : puts[Row(m)] =
           Turned(s[Row(m)], stage, Version(s) + 1, by, checker)
  <2> HIDE DEF s
  <2> QED BY DEF MoveRows, Turned
<1>4. /\ DOMAIN puts \subseteq Docs
      /\ \A m \in Live(s) : u[Row(m)] = puts[Row(m)]
      /\ \A m \in Members \ Live(s) : u[Row(m)] = db[Row(m)]
      /\ \A m \in Members : u[Seat(m)] = db[Seat(m)]
      /\ u[PlanDoc] = db[PlanDoc]
      /\ \A x \in Slots : u[Entry(x)] = db[Entry(x)] /\ u[Excuse(x)] = db[Excuse(x)]
  <2> HIDE DEF puts, s
  <2>1. Live(s) \in SUBSET Members /\ DOMAIN puts = {Row(m) : m \in Live(s)}
    BY <1>2, <1>3
  <2> QED BY ONLY <2>1, RowsPut
<1>5. Commit(c, puts)
  OBVIOUS
<1>6. \A d \in DOMAIN puts : s[d] = db[d]
  <2> HIDE DEF puts
  <2> QED BY <1>4, <1>5, CommitIsSeen DEF IInv
<1> HIDE DEF puts, u, s
<1>7. \A m \in Live(s) :
        /\ s[Row(m)] = db[Row(m)] /\ Stg(s, m) # "PUBLISHED"
        /\ u[Row(m)] = Turned(s[Row(m)], stage, Version(s) + 1, by, checker)
  BY <1>3, <1>4, <1>6 DEF s
<1>8. /\ RowsOK(s) /\ RowsOK(db) /\ Uniform(s) /\ Live(s) # {}
      /\ stage \in {"SUBMITTED", "APPROVED", "CHANGES", "PUBLISHED"}
      /\ \A m \in Members \ Live(s) : u[Row(m)] = db[Row(m)]
      /\ stage \in {"APPROVED", "PUBLISHED"} =>
           /\ by = "none"
           /\ \A m \in Live(s) : IF checker = "none" THEN Stg(s, m) = "APPROVED"
                                 ELSE checker # s[Row(m)].by
  BY <1>1, <1>4 DEF s, IInv, Sane
<1>9. RowsOK(u) /\ RowsStep(db, u)
  BY <1>7, <1>8, RowsMoved
<1>10. \A m \in Live(s) : Stg(u, m) # "PUBLISHED"
  <2> SUFFICES ASSUME NEW m \in Live(s) PROVE Stg(u, m) # "PUBLISHED"
    OBVIOUS
  <2>1. s[Row(m)] \in RowType /\ Version(s) \in Nat /\ stage \in Stages
    BY <1>8, OneDraft DEF RowsOK, RowsTyped, Live, Stored, Stages
  <2>2. PICK v \in Nat : v = Version(s) + 1
    BY <2>1
  <2>3. Moved(u[Row(m)], s[Row(m)], stage, v, by, checker)
    BY <1>7, <2>1, <2>2, RowTurned
  <2> QED BY <2>3 DEF Moved, Stg
<1>11. Sound(db, u)
  <2>1. \A m \in Stored(u) : Stg(u, m) = "PUBLISHED" => u[Row(m)] = db[Row(m)]
    BY <1>4, <1>10 DEF Stored
  <2>2. Sane(db) /\ PlanSince(s, db) /\ Life(s) = "RELEASED"
    BY <1>1 DEF s, IInv, Aged
  <2> QED BY <2>1, <2>2, <1>4, <1>9, DivisionWritten
<1> QED BY <1>4, <1>5, <1>11, SoundCommit DEF u

\* Submitting.
LEMMA SubmitKeeps ==
  ASSUME IInv, NEW c \in Clients \cup {Now}, NEW a \in Actors, Submit(c, a),
         Closed, UNCHANGED clock
  PROVE  IInv'
<1>1. /\ Ready(c) /\ Life(Seen(c)) = "RELEASED" /\ Live(Seen(c)) # {}
      /\ LiveIn(Seen(c), {"DRAFT", "CHANGES"}) /\ OneSnapshot(Seen(c))
      /\ Commit(c, MoveRows(Seen(c), Live(Seen(c)), "SUBMITTED", a, "none"))
  BY DEF Submit, Transferable
<1>2. Uniform(Seen(c)) /\ \A m \in Live(Seen(c)) : Stg(Seen(c), m) # "PUBLISHED"
  BY <1>1 DEF Uniform, LiveIn, Stg
<1> QED BY <1>1, <1>2, DivisionMoved

\* Approving and sending back.
LEMMA ReviewKeeps ==
  ASSUME IInv, NEW c \in Clients \cup {Now}, NEW a \in Actors,
         NEW verdict \in {"APPROVED", "CHANGES"}, Review(c, a, verdict),
         Closed, UNCHANGED clock
  PROVE  IInv'
<1> DEFINE k == IF verdict = "APPROVED" THEN a ELSE "none"
<1>1. /\ Ready(c) /\ Life(Seen(c)) = "RELEASED" /\ Live(Seen(c)) # {}
      /\ LiveIn(Seen(c), {"SUBMITTED"}) /\ OneSnapshot(Seen(c))
      /\ MayCheck(Seen(c), a)
      /\ Commit(c, MoveRows(Seen(c), Live(Seen(c)), verdict, "none", k))
  BY DEF Review, Transferable
<1>2. Uniform(Seen(c)) /\ \A m \in Live(Seen(c)) : Stg(Seen(c), m) # "PUBLISHED"
  BY <1>1 DEF Uniform, LiveIn, Stg
<1>3. k \in Actors \cup {"none"}
  OBVIOUS
<1>4. verdict = "APPROVED" => k # "none" /\ \A m \in Live(Seen(c)) : k # Seen(c)[Row(m)].by
  BY <1>1, KpiPlanAssumption DEF MayCheck
<1> HIDE DEF k
<1> QED BY <1>1, <1>2, <1>3, <1>4, DivisionMoved

\* Drafting: the new draft and the rows it replaces are written.
LEMMA UpsertDraftKeeps ==
  ASSUME IInv, NEW c \in Clients \cup {Now}, NEW f \in Divisions, UpsertDraft(c, f),
         Closed, UNCHANGED clock
  PROVE  IInv'
<1> DEFINE s == Seen(c)
           set == DOMAIN f
           W == Stored(s) \cup set
           sentBack == \E m \in Stored(s) : s[Row(m)].stage = "CHANGES"
           new(m) == NewRow("DRAFT", f[m], Version(s) + 1, set)
           old(m) == IF sentBack THEN [s[Row(m)] EXCEPT !.stage = "SUPERSEDED"] ELSE NoRow
           puts == [d \in {Row(m) : m \in W} |->
                      IF d[2] \in set THEN NewRow("DRAFT", f[d[2]], Version(s) + 1, set)
                      ELSE IF sentBack THEN [s[d] EXCEPT !.stage = "SUPERSEDED"]
                      ELSE NoRow]
           u == After(db, puts)
<1>1. /\ Ready(c) /\ Life(s) = "RELEASED" /\ LiveIn(s, {"DRAFT", "CHANGES"})
      /\ OneSnapshot(s)
      /\ \A m \in Stored(s) : Stg(s, m) \in {"DRAFT", "CHANGES"}
      /\ sentBack => set \cap Stored(s) = {}
      /\ Commit(c, puts)
  BY DEF UpsertDraft, Stg
<1>2. /\ set \in SUBSET Members /\ set # {} /\ \A m \in set : f[m] \in 1..Target
      /\ W \in SUBSET Members
  <2>1. PICK M \in (SUBSET Members) \ {{}} : f \in [M -> 1..Target]
    BY DEF Divisions
  <2>2. set = M
    BY <2>1
  <2>3. \A m \in M : f[m] \in 1..Target
    BY <2>1
  <2>4. Stored(s) \subseteq Members
    BY DEF Stored
  <2> HIDE DEF s
  <2>5. W \in SUBSET Members
    BY <2>1, <2>2, <2>4
  <2>6. set \in SUBSET Members /\ set # {}
    BY <2>1, <2>2
  <2> HIDE DEF W
  <2> QED BY <2>2, <2>3, <2>5, <2>6
<1>3. Sane(s) /\ Aged(s, db)
  BY <1>1, SeenOK
<1>4. /\ DOMAIN puts = {Row(m) : m \in W}
      /\ \A m \in set : puts[Row(m)] = new(m)
      /\ \A m \in W \ set : puts[Row(m)] = old(m)
  <2>1. \A m : Row(m)[2] = m
    BY DEF Row
  <2> HIDE DEF s, sentBack
  <2> QED BY <2>1
<1>5. /\ DOMAIN puts \subseteq Docs
      /\ \A m \in W : u[Row(m)] = puts[Row(m)]
      /\ \A m \in Members \ W : u[Row(m)] = db[Row(m)]
      /\ \A m \in Members : u[Seat(m)] = db[Seat(m)]
      /\ u[PlanDoc] = db[PlanDoc]
      /\ \A x \in Slots : u[Entry(x)] = db[Entry(x)] /\ u[Excuse(x)] = db[Excuse(x)]
  <2>1. DOMAIN puts = {Row(m) : m \in W} /\ W \in SUBSET Members
    BY <1>2, <1>4
  <2> HIDE DEF puts, W
  <2> QED BY <2>1, RowsPut
<1>6. \A d \in DOMAIN puts : s[d] = db[d]
  <2> HIDE DEF puts
  <2> QED BY <1>1, <1>5, CommitIsSeen DEF IInv
<1>7. Uniform(s) /\ Live(s) \subseteq W
  BY <1>1 DEF Uniform, LiveIn, Stg, Live
<1>8. Version(s) \in Nat
  BY <1>3, <1>7, OneDraft, NoDraft DEF Sane
<1> HIDE DEF s, puts, u, W, set, sentBack
<1>9. \A m \in W : m \in Stored(s) => Set(s, m) \subseteq Stored(s) /\ Set(s, m) # {}
                                      /\ Stg(s, m) # "PUBLISHED" /\ m \in Set(s, m)
  BY <1>1, <1>3 DEF Sane, RowsOK, Whole
<1>10. \A m \in set : /\ u[Row(m)] \in RowType /\ u[Row(m)].stage = "DRAFT"
                      /\ u[Row(m)].set = set /\ u[Row(m)].version = Version(s) + 1
                      /\ u[Row(m)].born = Version(s) + 1
                      /\ u[Row(m)].by = "none" /\ u[Row(m)].checker = "none"
  <2> SUFFICES ASSUME NEW m \in set
               PROVE  /\ u[Row(m)] \in RowType /\ u[Row(m)].stage = "DRAFT"
                      /\ u[Row(m)].set = set /\ u[Row(m)].version = Version(s) + 1
                      /\ u[Row(m)].born = Version(s) + 1
                      /\ u[Row(m)].by = "none" /\ u[Row(m)].checker = "none"
    OBVIOUS
  <2>1. PICK v \in Nat : v = Version(s) + 1
    BY <1>8
  <2>2. PICK share \in 1..Target : share = f[m]
    BY <1>2
  <2>3. u[Row(m)] = NewRow("DRAFT", share, v, set)
    BY <1>4, <1>5, <2>1, <2>2 DEF W
  <2> QED BY <1>2, <2>1, <2>3 DEF NewRow, RowType, Stages
<1>11. ASSUME NEW m \in W \ set
       PROVE  /\ m \in Stored(s) /\ s[Row(m)] \in RowType
              /\ u[Row(m)] = IF sentBack THEN [s[Row(m)] EXCEPT !.stage = "SUPERSEDED"]
                             ELSE NoRow
  BY <1>3, <1>4, <1>5 DEF W, Sane, RowsOK, RowsTyped, Stored
<1>12. ASSUME NEW m \in W \ set, sentBack
       PROVE  /\ u[Row(m)] \in RowType /\ u[Row(m)].stage = "SUPERSEDED"
              /\ u[Row(m)].set = Set(s, m) /\ u[Row(m)].version = s[Row(m)].version
              /\ u[Row(m)].born = s[Row(m)].born
              /\ u[Row(m)].by = s[Row(m)].by /\ u[Row(m)].checker = s[Row(m)].checker
  <2> DEFINE r == s[Row(m)]
  <2>1. r \in RowType /\ u[Row(m)] = [r EXCEPT !.stage = "SUPERSEDED"] /\ Set(s, m) = r.set
    BY <1>11, <1>12 DEF Set
  <2> HIDE DEF r
  <2> DEFINE q == [r EXCEPT !.stage = "SUPERSEDED"]
  <2>2. /\ q \in RowType /\ q.stage = "SUPERSEDED" /\ q.set = r.set
        /\ q.version = r.version /\ q.born = r.born /\ q.by = r.by
        /\ q.checker = r.checker
    BY ONLY <2>1 DEF RowType, Stages
  <2> HIDE DEF q
  <2>3. u[Row(m)] = q
    BY <2>1 DEF q
  <2> QED BY <2>1, <2>2, <2>3 DEF r
<1>13. \A m \in W : u[Row(m)] \in RowType \cup {NoRow}
  BY <1>10, <1>11, <1>12
<1>14. \A m \in set : m \in Stored(u) /\ m \in Live(u)
  BY <1>2, <1>10 DEF Stored, Live, NoRow
<1>15. ASSUME NEW m \in W, m \in Stored(u)
       PROVE  /\ Stg(u, m) \in {"DRAFT", "SUPERSEDED"}
              /\ m \in Set(u, m) /\ Set(u, m) \subseteq W
              /\ \A n \in Set(u, m) : n \in Stored(u) /\ Alike(u[Row(m)], u[Row(n)])
              /\ Stg(u, m) # "SUPERSEDED" => u[Row(m)].version = Version(s) + 1
  <2>1. CASE m \in set
    <3>1. \A n \in set : Alike(u[Row(m)], u[Row(n)])
      BY <2>1, <1>10 DEF Alike
    <3> QED BY <2>1, <3>1, <1>10, <1>14 DEF W, Stg, Set
  <2>2. CASE m \notin set
    <3>1. m \in Stored(s) /\ sentBack
      BY <2>2, <1>11, <1>15 DEF Stored
    <3>2. /\ Stg(u, m) = "SUPERSEDED" /\ Set(u, m) = Set(s, m) /\ m \in Set(s, m)
          /\ Set(s, m) \subseteq Stored(s)
      BY <3>1, <2>2, <1>9, <1>12 DEF Stg, Set
    <3>3. ASSUME NEW n \in Set(s, m)
          PROVE  n \in Stored(u) /\ Alike(u[Row(m)], u[Row(n)])
      <4>1. n \in W \ set /\ n \in Members
        BY <3>1, <3>2, <1>1, <1>2 DEF W
      <4>2. Alike(s[Row(m)], s[Row(n)])
        BY <3>1, <3>2, <1>3 DEF Sane, RowsOK, Whole
      <4>3. Alike(u[Row(m)], u[Row(n)])
        BY <3>1, <4>1, <4>2, <2>2, <1>12 DEF Alike, Set
      <4>4. u[Row(n)].stage = "SUPERSEDED" /\ u[Row(n)] \in RowType
        BY <3>1, <4>1, <1>12
      <4> QED BY <4>1, <4>3, <4>4 DEF Stored, NoRow
    <3> QED BY <3>2, <3>3 DEF W
  <2> QED BY <2>1, <2>2
<1>16. RowsOK(u) /\ RowsStep(db, u)
  <2>1. /\ RowsOK(s) /\ RowsOK(db)
        /\ \A m \in W : s[Row(m)] = db[Row(m)]
        /\ \E m \in W : m \in Live(u)
    BY <1>2, <1>3, <1>4, <1>6, <1>14 DEF W, IInv, Sane
  <2>2. \A m \in W : m \in Stored(s) => Set(s, m) \subseteq W /\ Stg(s, m) # "PUBLISHED"
    BY <1>9 DEF W
  <2>3. \A m \in W : m \in Stored(u) =>
           /\ Stg(u, m) # "PLAIN" /\ m \in Set(u, m) /\ Set(u, m) \subseteq W
           /\ \A n \in Set(u, m) : n \in Stored(u) /\ Alike(u[Row(m)], u[Row(n)])
           /\ Stg(u, m) \in {"APPROVED", "PUBLISHED"} =>
                u[Row(m)].checker \notin {"none", u[Row(m)].by}
           /\ Stg(u, m) # "SUPERSEDED" => u[Row(m)].version = Version(s) + 1
    BY <1>15
  <2> QED BY <2>1, <2>2, <2>3, <1>2, <1>5, <1>7, <1>13, RowsWritten
<1>17. Sound(db, u)
  <2>1. \A m \in Stored(u) : Stg(u, m) = "PUBLISHED" => u[Row(m)] = db[Row(m)]
    BY <1>5, <1>15 DEF Stored
  <2>2. Sane(db) /\ PlanSince(s, db) /\ Life(s) = "RELEASED"
    BY <1>1, <1>3 DEF IInv, Aged
  <2> QED BY <2>1, <2>2, <1>5, <1>16, DivisionWritten
<1> QED BY <1>1, <1>5, <1>17, SoundCommit DEF u

\* Publishing the division: its rows and the plan are written.
LEMMA PublishAllocationKeeps ==
  ASSUME IInv, NEW c \in Clients \cup {Now}, PublishAllocation(c),
         Closed, UNCHANGED clock
  PROVE  IInv'
<1> DEFINE s == Seen(c)
           rows == MoveRows(s, Live(s), "PUBLISHED", "none", "none")
           plan == PutPlan(s, "ACTIVE")
           puts == rows @@ plan
           u == After(db, puts)
<1>1. /\ Ready(c) /\ Life(s) = "RELEASED" /\ Live(s) # {}
      /\ LiveIn(s, {"APPROVED"}) /\ OneSnapshot(s)
      /\ Commit(c, puts)
  BY DEF PublishAllocation, Transferable
<1>2. /\ Uniform(s)
      /\ \A m \in Live(s) : m \in Members /\ Stg(s, m) = "APPROVED"
  BY <1>1 DEF Uniform, LiveIn, Stg, Live, Stored
<1>3. Sane(s) /\ Aged(s, db)
  BY <1>1, SeenOK
<1>4. /\ DOMAIN rows = {Row(m) : m \in Live(s)}
      /\ \A m \in Live(s) : rows[Row(m)] =
           Turned(s[Row(m)], "PUBLISHED", Version(s) + 1, "none", "none")
  <2> HIDE DEF s
  <2> QED BY DEF MoveRows, Turned
<1>5. DOMAIN plan = {PlanDoc} /\ plan[PlanDoc] = [s[PlanDoc] EXCEPT !.life = "ACTIVE"]
  <2> HIDE DEF s
  <2> QED BY DEF PutPlan, :>
<1>6. /\ DOMAIN puts = {Row(m) : m \in Live(s)} \cup {PlanDoc}
      /\ \A m \in Live(s) : puts[Row(m)] = rows[Row(m)]
      /\ puts[PlanDoc] = plan[PlanDoc]
  <2>1. /\ DOMAIN puts = DOMAIN rows \cup DOMAIN plan
        /\ \A d \in DOMAIN puts : puts[d] = IF d \in DOMAIN rows THEN rows[d] ELSE plan[d]
    <3> HIDE DEF rows, plan
    <3> QED BY DEF @@
  <2> HIDE DEF rows, plan, puts, s
  <2> QED BY <2>1, <1>4, <1>5, Different
<1>7. /\ DOMAIN puts \subseteq Docs
      /\ \A m \in Live(s) : u[Row(m)] = rows[Row(m)]
      /\ \A m \in Members \ Live(s) : u[Row(m)] = db[Row(m)]
      /\ \A m \in Members : u[Seat(m)] = db[Seat(m)]
      /\ u[PlanDoc] = plan[PlanDoc]
      /\ \A x \in Slots : u[Entry(x)] = db[Entry(x)] /\ u[Excuse(x)] = db[Excuse(x)]
  <2>1. \A d \in Docs : u[d] = IF d \in DOMAIN puts THEN puts[d] ELSE db[d]
    <3> HIDE DEF puts
    <3> QED BY DEF After
  <2>2. /\ \A m \in Members : Row(m) \in DOMAIN puts <=> m \in Live(s)
        /\ \A m : Seat(m) \notin DOMAIN puts
        /\ \A x : Entry(x) \notin DOMAIN puts /\ Excuse(x) \notin DOMAIN puts
    <3> HIDE DEF puts, s
    <3> QED BY <1>6, Different
  <2> HIDE DEF u, puts, rows, plan, s
  <2>3. DOMAIN puts \subseteq Docs
    BY <1>2, <1>6, InDocs
  <2> QED BY <1>2, <1>6, <2>1, <2>2, <2>3, InDocs
<1>8. \A d \in DOMAIN puts : s[d] = db[d]
  <2> HIDE DEF puts
  <2> QED BY <1>1, <1>7, CommitIsSeen DEF IInv
<1> HIDE DEF s, rows, plan, puts, u
<1>9. Version(s) \in Nat
  BY <1>2, <1>3, OneDraft, NoDraft DEF Sane
<1>10. PICK v \in Nat : v = Version(s) + 1
  BY <1>9
<1>11. \A m \in Live(s) :
        /\ s[Row(m)] = db[Row(m)] /\ Stg(s, m) # "PUBLISHED"
        /\ u[Row(m)] = Turned(s[Row(m)], "PUBLISHED", Version(s) + 1, "none", "none")
  BY <1>2, <1>4, <1>6, <1>7, <1>8
<1>12. RowsOK(u) /\ RowsStep(db, u)
  <2>1. /\ RowsOK(s) /\ RowsOK(db)
        /\ \A m \in Live(s) : IF "none" = "none" THEN Stg(s, m) = "APPROVED"
                              ELSE "none" # s[Row(m)].by
    BY <1>2, <1>3 DEF IInv, Sane
  <2>2. /\ "PUBLISHED" \in {"SUBMITTED", "APPROVED", "CHANGES", "PUBLISHED"}
        /\ "none" \in Actors \cup {"none"}
    OBVIOUS
  <2>3. Uniform(s) /\ Live(s) # {} /\ \A m \in Members \ Live(s) : u[Row(m)] = db[Row(m)]
    BY <1>1, <1>2, <1>7
  <2> QED BY ONLY <2>1, <2>2, <2>3, <1>11, RowsMoved
<1>13. ASSUME NEW m \in Live(s) PROVE m \in Live(u) /\ Stg(u, m) = "PUBLISHED"
  <2>1. s[Row(m)] \in RowType
    BY <1>3 DEF Sane, RowsOK, RowsTyped, Live, Stored
  <2>2. Moved(u[Row(m)], s[Row(m)], "PUBLISHED", v, "none", "none")
    BY <2>1, <1>10, <1>11, RowTurned DEF Stages
  <2> QED BY <2>2, <1>2 DEF Moved, Stg, Live, Stored, NoRow
<1>14. /\ s[PlanDoc] = db[PlanDoc]
       /\ u[PlanDoc] = [db[PlanDoc] EXCEPT !.life = "ACTIVE"]
  BY <1>5, <1>6, <1>7, <1>8
<1>15. /\ u[PlanDoc] \in PlanType /\ Life(u) = "ACTIVE" /\ Life(db) = "RELEASED"
       /\ u[PlanDoc].reviewed = db[PlanDoc].reviewed
       /\ u[PlanDoc].subject = db[PlanDoc].subject
  BY <1>1, <1>14 DEF Life, IInv, Sane, StateOK, PlanType, PlanLives
<1>16. \A x \in Slots : ~HasEntry(db, x)
  BY <1>15, SlotMembers DEF IInv, Sane, Published, Stored, Stg, Over, NoRow
<1>17. Sane(u)
  <2>1. StateOK(u)
    BY <1>7, <1>12, <1>15 DEF StateOK, RowsOK, RowsTyped, IInv, Sane
  <2>2. \A x \in Slots : ~HasEntry(u, x)
    BY <1>7, <1>16 DEF HasEntry
  <2>3. FinalCovers(u)
    BY <1>15 DEF FinalCovers
  <2> QED BY <2>1, <2>2, <2>3, <1>1, <1>12, <1>13, <1>15 DEF Sane, Over
<1>18. Sound(db, u)
  BY <1>12, <1>15, <1>17 DEF Sound, PlanSince, Over
<1> QED BY <1>1, <1>7, <1>18, SoundCommit DEF u

\* Allocating in the draft plan: rows without a lifecycle, and the plan.
LEMMA ReplaceDraftAllocationsKeeps ==
  ASSUME IInv, NEW c \in Clients \cup {Now}, NEW f \in Divisions,
         ReplaceDraftAllocations(c, f), Closed, UNCHANGED clock
  PROVE  IInv'
<1> DEFINE s == Seen(c)
           set == DOMAIN f
           W == Stored(s) \cup set
           plan == PutPlan(s, "DRAFT")
           rows == [d \in {Row(m) : m \in W} |->
                      IF d[2] \in set THEN NewRow("PLAIN", f[d[2]], 0, {}) ELSE NoRow]
           puts == plan @@ rows
           u == After(db, puts)
<1>1. Ready(c) /\ Life(s) = "DRAFT" /\ Commit(c, puts)
  BY DEF ReplaceDraftAllocations
<1>2. /\ W \in SUBSET Members /\ \A m \in set : f[m] \in 1..Target
  <2>1. PICK M \in (SUBSET Members) \ {{}} : f \in [M -> 1..Target]
    BY DEF Divisions
  <2>2. set = M /\ \A m \in M : f[m] \in 1..Target
    BY <2>1
  <2>3. Stored(s) \subseteq Members
    BY DEF Stored
  <2> HIDE DEF s
  <2> QED BY <2>1, <2>2, <2>3
<1>3. Sane(s) /\ Aged(s, db)
  BY <1>1, SeenOK
<1>4. /\ DOMAIN rows = {Row(m) : m \in W}
      /\ \A m \in W : rows[Row(m)] =
           IF m \in set THEN NewRow("PLAIN", f[m], 0, {}) ELSE NoRow
  <2>1. \A m : Row(m)[2] = m
    BY DEF Row
  <2> HIDE DEF s, W
  <2> QED BY <2>1
<1>5. DOMAIN plan = {PlanDoc} /\ plan[PlanDoc] = [s[PlanDoc] EXCEPT !.life = "DRAFT"]
  <2> HIDE DEF s
  <2> QED BY DEF PutPlan, :>
<1>6. /\ DOMAIN puts = {Row(m) : m \in W} \cup {PlanDoc}
      /\ \A m \in W : puts[Row(m)] = rows[Row(m)]
      /\ puts[PlanDoc] = plan[PlanDoc]
  <2>1. /\ DOMAIN puts = DOMAIN rows \cup DOMAIN plan
        /\ \A d \in DOMAIN puts : puts[d] = IF d \in DOMAIN plan THEN plan[d] ELSE rows[d]
    <3> HIDE DEF rows, plan
    <3> QED BY DEF @@
  <2> HIDE DEF rows, plan, puts, s, W
  <2> QED BY <2>1, <1>4, <1>5, Different
<1> HIDE DEF s, rows, plan, puts, W, set
<1>7. /\ DOMAIN puts \subseteq Docs
      /\ \A m \in W : u[Row(m)] = rows[Row(m)]
      /\ \A m \in Members \ W : u[Row(m)] = db[Row(m)]
      /\ \A m \in Members : u[Seat(m)] = db[Seat(m)]
      /\ u[PlanDoc] = plan[PlanDoc]
      /\ \A x \in Slots : u[Entry(x)] = db[Entry(x)] /\ u[Excuse(x)] = db[Excuse(x)]
  <2>1. \A d \in Docs : u[d] = IF d \in DOMAIN puts THEN puts[d] ELSE db[d]
    BY DEF After
  <2>2. /\ \A m \in Members : Row(m) \in DOMAIN puts <=> m \in W
        /\ \A m : Seat(m) \notin DOMAIN puts
        /\ \A x : Entry(x) \notin DOMAIN puts /\ Excuse(x) \notin DOMAIN puts
    BY <1>6, Different
  <2> HIDE DEF u
  <2>3. DOMAIN puts \subseteq Docs
    BY <1>2, <1>6, InDocs
  <2> QED BY <1>2, <1>6, <2>1, <2>2, <2>3, InDocs
<1>8. \A d \in DOMAIN puts : s[d] = db[d]
  BY <1>1, <1>7, CommitIsSeen DEF IInv, s
<1> HIDE DEF u
<1>9. /\ u[PlanDoc] \in PlanType /\ Life(u) = "DRAFT" /\ Life(db) = "DRAFT"
      /\ u[PlanDoc].reviewed = db[PlanDoc].reviewed
      /\ u[PlanDoc].subject = db[PlanDoc].subject
  <2>1. u[PlanDoc] = [db[PlanDoc] EXCEPT !.life = "DRAFT"] /\ s[PlanDoc] = db[PlanDoc]
    BY <1>5, <1>6, <1>7, <1>8
  <2> QED BY <1>1, <2>1 DEF Life, IInv, Sane, StateOK, PlanType, PlanLives
<1>10. \A m \in Stored(db) : Set(db, m) = {} /\ Stg(db, m) = "PLAIN"
  BY <1>9 DEF IInv, Sane, RowsOK, Whole
<1>11. \A m \in Members : u[Row(m)] # NoRow =>
         /\ u[Row(m)] \in RowType /\ u[Row(m)].stage = "PLAIN" /\ u[Row(m)].set = {}
         /\ u[Row(m)].version = 0 /\ u[Row(m)].born = 0
         /\ u[Row(m)].by = "none" /\ u[Row(m)].checker = "none"
  <2> SUFFICES ASSUME NEW m \in Members, u[Row(m)] # NoRow
               PROVE  /\ u[Row(m)] \in RowType /\ u[Row(m)].stage = "PLAIN"
                      /\ u[Row(m)].set = {}
                      /\ u[Row(m)].version = 0 /\ u[Row(m)].born = 0
                      /\ u[Row(m)].by = "none" /\ u[Row(m)].checker = "none"
    OBVIOUS
  <2>1. CASE m \in W
    <3>1. m \in set /\ u[Row(m)] = NewRow("PLAIN", f[m], 0, {})
      BY <2>1, <1>4, <1>7
    <3>2. PICK share \in 1..Target : share = f[m]
      BY <3>1, <1>2
    <3>3. u[Row(m)] = NewRow("PLAIN", share, 0, {})
      BY <3>1, <3>2
    <3> QED BY <3>3 DEF NewRow, RowType, Stages
  <2>2. CASE m \notin W
    <3>1. u[Row(m)] = db[Row(m)] /\ m \in Stored(db)
      BY <2>2, <1>7 DEF Stored
    <3> QED BY <3>1, <1>10 DEF IInv, Sane, RowsOK, RowsTyped, Whole, Stored, Set, Stg
  <2> QED BY <2>1, <2>2
<1>12. RowsOK(u) /\ RowsStep(db, u)
  <2>1. RowsOK(u)
    BY <1>11 DEF RowsOK, RowsTyped, Whole, Checked, Stored, Set, Stg
  <2>2. Drafted(db) = {}
    BY <1>10 DEF Drafted, Live
  <2>3. ~Versioned(u)
    BY <1>11 DEF Versioned, LiveIn, Live, Stored
  <2> QED BY <2>1, <2>2, <2>3, <1>10 DEF RowsStep, RowsSince
<1>13. \A x \in Slots : ~HasEntry(db, x)
  BY <1>10, SlotMembers DEF IInv, Sane, Published, Stored, Stg, NoRow
<1>14. Sane(u)
  <2>1. StateOK(u)
    BY <1>7, <1>9, <1>12 DEF StateOK, RowsOK, RowsTyped, IInv, Sane
  <2>2. \A x \in Slots : ~HasEntry(u, x)
    BY <1>7, <1>13 DEF HasEntry
  <2>3. FinalCovers(u)
    BY <1>9 DEF FinalCovers
  <2>4. \A m \in Stored(u) : Set(u, m) = {} /\ Stg(u, m) # "PUBLISHED"
    BY <1>11 DEF Stored, Set, Stg
  <2> QED BY <2>1, <2>2, <2>3, <2>4, <1>9, <1>12 DEF Sane
<1>15. Sound(db, u)
  BY <1>9, <1>12, <1>14 DEF Sound, PlanSince, Over
<1> QED BY <1>1, <1>7, <1>15, SoundCommit DEF u
-----------------------------------------------------------------------------
(* Operations of the plan and of the days.                                 *)

\* Moving the plan on, or writing its draft.
LEMMA PlanMoved ==
  ASSUME IInv, NEW c \in Clients \cup {Now}, Ready(c), Closed, UNCHANGED clock,
         NEW p \in PlanType, Commit(c, PlanDoc :> p),
         p.reviewed = Seen(c)[PlanDoc].reviewed,
         p.subject = Seen(c)[PlanDoc].subject,
         p.life = "DRAFT" => Life(Seen(c)) = "DRAFT",
         Life(Seen(c)) \in Over => p.life \in Over,
         p.life # "ACTIVE",
         p.life = "FINALIZED" => DOMAIN p.final = {x \in Slots : Published(db, x)}
  PROVE  IInv'
<1> DEFINE puts == PlanDoc :> p
           u == After(db, puts)
<1>1. /\ DOMAIN puts \subseteq Docs /\ PlanDoc \in DOMAIN puts
      /\ u[PlanDoc] = p
      /\ \A e \in Docs : e # PlanDoc => u[e] = db[e]
  BY InDocs DEF After, :>
<1>2. Commit(c, puts)
  OBVIOUS
<1> HIDE DEF puts, u
<1>3. Seen(c)[PlanDoc] = db[PlanDoc]
  BY <1>1, <1>2, CommitIsSeen DEF IInv
<1>4. /\ \A m \in Members : u[Row(m)] = db[Row(m)] /\ u[Seat(m)] = db[Seat(m)]
      /\ \A x \in Slots : u[Entry(x)] = db[Entry(x)] /\ u[Excuse(x)] = db[Excuse(x)]
  BY <1>1, InDocs, Different
<1>5. Life(u) = p.life /\ Life(Seen(c)) = Life(db)
  BY <1>1, <1>3 DEF Life
<1>6. FinalCovers(u)
  <2>1. \A x \in Slots : Published(u, x) <=> Published(db, x)
    BY <1>4, SlotMembers DEF Published
  <2> QED BY <2>1, <1>1, <1>5 DEF FinalCovers
<1>7. Sound(db, u)
  BY <1>1, <1>3, <1>4, <1>5, <1>6, PlanWritten DEF IInv
<1> QED BY <1>1, <1>2, <1>7, SoundCommit DEF u

\* A plan with its life changed.
LEMMA PlanRelived ==
  ASSUME NEW s, Sane(s), NEW life \in PlanLives,
         NEW p, p = [s[PlanDoc] EXCEPT !.life = life]
  PROVE  /\ p \in PlanType /\ p.life = life
         /\ p.reviewed = s[PlanDoc].reviewed /\ p.subject = s[PlanDoc].subject
<1>1. s[PlanDoc] \in PlanType
  BY DEF Sane, StateOK
<1> QED BY <1>1 DEF PlanType

\* Editing, publishing and archiving the plan.
LEMMA PlanOnlyKeeps ==
  ASSUME IInv, NEW c \in Clients \cup {Now}, Closed, UNCHANGED clock,
         UpdateDraft(c) \/ PublishPlan(c) \/ ArchivePlan(c)
  PROVE  IInv'
<1>1. Ready(c)
  BY DEF UpdateDraft, PublishPlan, ArchivePlan
<1>2. Sane(Seen(c))
  BY <1>1, SeenOK
<1>3. ASSUME NEW life \in {"DRAFT", "RELEASED", "ARCHIVED"},
             life # "ARCHIVED" => Life(Seen(c)) = "DRAFT",
             Commit(c, PutPlan(Seen(c), life))
      PROVE  IInv'
  <2> DEFINE p == [Seen(c)[PlanDoc] EXCEPT !.life = life]
  <2>1. Commit(c, PlanDoc :> p)
    BY <1>3 DEF PutPlan
  <2>2. p = [Seen(c)[PlanDoc] EXCEPT !.life = life] /\ life \in PlanLives
    BY DEF PlanLives
  <2> HIDE DEF p
  <2>3. /\ p \in PlanType /\ p.life = life
        /\ p.reviewed = Seen(c)[PlanDoc].reviewed
        /\ p.subject = Seen(c)[PlanDoc].subject
    BY <1>2, <2>2, PlanRelived
  <2>4. /\ p.life = "DRAFT" => Life(Seen(c)) = "DRAFT"
        /\ Life(Seen(c)) \in Over => p.life \in Over
        /\ p.life # "ACTIVE" /\ p.life # "FINALIZED"
    BY <2>3, <1>3 DEF Over
  <2> QED BY <1>1, <2>1, <2>3, <2>4, PlanMoved
<1>4. CASE UpdateDraft(c)
  BY <1>3, <1>4 DEF UpdateDraft
<1>5. CASE PublishPlan(c)
  BY <1>3, <1>5 DEF PublishPlan
<1>6. CASE ArchivePlan(c)
  BY <1>3, <1>6 DEF ArchivePlan
<1> QED BY <1>4, <1>5, <1>6

\* Finalizing, with a result that is read outside.
LEMMA FinalizeKeeps ==
  ASSUME IInv, NEW c \in Clients \cup {Now}, Finalize(c), Closed, UNCHANGED clock
  PROVE  IInv'
<1> DEFINE s == Seen(c)
<1>1. /\ Ready(c) /\ Life(s) = "ACTIVE"
      /\ \E outside \in {s, db} :
           Commit(c, PlanDoc :> [s[PlanDoc] EXCEPT !.life = "FINALIZED",
                                                   !.final = FinalResult(outside)])
  BY DEF Finalize
<1>2. PICK outside \in {s, db} :
        Commit(c, PlanDoc :> [s[PlanDoc] EXCEPT !.life = "FINALIZED",
                                                !.final = FinalResult(outside)])
  BY <1>1
<1> HIDE DEF s
<1>3. Sane(s) /\ Aged(s, db) /\ Sane(db)
  BY <1>1, SeenOK DEF s, IInv
<1>4. \A x \in Slots : Published(outside, x) <=> Published(db, x)
  BY <1>1, <1>3, PublishedAlike, SlotMembers DEF Published, Stg, Over
<1> DEFINE r == FinalResult(outside)
           p == [s[PlanDoc] EXCEPT !.life = "FINALIZED", !.final = r]
<1>5. /\ DOMAIN r = {x \in Slots : Published(db, x)}
      /\ r \in UNION {[S -> Values \cup {0}] : S \in SUBSET Slots}
  <2> DEFINE S == {x \in Slots : Published(outside, x)}
  <2>1. StateOK(outside)
    BY <1>3 DEF Sane
  <2>2. r = [x \in S |-> IF HasEntry(outside, x) THEN outside[Entry(x)].effective ELSE 0]
    BY DEF FinalResult
  <2>3. \A x \in S : HasEntry(outside, x) => outside[Entry(x)].effective \in Values \cup {0}
    BY <2>1 DEF StateOK, HasEntry, EntryType
  <2>4. S = {x \in Slots : Published(db, x)}
    BY <1>4
  <2>5. S \in SUBSET Slots
    OBVIOUS
  <2> HIDE DEF r, S
  <2>6. r \in [S -> Values \cup {0}] /\ DOMAIN r = S
    BY <2>2, <2>3
  <2> QED BY <2>4, <2>5, <2>6
<1>6. /\ p \in PlanType /\ p.life = "FINALIZED" /\ p.final = r
      /\ p.reviewed = s[PlanDoc].reviewed /\ p.subject = s[PlanDoc].subject
  <2> HIDE DEF r
  <2>1. s[PlanDoc] \in PlanType
    BY <1>3 DEF Sane, StateOK
  <2> QED BY <2>1, <1>5 DEF PlanType, PlanLives
<1>7. Commit(c, PlanDoc :> p)
  BY <1>2
<1> HIDE DEF p, r
<1>8. /\ p.life = "DRAFT" => Life(s) = "DRAFT"
      /\ Life(s) \in Over => p.life \in Over
      /\ p.life # "ACTIVE"
      /\ p.life = "FINALIZED" => DOMAIN p.final = {x \in Slots : Published(db, x)}
  BY <1>5, <1>6 DEF Over
<1> QED BY <1>1, <1>6, <1>7, <1>8, PlanMoved DEF s

\* Writing the entry of an open slot.
LEMMA EntryPut ==
  ASSUME IInv, NEW c \in Clients \cup {Now}, Ready(c), Closed, UNCHANGED clock,
         NEW x \in Slots, OpenFor(Seen(c), x), NEW e \in EntryType,
         Commit(c, Entry(x) :> e)
  PROVE  IInv'
<1> DEFINE puts == Entry(x) :> e
           u == After(db, puts)
<1>1. /\ DOMAIN puts \subseteq Docs /\ u[Entry(x)] = e
      /\ \A d \in Docs : d # Entry(x) => u[d] = db[d]
  BY InDocs DEF After, :>
<1>2. Commit(c, puts)
  OBVIOUS
<1> HIDE DEF puts, u
<1>3. Published(db, x)
  BY SeenOK, PublishedAlike, SlotMembers DEF OpenFor, Published, Stg, Over
<1>4. /\ \A m \in Members : u[Row(m)] = db[Row(m)] /\ u[Seat(m)] = db[Seat(m)]
      /\ u[PlanDoc] = db[PlanDoc]
      /\ \A y \in Slots : u[Excuse(y)] = db[Excuse(y)]
      /\ \A y \in Slots : y # x => u[Entry(y)] = db[Entry(y)]
  BY <1>1, InDocs, Different
<1>5. Sane(db) /\ StateOK(db)
  BY DEF IInv, Sane
<1>6. \A y \in Slots : /\ u[Entry(y)] \in EntryType \cup {NoEntry}
                       /\ u[Excuse(y)] \in BOOLEAN
                       /\ HasEntry(u, y) => Published(db, y)
  BY <1>1, <1>3, <1>4, <1>5 DEF StateOK, Sane, HasEntry
<1>7. \A m \in Members : u[Row(m)] = db[Row(m)] /\ u[Seat(m)] \in {"ACTIVE", "LEFT"}
  BY <1>4, <1>5 DEF StateOK
<1>8. Sound(db, u)
  BY <1>4, <1>5, <1>6, <1>7, DayWritten
<1> QED BY <1>1, <1>2, <1>8, SoundCommit DEF u

\* Writing a document that is neither row, plan nor entry.
LEMMA OtherPut ==
  ASSUME IInv, NEW c \in Clients \cup {Now}, Ready(c), Closed, UNCHANGED clock,
         NEW d, NEW v,
         \/ \E x \in Slots : d = Excuse(x) /\ v \in BOOLEAN
         \/ \E m \in Members : d = Seat(m) /\ v \in {"ACTIVE", "LEFT"},
         Commit(c, d :> v)
  PROVE  IInv'
<1> DEFINE puts == d :> v
           u == After(db, puts)
<1>1. d \in Docs
  BY InDocs
<1>2. /\ DOMAIN puts \subseteq Docs /\ u[d] = v
      /\ \A o \in Docs : o # d => u[o] = db[o]
  BY <1>1 DEF After, :>
<1>3. Commit(c, puts)
  OBVIOUS
<1> HIDE DEF puts, u
<1>4. Sane(db) /\ StateOK(db)
  BY DEF IInv, Sane
<1>5. /\ \A m \in Members : u[Row(m)] = db[Row(m)] /\ u[Seat(m)] \in {"ACTIVE", "LEFT"}
      /\ u[PlanDoc] = db[PlanDoc]
      /\ \A y \in Slots : u[Entry(y)] = db[Entry(y)] /\ u[Excuse(y)] \in BOOLEAN
  BY <1>2, <1>4, InDocs, Different DEF StateOK
<1>6. \A y \in Slots : /\ u[Entry(y)] \in EntryType \cup {NoEntry}
                       /\ u[Excuse(y)] \in BOOLEAN
                       /\ HasEntry(u, y) => Published(db, y)
  BY <1>4, <1>5 DEF StateOK, Sane, HasEntry
<1>7. Sound(db, u)
  BY <1>4, <1>5, <1>6, DayWritten
<1> QED BY <1>2, <1>3, <1>7, SoundCommit DEF u

\* The operations of a day.
LEMMA DayKeeps ==
  ASSUME IInv, NEW c \in Clients \cup {Now}, NEW x \in Slots, SlotStep(c, x),
         Closed, UNCHANGED clock
  PROVE  IInv'
<1> DEFINE s == Seen(c)
           e == s[Entry(x)]
<1>1. ASSUME NEW v \in Values, CreateActual(c, x, v) PROVE IInv'
  <2>1. Ready(c) /\ OpenFor(s, x) /\ Commit(c, Entry(x) :> NewEntry(v, s[PlanDoc].reviewed))
    BY <1>1 DEF CreateActual
  <2>2. s[PlanDoc].reviewed \in BOOLEAN
    BY <2>1, SeenOK DEF Sane, StateOK, PlanType
  <2>3. NewEntry(v, s[PlanDoc].reviewed) \in EntryType
    BY <2>2, KpiActualsAssumption DEF NewEntry, EntryType
  <2> QED BY <2>1, <2>3, EntryPut
<1>2. ASSUME Ready(c), HasEntry(s, x) PROVE e \in EntryType
  BY <1>2, SeenOK DEF Sane, StateOK, HasEntry
<1>3. ASSUME NEW v \in Values, UpdateActual(c, x, v) PROVE IInv'
  <2> DEFINE g == [e EXCEPT !.effective = v, !.accepted = e.version + 1,
                            !.version = @ + 1, !.edits = @ + 1]
  <2>1. Ready(c) /\ OpenFor(s, x) /\ HasEntry(s, x) /\ Commit(c, Entry(x) :> g)
    BY <1>3 DEF UpdateActual
  <2>2. e \in EntryType
    BY <1>2, <2>1
  <2>3. g \in EntryType
    <3> HIDE DEF e
    <3>1. PICK version \in Nat, edits \in Nat : version = e.version + 1 /\ edits = e.edits + 1
      BY <2>2 DEF EntryType
    <3>2. g = [e EXCEPT !.effective = v, !.accepted = version,
                        !.version = version, !.edits = edits]
      BY <3>1
    <3> HIDE DEF g
    <3> QED BY <2>2, <3>1, <3>2 DEF EntryType
  <2> QED BY <2>1, <2>3, EntryPut
<1>4. ASSUME NEW v \in Values, CorrectActual(c, x, v) PROVE IInv'
  <2>1. Ready(c) /\ OpenFor(s, x) /\ HasEntry(s, x)
    BY <1>4 DEF CorrectActual
  <2>2. PICK t : Commit(c, Entry(x) :>
                   Corrected(e, v, s[PlanDoc].reviewed \/ Stage(x[2], t) = "REVIEWED"))
    BY <1>4 DEF CorrectActual
  <2>3. e \in EntryType
    BY <1>2, <2>1
  <2> DEFINE review == s[PlanDoc].reviewed \/ Stage(x[2], t) = "REVIEWED"
  <2> HIDE DEF e, review
  <2>4. Corrected(e, v, review) \in EntryType
    <3>1. PICK version \in Nat, corrections \in Nat :
            version = e.version + 1 /\ corrections = e.corrections + 1
      BY <2>3 DEF EntryType
    <3>2. CASE review
      <4>1. Corrected(e, v, review) = [e EXCEPT !.version = version,
              !.corrections = corrections, !.life = "UNDER_REVIEW"]
        BY <3>1, <3>2 DEF Corrected
      <4> QED BY <2>3, <3>1, <4>1 DEF EntryType
    <3>3. CASE ~review
      <4> DEFINE moved == [e EXCEPT !.version = version,
                             !.corrections = corrections, !.life = "CORRECTED"]
      <4>1. Corrected(e, v, review) = [moved EXCEPT !.effective = v, !.accepted = version]
        BY <3>1, <3>3 DEF Corrected
      <4>2. moved \in EntryType
        BY <2>3, <3>1 DEF EntryType
      <4> HIDE DEF moved
      <4> QED BY <3>1, <4>1, <4>2 DEF EntryType
    <3> QED BY <3>2, <3>3
  <2>5. Commit(c, Entry(x) :> Corrected(e, v, review))
    BY <2>2 DEF review
  <2> QED BY <2>1, <2>4, <2>5, EntryPut DEF e
<1>5. ASSUME MarkExcuse(c, x) PROVE IInv'
  <2>1. Ready(c) /\ Commit(c, Excuse(x) :> TRUE)
    BY <1>5 DEF MarkExcuse
  <2> QED BY <2>1, OtherPut
<1>6. ASSUME RemoveExcuse(c, x) PROVE IInv'
  <2>1. Ready(c) /\ Commit(c, Excuse(x) :> FALSE)
    BY <1>6 DEF RemoveExcuse
  <2> QED BY <2>1, OtherPut
<1> QED BY <1>1, <1>3, <1>4, <1>5, <1>6 DEF SlotStep

\* A member leaves.
LEMMA LeaveKeeps ==
  ASSUME IInv, NEW m \in Members, Leave(m), Closed, UNCHANGED clock
  PROVE  IInv'
<1>1. Ready(Now) /\ Commit(Now, Seat(m) :> "LEFT")
  BY DEF Leave, Ready
<1> QED BY <1>1, OtherPut

\* Beginning a transaction.
LEMMA BeginKeeps ==
  ASSUME IInv, NEW c \in Clients, BeginTxn(c)
  PROVE  IInv'
<1>1. /\ db' = db /\ missed' = missed /\ clock' = clock
      /\ snap' = [snap EXCEPT ![c] = db] /\ since' = [since EXCEPT ![c] = clock]
      /\ ~InTxn(c)
  BY DEF BeginTxn, Begin
<1>2. \A o \in Clients : snap'[o] = IF o = c THEN db ELSE snap[o]
  BY <1>1 DEF IInv, Functional
<1>3. Functional'
  BY <1>1, <1>2 DEF IInv, Functional, InTxn
<1>4. SnapshotCurrent'
  BY <1>1, <1>2 DEF IInv, SnapshotCurrent, InTxn
<1>5. Aged(db, db)
  BY SameRows DEF Aged, IInv, Sane, RowsStep, PlanSince
<1>6. ASSUME NEW o \in Clients, InTxn(o)' PROVE Sane(snap'[o]) /\ Aged(snap'[o], db')
  BY <1>1, <1>2, <1>5, <1>6 DEF IInv, InTxn
<1>7. Sane(db)'
  <2>1. Sane(db')
    BY <1>1 DEF IInv
  <2> QED BY <2>1
<1>8. clock' \in Nat /\ since' \in [Clients -> Nat]
  BY <1>1 DEF IInv
<1> QED BY <1>3, <1>4, <1>6, <1>7, <1>8 DEF IInv

\* Ending one without a write.
LEMMA AbortKeeps ==
  ASSUME IInv, NEW c \in Clients, Abort(c), Closed, UNCHANGED clock
  PROVE  IInv'
<1>1. /\ db' = db /\ clock' = clock
      /\ snap' = [snap EXCEPT ![c] = NoSnapshot]
      /\ missed' = [missed EXCEPT ![c] = {}]
  BY DEF Abort
<1>2. \A o \in Clients : /\ snap'[o] = IF o = c THEN NoSnapshot ELSE snap[o]
                         /\ missed'[o] = IF o = c THEN {} ELSE missed[o]
  BY <1>1 DEF IInv, Functional
<1>3. Functional'
  BY <1>1, <1>2 DEF IInv, Functional, InTxn
<1>4. SnapshotCurrent'
  BY <1>1, <1>2 DEF IInv, SnapshotCurrent, InTxn
<1>5. ASSUME NEW o \in Clients, InTxn(o)' PROVE Sane(snap'[o]) /\ Aged(snap'[o], db')
  BY <1>1, <1>2, <1>5 DEF IInv, InTxn
<1>6. Sane(db)'
  <2>1. Sane(db')
    BY <1>1 DEF IInv
  <2> QED BY <2>1
<1>7. clock' \in Nat /\ since' \in [Clients -> Nat]
  BY <1>1 DEF IInv, Closed
<1> QED BY <1>3, <1>4, <1>5, <1>6, <1>7 DEF IInv

\* Time passes, or nothing happens.
LEMMA IdleKeeps ==
  ASSUME IInv, UNCHANGED <<db, snap, missed, since>>, clock' \in Nat
  PROVE  IInv'
<1>1. db' = db /\ snap' = snap /\ missed' = missed /\ since' = since
  OBVIOUS
<1>2. Functional' /\ SnapshotCurrent'
  BY <1>1 DEF IInv, Functional, SnapshotCurrent, InTxn
<1>3. Sane(db)'
  <2>1. Sane(db')
    BY <1>1 DEF IInv
  <2> QED BY <2>1
<1>4. ASSUME NEW o \in Clients, InTxn(o)' PROVE Sane(snap'[o]) /\ Aged(snap'[o], db')
  BY <1>1, <1>4 DEF IInv, InTxn
<1> QED BY <1>1, <1>2, <1>3, <1>4 DEF IInv
-----------------------------------------------------------------------------
(* The invariant.                                                          *)

\* It holds at first.
LEMMA InitIInv == Init => IInv
<1> SUFFICES ASSUME Init PROVE IInv
  OBVIOUS
<1>1. PICK subject \in {"TALENT_GROUP", "ORG_UNIT"}, reviewed \in BOOLEAN :
       db = [d \in Docs |->
         CASE d[1] = "plan" -> [life |-> "DRAFT", subject |-> subject,
                                reviewed |-> reviewed, final |-> <<>>]
           [] d[1] = "row" -> NoRow
           [] d[1] = "seat" -> "ACTIVE"
           [] d[1] = "entry" -> NoEntry
           [] d[1] = "excuse" -> FALSE]
  BY DEF Init, PlanInit
<1>2. /\ PlanDoc[1] = "plan"
      /\ \A m : /\ Row(m)[1] = "row" /\ Seat(m)[1] = "seat"
                /\ Entry(m)[1] = "entry" /\ Excuse(m)[1] = "excuse"
  BY DEF PlanDoc, Row, Seat, Entry, Excuse
<1>3. /\ db[PlanDoc] = [life |-> "DRAFT", subject |-> subject,
                        reviewed |-> reviewed, final |-> <<>>]
      /\ \A m \in Members : db[Row(m)] = NoRow /\ db[Seat(m)] = "ACTIVE"
      /\ \A x \in Slots : db[Entry(x)] = NoEntry /\ db[Excuse(x)] = FALSE
  BY <1>1, <1>2, InDocs
<1>4. /\ \A c \in Clients : ~InTxn(c)
      /\ Functional /\ SnapshotCurrent
      /\ clock \in Nat /\ since \in [Clients -> Nat]
  <2>1. /\ snap = [c \in Clients |-> NoSnapshot] /\ missed = [c \in Clients |-> {}]
        /\ clock = 0 /\ since = [c \in Clients |-> 0]
    BY DEF Init, PlanInit, TxnInit
  <2>2. db = [d \in Docs |-> db[d]]
    <3> DEFINE content(d) ==
          CASE d[1] = "plan" -> [life |-> "DRAFT", subject |-> subject,
                                 reviewed |-> reviewed, final |-> <<>>]
            [] d[1] = "row" -> NoRow
            [] d[1] = "seat" -> "ACTIVE"
            [] d[1] = "entry" -> NoEntry
            [] d[1] = "excuse" -> FALSE
    <3>1. db = [d \in Docs |-> content(d)]
      BY <1>1
    <3> HIDE DEF content
    <3> QED BY <3>1
  <2> QED BY <2>1, <2>2 DEF InTxn, Functional, SnapshotCurrent
<1>5. Stored(db) = {} /\ Live(db) = {}
  BY <1>3 DEF Stored, Live
<1>6. RowsOK(db)
  BY <1>3, <1>5 DEF RowsOK, RowsTyped, Whole, Checked
<1>7. db[PlanDoc] \in PlanType
  <2>1. <<>> \in [{} -> Values \cup {0}]
    OBVIOUS
  <2>2. <<>> \in UNION {[S -> Values \cup {0}] : S \in SUBSET Slots}
    BY <2>1
  <2> DEFINE results == UNION {[S -> Values \cup {0}] : S \in SUBSET Slots}
  <2>3. PICK r \in results : r = <<>>
    BY <2>2
  <2> HIDE DEF results
  <2>4. PlanType = [life : PlanLives, subject : {"TALENT_GROUP", "ORG_UNIT"},
                    reviewed : BOOLEAN, final : results]
    BY DEF PlanType, results
  <2>5. db[PlanDoc] = [life |-> "DRAFT", subject |-> subject,
                       reviewed |-> reviewed, final |-> r]
    BY <1>3, <2>3
  <2> QED BY <2>4, <2>5 DEF PlanLives
<1>8. StateOK(db)
  BY <1>3, <1>7 DEF StateOK
<1>9. FinalCovers(db) /\ Life(db) = "DRAFT" /\ \A x \in Slots : ~HasEntry(db, x)
  BY <1>3 DEF FinalCovers, Life, HasEntry
<1> QED BY <1>4, <1>5, <1>6, <1>8, <1>9 DEF IInv, Sane

\* Every step keeps it.
LEMMA NextIInv == IInv /\ [Next]_vars => IInv'
<1> SUFFICES ASSUME IInv, [Next]_vars PROVE IInv'
  OBVIOUS
<1>1. CASE PlanStep /\ Closed /\ UNCHANGED clock
  <2>1. ASSUME NEW c \in Clients \cup {Now}, NEW f \in Divisions,
               ReplaceDraftAllocations(c, f) \/ UpsertDraft(c, f)
        PROVE  IInv'
    BY <1>1, <2>1, ReplaceDraftAllocationsKeeps, UpsertDraftKeeps
  <2>2. ASSUME NEW c \in Clients \cup {Now},
               UpdateDraft(c) \/ PublishPlan(c) \/ ArchivePlan(c)
        PROVE  IInv'
    BY <1>1, <2>2, PlanOnlyKeeps
  <2>3. ASSUME NEW c \in Clients \cup {Now}, NEW a \in Actors, Submit(c, a)
        PROVE  IInv'
    BY <1>1, <2>3, SubmitKeeps
  <2>4. ASSUME NEW c \in Clients \cup {Now}, NEW a \in Actors,
               NEW verdict \in {"APPROVED", "CHANGES"}, Review(c, a, verdict)
        PROVE  IInv'
    BY <1>1, <2>4, ReviewKeeps
  <2>5. ASSUME NEW c \in Clients \cup {Now}, PublishAllocation(c) PROVE IInv'
    BY <1>1, <2>5, PublishAllocationKeeps
  <2>6. ASSUME NEW m \in Members, Leave(m) PROVE IInv'
    BY <1>1, <2>6, LeaveKeeps
  <2> QED BY <1>1, <2>1, <2>2, <2>3, <2>4, <2>5, <2>6 DEF PlanStep
<1>2. CASE ActualStep /\ Closed /\ UNCHANGED clock
  <2>1. ASSUME NEW c \in Clients \cup {Now}, Finalize(c) PROVE IInv'
    BY <1>2, <2>1, FinalizeKeeps
  <2>2. ASSUME NEW c \in Clients \cup {Now}, NEW x \in Slots, SlotStep(c, x) PROVE IInv'
    BY <1>2, <2>2, DayKeeps
  <2> QED BY <1>2, <2>1, <2>2 DEF ActualStep
<1>3. CASE (\E c \in Clients : Abort(c)) /\ Closed /\ UNCHANGED clock
  BY <1>3, AbortKeeps
<1>4. CASE \E c \in Clients : BeginTxn(c)
  BY <1>4, BeginKeeps
<1>5. CASE Tick
  BY <1>5, IdleKeeps DEF Tick, IInv
<1>6. CASE UNCHANGED vars
  BY <1>6, IdleKeeps DEF vars, IInv
<1> QED BY <1>1, <1>2, <1>3, <1>4, <1>5, <1>6 DEF Next

\* The invariant of every run.
THEOREM SpecIInv == Spec => []IInv
  BY InitIInv, NextIInv, PTL DEF Spec

\* The documents are what they are declared to be, in the database and in
\* every snapshot a handler works on.
THEOREM KpiType == Spec => []KpiTypeOK
<1>1. IInv => KpiTypeOK
  BY DEF IInv, KpiTypeOK, Sane
<1> QED BY <1>1, SpecIInv, PTL

\* The rows of a draft move together and no share is approved or published
\* that its submitter has checked, whatever drafts, submissions and reviews
\* overlap.
THEOREM CheckedHolds == Spec => []CheckedByAnother
<1>1. IInv => CheckedByAnother
  <2> SUFFICES ASSUME IInv PROVE CheckedByAnother
    OBVIOUS
  <2>1. RowsOK(db)
    BY DEF IInv, Sane
  <2>2. ASSUME NEW m \in Stored(db), NEW n \in Stored(db) PROVE MovesAsOne(m, n)
    <3> SUFFICES ASSUME db[Row(m)].born = db[Row(n)].born,
                        db[Row(m)].set = db[Row(n)].set
                 PROVE  [db[Row(m)] EXCEPT !.share = 0] = [db[Row(n)] EXCEPT !.share = 0]
      BY DEF MovesAsOne
    <3>1. db[Row(m)] \in RowType /\ db[Row(n)] \in RowType
      BY <2>1 DEF RowsOK, RowsTyped, Stored
    <3>2. Alike(db[Row(m)], db[Row(n)])
      <4>1. CASE Set(db, m) = {}
        BY <4>1, <2>1 DEF RowsOK, Whole, Set, Stg, Alike
      <4>2. CASE Set(db, m) # {}
        <5>1. n \in Set(db, m)
          BY <4>2, <2>1 DEF RowsOK, Whole, Set
        <5> QED BY <4>2, <5>1, <2>1 DEF RowsOK, Whole
      <4> QED BY <4>1, <4>2
    <3> DEFINE q == db[Row(m)]
               r == db[Row(n)]
    <3> HIDE DEF q, r
    <3>3. q \in RowType /\ r \in RowType /\ Alike(q, r)
      BY <3>1, <3>2 DEF q, r
    <3>4. [q EXCEPT !.share = 0] = [r EXCEPT !.share = 0]
      BY <3>3 DEF RowType, Alike
    <3> QED BY <3>4 DEF q, r
  <2> QED BY <2>1, <2>2 DEF CheckedByAnother, RowsOK, Checked, Stg
<1> QED BY <1>1, SpecIInv, PTL

\* Shares are published with the plan, and entries belong to them.
THEOREM PublishedHolds == Spec => []PublishedWithPlan
<1>1. IInv => PublishedWithPlan
  BY DEF IInv, Sane, PublishedWithPlan, PublishedTogether, Over, Stg
<1> QED BY <1>1, SpecIInv, PTL

\* A version and a membership snapshot name one content, so that what
\* assertKpiAllocationVersions accepts is what the caller has seen.
THEOREM VersionHolds == Spec => []VersionNamesContent
<1>1. IInv => VersionNamesContent
  <2> SUFFICES ASSUME IInv, NEW c \in Clients, InTxn(c),
                      Versioned(db), Versioned(snap[c]),
                      Version(snap[c]) = Version(db), NEW m \in Live(db)
               PROVE  db[Row(m)] = snap[c][Row(m)]
    BY DEF VersionNamesContent
  <2>1. RowsSince(snap[c], db)
    BY DEF IInv, Aged
  <2> QED BY <2>1 DEF RowsSince
<1> QED BY <1>1, SpecIInv, PTL
-----------------------------------------------------------------------------
(* Steps.                                                                  *)

\* What a commit does not write it leaves.
LEMMA Unwritten ==
  ASSUME NEW c, NEW puts, Commit(c, puts), NEW d \in Docs, d \notin DOMAIN puts
  PROVE  db'[d] = db[d]
  BY DEF Commit

\* Operations that write rows, and perhaps move the plan on.
LEMMA RowsAndPlan ==
  ASSUME NEW c, NEW W, NEW puts, Commit(c, puts),
         DOMAIN puts \subseteq {Row(m) : m \in W} \cup {PlanDoc},
         PlanDoc \in DOMAIN puts => puts[PlanDoc].life # "FINALIZED"
  PROVE  /\ \A x \in Slots : db'[Entry(x)] = db[Entry(x)]
         /\ db'[PlanDoc] = db[PlanDoc] \/ Life(db') # "FINALIZED"
<1>1. \A x \in Slots : Entry(x) \notin DOMAIN puts
  BY Different
<1>2. db' = [d \in Docs |-> IF d \in DOMAIN puts THEN puts[d] ELSE db[d]]
  BY DEF Commit
<1>3. PlanDoc \in DOMAIN puts => db'[PlanDoc] = puts[PlanDoc]
  BY <1>2, InDocs
<1>4. PlanDoc \notin DOMAIN puts => db'[PlanDoc] = db[PlanDoc]
  BY <1>2, InDocs
<1> QED BY <1>1, <1>2, <1>3, <1>4, InDocs DEF Life

\* No operation of the plan writes an entry or a result.
LEMMA PlanStepLeaves ==
  ASSUME IInv, PlanStep
  PROVE  /\ \A x \in Slots : db'[Entry(x)] = db[Entry(x)]
         /\ db'[PlanDoc] = db[PlanDoc] \/ Life(db') # "FINALIZED"
<1> DEFINE Leaves ==
      /\ \A x \in Slots : db'[Entry(x)] = db[Entry(x)]
      /\ db'[PlanDoc] = db[PlanDoc] \/ Life(db') # "FINALIZED"
<1>1. ASSUME NEW c \in Clients \cup {Now}, Ready(c), NEW life \in PlanLives
      PROVE  LET plan == PutPlan(Seen(c), life)
             IN  DOMAIN plan = {PlanDoc} /\ plan[PlanDoc].life = life
  <2> DEFINE s == Seen(c)
  <2>1. Sane(s)
    BY <1>1, SeenOK
  <2> HIDE DEF s
  <2>2. /\ DOMAIN PutPlan(s, life) = {PlanDoc}
        /\ PutPlan(s, life)[PlanDoc] = [s[PlanDoc] EXCEPT !.life = life]
    BY DEF PutPlan, :>
  <2>3. \A p : p = [s[PlanDoc] EXCEPT !.life = life] => p.life = life
    BY <2>1, PlanRelived
  <2> QED BY <2>2, <2>3 DEF s
<1>2. ASSUME NEW c \in Clients \cup {Now}, NEW f \in Divisions,
             ReplaceDraftAllocations(c, f)
      PROVE  Leaves
  <2> DEFINE s == Seen(c)
             W == Stored(s) \cup DOMAIN f
             plan == PutPlan(s, "DRAFT")
             rows == [d \in {Row(m) : m \in W} |->
                        IF d[2] \in DOMAIN f THEN NewRow("PLAIN", f[d[2]], 0, {}) ELSE NoRow]
             puts == plan @@ rows
  <2>1. Ready(c) /\ Commit(c, puts)
    BY <1>2 DEF ReplaceDraftAllocations
  <2>2. DOMAIN plan = {PlanDoc} /\ plan[PlanDoc].life = "DRAFT"
    BY <2>1, <1>1 DEF PlanLives
  <2>3. DOMAIN rows = {Row(m) : m \in W}
    OBVIOUS
  <2> HIDE DEF plan, rows, W
  <2>4. DOMAIN puts = DOMAIN plan \cup DOMAIN rows /\ puts[PlanDoc] = plan[PlanDoc]
    BY <2>2 DEF @@
  <2> HIDE DEF puts
  <2>5. /\ DOMAIN puts \subseteq {Row(m) : m \in W} \cup {PlanDoc}
        /\ puts[PlanDoc].life # "FINALIZED"
    BY <2>2, <2>3, <2>4
  <2> QED BY <2>1, <2>5, RowsAndPlan
<1>3. ASSUME NEW c \in Clients \cup {Now}, NEW f \in Divisions, UpsertDraft(c, f)
      PROVE  Leaves
  <2> DEFINE s == Seen(c)
             W == Stored(s) \cup DOMAIN f
             sentBack == \E m \in Stored(s) : s[Row(m)].stage = "CHANGES"
             puts == [d \in {Row(m) : m \in W} |->
                      IF d[2] \in DOMAIN f
                        THEN NewRow("DRAFT", f[d[2]], Version(s) + 1, DOMAIN f)
                      ELSE IF sentBack THEN [s[d] EXCEPT !.stage = "SUPERSEDED"]
                      ELSE NoRow]
  <2>1. Commit(c, puts) /\ DOMAIN puts = {Row(m) : m \in W}
    BY <1>3 DEF UpsertDraft
  <2> HIDE DEF W, puts
  <2>2. PlanDoc \notin DOMAIN puts
    BY <2>1, Different
  <2> QED BY <2>1, <2>2, RowsAndPlan
<1>4. ASSUME NEW c \in Clients \cup {Now}, NEW stage, NEW by, NEW checker,
             Commit(c, MoveRows(Seen(c), Live(Seen(c)), stage, by, checker))
      PROVE  Leaves
  <2> DEFINE W == Live(Seen(c))
             puts == MoveRows(Seen(c), W, stage, by, checker)
  <2>1. Commit(c, puts) /\ DOMAIN puts = {Row(m) : m \in W}
    BY <1>4 DEF MoveRows
  <2> HIDE DEF W, puts
  <2>2. PlanDoc \notin DOMAIN puts
    BY <2>1, Different
  <2> QED BY <2>1, <2>2, RowsAndPlan
<1>5. ASSUME NEW c \in Clients \cup {Now}, PublishAllocation(c) PROVE Leaves
  <2> DEFINE s == Seen(c)
             W == Live(s)
             rows == MoveRows(s, W, "PUBLISHED", "none", "none")
             plan == PutPlan(s, "ACTIVE")
             puts == rows @@ plan
  <2>1. Ready(c) /\ Commit(c, puts)
    BY <1>5 DEF PublishAllocation
  <2>2. DOMAIN plan = {PlanDoc} /\ plan[PlanDoc].life = "ACTIVE"
    BY <2>1, <1>1 DEF PlanLives
  <2>3. DOMAIN rows = {Row(m) : m \in W}
    BY DEF MoveRows
  <2> HIDE DEF plan, rows, W
  <2>4. PlanDoc \notin DOMAIN rows
    BY <2>3, Different
  <2>5. DOMAIN puts = DOMAIN plan \cup DOMAIN rows /\ puts[PlanDoc] = plan[PlanDoc]
    BY <2>2, <2>4 DEF @@
  <2> HIDE DEF puts
  <2>6. /\ DOMAIN puts \subseteq {Row(m) : m \in W} \cup {PlanDoc}
        /\ puts[PlanDoc].life # "FINALIZED"
    BY <2>2, <2>3, <2>5
  <2> QED BY <2>1, <2>6, RowsAndPlan
<1>6. ASSUME NEW c \in Clients \cup {Now}, Ready(c),
             NEW life \in {"DRAFT", "RELEASED", "ARCHIVED"},
             Commit(c, PutPlan(Seen(c), life))
      PROVE  Leaves
  <2> DEFINE puts == PutPlan(Seen(c), life)
  <2>1. Commit(c, puts) /\ DOMAIN puts = {PlanDoc} /\ puts[PlanDoc].life = life
    BY <1>1, <1>6 DEF PlanLives
  <2> HIDE DEF puts
  <2>2. DOMAIN puts \subseteq {Row(m) : m \in {}} \cup {PlanDoc}
    BY <2>1
  <2> QED BY <2>1, <2>2, RowsAndPlan
<1>7. ASSUME NEW m \in Members, Leave(m) PROVE Leaves
  <2>1. PICK puts : Commit(Now, puts) /\ DOMAIN puts = {Seat(m)}
    BY <1>7 DEF Leave, :>
  <2> QED BY <2>1, Unwritten, InDocs, Different
<1>8. ASSUME NEW c \in Clients \cup {Now}, UpdateDraft(c) \/ PublishPlan(c) \/ ArchivePlan(c)
      PROVE  Leaves
  BY <1>6, <1>8 DEF UpdateDraft, PublishPlan, ArchivePlan
<1>9. ASSUME NEW c \in Clients \cup {Now}, NEW a \in Actors, Submit(c, a) PROVE Leaves
  BY <1>4, <1>9 DEF Submit
<1>10. ASSUME NEW c \in Clients \cup {Now}, NEW a \in Actors,
              NEW verdict \in {"APPROVED", "CHANGES"}, Review(c, a, verdict)
       PROVE  Leaves
  BY <1>4, <1>10 DEF Review
<1> HIDE DEF Leaves
<1>11. Leaves
  BY <1>2, <1>3, <1>5, <1>7, <1>8, <1>9, <1>10 DEF PlanStep
<1> QED BY <1>11 DEF Leaves

\* What an operation does to the entry of its slot.
LEMMA EntryStep ==
  ASSUME IInv, NEW c \in Clients \cup {Now}, NEW x \in Slots, NEW v \in Values,
         CreateActual(c, x, v) \/ UpdateActual(c, x, v) \/ CorrectActual(c, x, v)
  PROVE  /\ Ready(c) /\ Life(Seen(c)) = "ACTIVE"
         /\ db'[PlanDoc] = db[PlanDoc]
         /\ \A y \in Slots \ {x} : db'[Entry(y)] = db[Entry(y)]
         /\ LET old == IF HasEntry(db, x) THEN db[Entry(x)].effective ELSE 0
                new == IF HasEntry(db', x) THEN db'[Entry(x)].effective ELSE 0
            IN new # old => /\ ~db[PlanDoc].reviewed
                            /\ \E t \in Clocks(c) : Stage(x[2], t) \in {"DIRECT", "ORDINARY"}
<1> DEFINE s == Seen(c)
           e == s[Entry(x)]
<1>1. Ready(c) /\ OpenFor(s, x)
  BY DEF CreateActual, UpdateActual, CorrectActual
<1>2. PICK g : Commit(c, Entry(x) :> g)
  BY DEF CreateActual, UpdateActual, CorrectActual
<1>3. ASSUME NEW h, Commit(c, Entry(x) :> h)
      PROVE  /\ db'[Entry(x)] = h /\ e = db[Entry(x)]
             /\ db'[PlanDoc] = db[PlanDoc]
             /\ \A y \in Slots \ {x} : db'[Entry(y)] = db[Entry(y)]
  <2> DEFINE puts == Entry(x) :> h
  <2>1. DOMAIN puts = {Entry(x)} /\ puts[Entry(x)] = h
    BY DEF :>
  <2>2. Commit(c, puts)
    BY <1>3
  <2> HIDE DEF puts
  <2>3. Seen(c)[Entry(x)] = db[Entry(x)]
    BY <1>1, <2>1, <2>2, InDocs, CommitIsSeen DEF IInv
  <2>4. db' = [d \in Docs |-> IF d \in DOMAIN puts THEN puts[d] ELSE db[d]]
    BY <2>2 DEF Commit
  <2> QED BY <2>1, <2>3, <2>4, InDocs, Different
<1>4. s[PlanDoc].reviewed = db[PlanDoc].reviewed
  BY <1>1, SeenOK DEF Aged, PlanSince
<1>5. Life(s) = "ACTIVE"
  BY <1>1 DEF OpenFor
<1> DEFINE old == IF HasEntry(db, x) THEN db[Entry(x)].effective ELSE 0
           new == IF HasEntry(db', x) THEN db'[Entry(x)].effective ELSE 0
<1>6. ASSUME new # old
      PROVE  /\ ~db[PlanDoc].reviewed
             /\ \E t \in Clocks(c) : Stage(x[2], t) \in {"DIRECT", "ORDINARY"}
  <2>1. ASSUME NEW t \in Clocks(c), DirectOpen(x[2], t) PROVE Stage(x[2], t) = "DIRECT"
    <3>1. x[2] \in Nat
      BY KpiPlanAssumption
    <3>2. t \in Int
      BY <2>1 DEF Clocks, IInv
    <3> QED BY <3>1, <3>2, <2>1 DEF Stage, DirectOpen
  <2>2. CASE CreateActual(c, x, v)
    <3>1. /\ Commit(c, Entry(x) :> NewEntry(v, s[PlanDoc].reviewed))
          /\ ~HasEntry(s, x)
          /\ \E t \in Clocks(c) : DirectOpen(x[2], t)
      BY <2>2 DEF CreateActual
    <3>2. db'[Entry(x)] = NewEntry(v, s[PlanDoc].reviewed) /\ e = db[Entry(x)]
      BY <3>1, <1>3
    <3>3. old = 0
      BY <3>1, <3>2 DEF HasEntry
    <3>4. s[PlanDoc].reviewed => new = 0
      BY <3>2 DEF NewEntry, HasEntry
    <3> QED BY <3>1, <3>3, <3>4, <2>1, <1>4, <1>6
  <2>3. CASE UpdateActual(c, x, v)
    BY <2>1, <2>3, <1>4 DEF UpdateActual
  <2>4. CASE CorrectActual(c, x, v)
    <3>1. HasEntry(s, x)
      BY <2>4 DEF CorrectActual
    <3>2. PICK t \in Clocks(c) :
            /\ Stage(x[2], t) \in {"ORDINARY", "REVIEWED"}
            /\ Commit(c, Entry(x) :>
                 Corrected(e, v, s[PlanDoc].reviewed \/ Stage(x[2], t) = "REVIEWED"))
      BY <2>4 DEF CorrectActual
    <3>3. e \in EntryType /\ HasEntry(db, x)
      <4>1. e = db[Entry(x)]
        BY <3>2, <1>3
      <4> QED BY <4>1, <3>1, <1>1, SeenOK DEF Sane, StateOK, HasEntry
    <3> DEFINE review == s[PlanDoc].reviewed \/ Stage(x[2], t) = "REVIEWED"
    <3>4. db'[Entry(x)] = Corrected(e, v, review) /\ e = db[Entry(x)]
      BY <3>2, <1>3
    <3>5. ASSUME review PROVE FALSE
      <4> HIDE DEF review, e
      <4> DEFINE q == Corrected(e, v, review)
      <4>1. q.effective = e.effective /\ q.life = "UNDER_REVIEW"
        BY <3>3, <3>5 DEF Corrected, EntryType
      <4> HIDE DEF q
      <4>2. db'[Entry(x)] = q
        BY <3>4 DEF q
      <4>3. HasEntry(db', x)
        <5>1. q # NoEntry
          BY <4>1 DEF NoEntry
        <5> QED BY <4>2, <5>1 DEF HasEntry
      <4>4. new = q.effective /\ old = e.effective
        BY <4>2, <4>3, <3>3, <3>4
      <4> QED BY <4>1, <4>4, <1>6
    <3>6. ~s[PlanDoc].reviewed /\ Stage(x[2], t) # "REVIEWED"
      BY <3>5
    <3> QED BY <3>2, <3>6, <1>4
  <2> QED BY <2>2, <2>3, <2>4
<1> QED BY <1>1, <1>2, <1>3, <1>5, <1>6

\* Finalizing writes the plan only, excusing no entry and no plan.
LEMMA OtherStep ==
  ASSUME NEW c, NEW d \in {PlanDoc} \cup {Excuse(x) : x \in Slots}, NEW v,
         Commit(c, d :> v)
  PROVE  /\ \A y \in Slots : db'[Entry(y)] = db[Entry(y)]
         /\ d = PlanDoc => db'[PlanDoc] = v
         /\ d # PlanDoc => db'[PlanDoc] = db[PlanDoc]
<1>1. PICK puts : Commit(c, puts) /\ DOMAIN puts = {d} /\ puts[d] = v
  BY DEF :>
<1>2. db' = [o \in Docs |-> IF o \in DOMAIN puts THEN puts[o] ELSE db[o]]
  BY <1>1 DEF Commit
<1> QED BY <1>1, <1>2, InDocs, Different

\* A plan that asks for review, or whose windows for the day were over when
\* the handler began, changes no value that counts: authorizeActualCapture.
THEOREM ReviewHolds == Spec => LateNeedsReview
<1> DEFINE old(x) == IF HasEntry(db, x) THEN db[Entry(x)].effective ELSE 0
           new(x) == IF HasEntry(db', x) THEN db'[Entry(x)].effective ELSE 0
           Reviewed == \A x \in Slots : new(x) # old(x) =>
             /\ ~db[PlanDoc].reviewed
             /\ \E c \in Clients \cup {Now} : \E t \in Clocks(c) :
                  Ready(c) /\ Stage(x[2], t) \in {"DIRECT", "ORDINARY"}
<1>1. ASSUME IInv, [Next]_vars PROVE Reviewed
  <2>1. ASSUME \A x \in Slots : db'[Entry(x)] = db[Entry(x)] PROVE Reviewed
    BY <2>1 DEF HasEntry
  <2>2. CASE PlanStep
    BY <1>1, <2>1, <2>2, PlanStepLeaves
  <2>3. CASE ActualStep
    <3>1. ASSUME NEW c \in Clients \cup {Now}, Finalize(c) PROVE Reviewed
      <4>1. \E v : Commit(c, PlanDoc :> v)
        BY <3>1 DEF Finalize
      <4> QED BY <4>1, <2>1, OtherStep
    <3>2. ASSUME NEW c \in Clients \cup {Now}, NEW x \in Slots,
                 MarkExcuse(c, x) \/ RemoveExcuse(c, x)
          PROVE  Reviewed
      <4>1. \E v : Commit(c, Excuse(x) :> v)
        BY <3>2 DEF MarkExcuse, RemoveExcuse
      <4> QED BY <4>1, <2>1, OtherStep
    <3>3. ASSUME NEW c \in Clients \cup {Now}, NEW x \in Slots, NEW v \in Values,
                 CreateActual(c, x, v) \/ UpdateActual(c, x, v) \/ CorrectActual(c, x, v)
          PROVE  Reviewed
      <4>1. /\ Ready(c)
            /\ \A y \in Slots \ {x} : db'[Entry(y)] = db[Entry(y)]
            /\ new(x) # old(x) =>
                 /\ ~db[PlanDoc].reviewed
                 /\ \E t \in Clocks(c) : Stage(x[2], t) \in {"DIRECT", "ORDINARY"}
        BY <1>1, <3>3, EntryStep
      <4>2. \A y \in Slots \ {x} : new(y) = old(y)
        BY <4>1 DEF HasEntry
      <4> HIDE DEF new, old
      <4> QED BY <4>1, <4>2
    <3> HIDE DEF Reviewed
    <3> QED BY <2>3, <3>1, <3>2, <3>3 DEF ActualStep, SlotStep
  <2>4. CASE UNCHANGED db
    <3>1. db' = db
      BY <2>4
    <3> QED BY <2>1, <3>1
  <2> HIDE DEF Reviewed
  <2> QED BY <1>1, <2>2, <2>3, <2>4 DEF Next, Tick, BeginTxn, Begin, Abort, vars
<1>2. IInv /\ [Next]_vars => [Reviewed]_vars
  BY <1>1
<1> QED BY <1>2, SpecIInv, PTL DEF Spec, LateNeedsReview

\* A transaction that no commit overtook works on what is stored.
LEMMA Timely ==
  ASSUME IInv, NEW c \in Clients \cup {Now}, Ready(c), NEW puts, Commit(c, puts),
         ~LateCommit
  PROVE  Seen(c) = db
<1>1. CASE c = Now
  BY <1>1 DEF Seen
<1>2. CASE c # Now
  <2>1. c \in Clients /\ InTxn(c) /\ Seen(c) = snap[c]
    BY <1>2 DEF Ready, Seen
  <2>2. ~InTxn(c)'
    BY <2>1 DEF Commit, InTxn
  <2>3. missed[c] = {}
    BY <2>1, <2>2 DEF LateCommit
  <2>4. \A d \in Docs : snap[c][d] = db[d]
    BY <2>1, <2>3 DEF IInv, SnapshotCurrent
  <2>5. snap[c] = [d \in Docs |-> snap[c][d]] /\ db = [d \in Docs |-> db[d]]
    BY <2>1 DEF IInv, Functional
  <2>6. [d \in Docs |-> snap[c][d]] = [d \in Docs |-> db[d]]
    BY <2>4
  <2> QED BY <2>1, <2>5, <2>6
<1> QED BY <1>1, <1>2

\* A finalized plan has a result for exactly the published shares, and the
\* result parts from the entries only when a transaction commits that missed
\* another's commit.
THEOREM FinalPartsHolds == Spec => FinalPartsLate
<1> DEFINE Parts == /\ FinalCovers(db')
                    /\ FinalHolds(db) /\ ~FinalHolds(db') => LateCommit
<1>1. ASSUME IInv, IInv', [Next]_vars PROVE Parts
  <2>1. FinalCovers(db')
    <3>1. Sane(db)'
      BY <1>1 DEF IInv
    <3>2. Sane(db')
      BY <3>1
    <3> QED BY <3>2 DEF Sane
  <2>2. ASSUME ~LateCommit, FinalHolds(db), Life(db') = "FINALIZED"
        PROVE  FinalHolds(db')
    <3>1. ASSUME \A x \in Slots : db'[Entry(x)] = db[Entry(x)],
                 db'[PlanDoc] = db[PlanDoc]
          PROVE  FinalHolds(db')
      <4>1. Life(db) = "FINALIZED" /\ DOMAIN db[PlanDoc].final \subseteq Slots
        BY <1>1, <2>2, <3>1 DEF Life, IInv, Sane, FinalCovers
      <4> QED BY <4>1, <2>2, <3>1 DEF FinalHolds, HasEntry
    <3>2. CASE PlanStep
      BY <1>1, <2>2, <3>1, <3>2, PlanStepLeaves
    <3>3. ASSUME NEW c \in Clients \cup {Now}, Finalize(c) PROVE FinalHolds(db')
      <4>1. Ready(c)
        BY <3>3 DEF Finalize
      <4>2. PICK outside \in {Seen(c), db} :
              Commit(c, PlanDoc :> [Seen(c)[PlanDoc] EXCEPT
                !.life = "FINALIZED", !.final = FinalResult(outside)])
        BY <3>3 DEF Finalize
      <4>3. Seen(c) = db
        BY <4>1, <4>2, <1>1, <2>2, Timely
      <4> DEFINE r == FinalResult(db)
      <4>4. /\ \A x \in Slots : db'[Entry(x)] = db[Entry(x)]
            /\ db'[PlanDoc] = [db[PlanDoc] EXCEPT !.life = "FINALIZED", !.final = r]
        BY <4>2, <4>3, OtherStep
      <4>5. DOMAIN r \subseteq Slots
            /\ \A x \in DOMAIN r : HasEntry(db, x) => r[x] = db[Entry(x)].effective
        BY DEF FinalResult
      <4> HIDE DEF r
      <4>6. db[PlanDoc] \in PlanType
        BY <1>1 DEF IInv, Sane, StateOK
      <4>7. db'[PlanDoc].final = r
        BY <4>4, <4>6 DEF PlanType
      <4> QED BY <4>4, <4>5, <4>7 DEF FinalHolds, HasEntry
    <3>4. ASSUME NEW c \in Clients \cup {Now}, NEW x \in Slots,
                 MarkExcuse(c, x) \/ RemoveExcuse(c, x)
          PROVE  FinalHolds(db')
      <4>1. \E v : Commit(c, Excuse(x) :> v)
        BY <3>4 DEF MarkExcuse, RemoveExcuse
      <4> QED BY <4>1, <3>1, OtherStep, Different
    <3>5. ASSUME NEW c \in Clients \cup {Now}, NEW x \in Slots, NEW v \in Values,
                 CreateActual(c, x, v) \/ UpdateActual(c, x, v) \/ CorrectActual(c, x, v)
          PROVE  FinalHolds(db')
      <4>1. Ready(c) /\ Life(Seen(c)) = "ACTIVE" /\ db'[PlanDoc] = db[PlanDoc]
        BY <1>1, <3>5, EntryStep
      <4>2. \E g : Commit(c, Entry(x) :> g)
        BY <3>5 DEF CreateActual, UpdateActual, CorrectActual
      <4>3. Seen(c) = db
        BY <4>1, <4>2, <1>1, <2>2, Timely
      <4> QED BY <4>1, <4>3, <2>2 DEF Life
    <3>6. CASE ActualStep
      BY <3>3, <3>4, <3>5, <3>6 DEF ActualStep, SlotStep
    <3>7. CASE UNCHANGED db
      <4>1. db' = db
        BY <3>7
      <4> QED BY <4>1, <3>1
    <3> QED BY <1>1, <3>2, <3>6, <3>7 DEF Next, Tick, BeginTxn, Begin, Abort, vars
  <2> QED BY <2>1, <2>2 DEF FinalHolds
<1>2. IInv /\ IInv' /\ [Next]_vars => [Parts]_vars
  BY <1>1
<1> QED BY <1>2, SpecIInv, PTL DEF Spec, FinalPartsLate
-----------------------------------------------------------------------------
(* The sum of the shares.  The community module adds up along a choice of  *)
(* the next element: sums of equal shares are the same choice.             *)

\* g adds up A over every part of S.
AddsUp(A, S, g) == g = [part \in SUBSET S |->
  IF part = {} THEN 0
  ELSE A[CHOOSE m \in part : TRUE] + g[part \ {CHOOSE m \in part : TRUE}]]

Total(A, S) == (CHOOSE g : AddsUp(A, S, g))[S]

\* The sum of a function, as Divisions takes it.
LEMMA SumIsTotal == \A f : SumFunction(f) = Total(f, DOMAIN f)
<1> TAKE f
<1>1. SumFunction(f) = (CHOOSE g : AddsUp(f, DOMAIN f, g))[DOMAIN f]
  BY DEF SumFunction, SumFunctionOnSet, FoldFunctionOnSet, MapThenFoldSet, AddsUp
<1> QED BY <1>1 DEF Total

\* The sum of the live rows' shares, as the over-allocation takes it.
LEMMA OverIsTotal ==
  ASSUME NEW s, NEW A, \A m \in Live(s) : s[Row(m)].share = A[m]
  PROVE  OverAllocated(s) <=> Total(A, Live(s)) > Target
<1> DEFINE S == Live(s)
           pick(part) == CHOOSE m \in part : TRUE
           Rows(g) == g = [part \in SUBSET S |->
             IF part = {} THEN 0
             ELSE s[Row(pick(part))].share + g[part \ {pick(part)}]]
<1>1. MapThenSumSet(LAMBDA m : s[Row(m)].share, S) = (CHOOSE g : Rows(g))[S]
  BY DEF MapThenSumSet, MapThenFoldSet
<1>2. \A g : Rows(g) <=> AddsUp(A, S, g)
  <2> TAKE g
  <2>1. \A part \in SUBSET S : part # {} => pick(part) \in S
    OBVIOUS
  <2> HIDE DEF pick
  <2>2. \A part \in SUBSET S :
          (IF part = {} THEN 0
           ELSE s[Row(pick(part))].share + g[part \ {pick(part)}])
        = (IF part = {} THEN 0 ELSE A[pick(part)] + g[part \ {pick(part)}])
    BY <2>1
  <2> QED BY <2>2 DEF AddsUp, pick
<1> HIDE DEF Rows
<1>3. (CHOOSE g : Rows(g)) = (CHOOSE g : AddsUp(A, S, g))
  BY <1>2
<1> QED BY <1>1, <1>3 DEF OverAllocated, Total

\* Rows that keep their shares, or were moved from stage to stage.
Keeps(s, t) == \A m \in Members :
  \/ t[Row(m)] = s[Row(m)]
  \/ m \in Live(s) /\ m \in Live(t) /\ t[Row(m)].share = s[Row(m)].share

LEMMA KeepsTotal ==
  ASSUME NEW s, NEW t, Keeps(s, t) PROVE OverAllocated(t) <=> OverAllocated(s)
<1> DEFINE A == [m \in Members |-> s[Row(m)].share]
<1>1. Live(t) = Live(s)
  BY DEF Keeps, Live, Stored
<1>2. \A m \in Live(s) : s[Row(m)].share = A[m] /\ t[Row(m)].share = A[m]
  BY DEF Keeps, Live, Stored
<1> HIDE DEF A
<1>3. OverAllocated(s) <=> Total(A, Live(s)) > Target
  BY <1>2, OverIsTotal
<1>4. OverAllocated(t) <=> Total(A, Live(t)) > Target
  BY <1>1, <1>2, OverIsTotal
<1> QED BY <1>1, <1>3, <1>4

\* A division of the target adds up to it.
LEMMA DivisionAddsUp ==
  ASSUME NEW s, NEW f \in Divisions, Live(s) = DOMAIN f,
         \A m \in DOMAIN f : s[Row(m)].share = f[m]
  PROVE  ~OverAllocated(s)
<1>1. SumFunction(f) = Target
  BY DEF Divisions
<1>2. Total(f, DOMAIN f) = Target
  BY <1>1, SumIsTotal
<1>3. OverAllocated(s) <=> Total(f, DOMAIN f) > Target
  BY OverIsTotal
<1> QED BY <1>2, <1>3, KpiPlanAssumption

\* So do new rows for a division when no other row is live.
LEMMA DividedAddsUp ==
  ASSUME NEW s, NEW f \in Divisions, NEW stage \in {"PLAIN", "DRAFT"}, NEW version,
         NEW set, DOMAIN f \subseteq Members,
         \A m \in DOMAIN f : s[Row(m)] = NewRow(stage, f[m], version, set),
         \A m \in Members \ DOMAIN f : m \notin Live(s)
  PROVE  ~OverAllocated(s)
<1>1. ASSUME NEW m \in DOMAIN f
      PROVE  m \in Members /\ s[Row(m)].stage = stage /\ s[Row(m)].share = f[m]
  <2>1. \A share : LET q == NewRow(stage, share, version, set)
                   IN  q.stage = stage /\ q.share = share
    BY DEF NewRow
  <2>2. m \in Members /\ s[Row(m)] = NewRow(stage, f[m], version, set)
    OBVIOUS
  <2> QED BY <2>1, <2>2
<1>2. NoRow.stage = "none"
  BY DEF NoRow
<1>3. \A m \in DOMAIN f : m \in Live(s)
  BY <1>1, <1>2 DEF Live, Stored
<1>4. Live(s) = DOMAIN f
  BY <1>3 DEF Live, Stored
<1> QED BY <1>1, <1>4, DivisionAddsUp

\* An operation on what is stored that turns every live row.
LEMMA TurnedKeeps ==
  ASSUME IInv, NEW c, NEW puts, Commit(c, puts), NEW version, NEW by, NEW checker,
         NEW stage \in Stages \ {"SUPERSEDED"},
         \A m \in Live(db) : /\ Row(m) \in DOMAIN puts
                             /\ puts[Row(m)] = Turned(db[Row(m)], stage, version, by, checker),
         \A m \in Members \ Live(db) : Row(m) \notin DOMAIN puts
  PROVE  Keeps(db, db')
<1>1. db' = [d \in Docs |-> IF d \in DOMAIN puts THEN puts[d] ELSE db[d]]
  BY DEF Commit
<1>2. ASSUME NEW m \in Live(db)
      PROVE  m \in Live(db') /\ db'[Row(m)].share = db[Row(m)].share
  <2>1. m \in Members /\ db[Row(m)] \in RowType
    BY <1>2 DEF Live, Stored, IInv, Sane, RowsOK, RowsTyped
  <2> DEFINE r == db[Row(m)]
             b == IF by = "none" THEN r.by ELSE by
             k == IF checker = "none" THEN r.checker ELSE checker
             q == [r EXCEPT !.stage = stage, !.version = version, !.by = b, !.checker = k]
  <2>2. db'[Row(m)] = q
    BY <1>1, <1>2, <2>1, InDocs DEF Turned
  <2> HIDE DEF b, k
  <2>3. q.stage = stage /\ q.share = r.share
    BY <2>1 DEF RowType
  <2> HIDE DEF q
  <2>4. q # NoRow
    BY <2>3 DEF NoRow, Stages
  <2> QED BY <2>1, <2>2, <2>3, <2>4 DEF Live, Stored
<1>3. \A m \in Members \ Live(db) : db'[Row(m)] = db[Row(m)]
  BY <1>1, InDocs
<1> QED BY <1>2, <1>3 DEF Keeps

\* An operation that writes no row.
LEMMA UnwrittenKeeps ==
  ASSUME NEW c, NEW puts, Commit(c, puts), \A m \in Members : Row(m) \notin DOMAIN puts
  PROVE  Keeps(db, db')
  BY Unwritten, InDocs DEF Keeps

\* Decided on what is stored, an operation of the plan keeps the shares or
\* divides the target.
LEMMA PlanStepDivides ==
  ASSUME IInv, PlanStep, ~LateCommit PROVE Keeps(db, db') \/ ~OverAllocated(db')
<1> DEFINE Goal == Keeps(db, db') \/ ~OverAllocated(db')
<1>1. ASSUME NEW c \in Clients \cup {Now}, NEW f \in Divisions,
             ReplaceDraftAllocations(c, f)
      PROVE  Goal
  <2> DEFINE W == Stored(db) \cup DOMAIN f
             plan == PutPlan(db, "DRAFT")
             rows == [d \in {Row(m) : m \in W} |->
                        IF d[2] \in DOMAIN f THEN NewRow("PLAIN", f[d[2]], 0, {}) ELSE NoRow]
             puts == plan @@ rows
  <2>1. Ready(c) /\ \E p : Commit(c, p)
    BY <1>1 DEF ReplaceDraftAllocations
  <2>2. Seen(c) = db
    BY <2>1, Timely
  <2>3. Commit(c, puts)
    BY <1>1, <2>2 DEF ReplaceDraftAllocations
  <2>4. DOMAIN plan = {PlanDoc} /\ DOMAIN f \subseteq Members
    BY DEF PutPlan, :>, Divisions
  <2>5. /\ DOMAIN rows = {Row(m) : m \in W}
        /\ \A m \in W : rows[Row(m)] =
             IF m \in DOMAIN f THEN NewRow("PLAIN", f[m], 0, {}) ELSE NoRow
    BY DEF Row
  <2> HIDE DEF plan, rows, W
  <2>6. \A m \in Members : /\ Row(m) \in DOMAIN puts <=> m \in W
                           /\ m \in W => puts[Row(m)] = rows[Row(m)]
    BY <2>4, <2>5, Different DEF @@
  <2> HIDE DEF puts
  <2>7. db' = [d \in Docs |-> IF d \in DOMAIN puts THEN puts[d] ELSE db[d]]
    BY <2>3 DEF Commit
  <2>8. \A m \in Members :
          db'[Row(m)] = IF m \in DOMAIN f THEN NewRow("PLAIN", f[m], 0, {}) ELSE NoRow
    BY <2>5, <2>6, <2>7, InDocs DEF W, Stored
  <2> QED BY <2>4, <2>8, DividedAddsUp DEF Live, Stored
<1>2. ASSUME NEW c \in Clients \cup {Now}, NEW f \in Divisions, UpsertDraft(c, f)
      PROVE  Goal
  <2> DEFINE W == Stored(db) \cup DOMAIN f
             sentBack == \E m \in Stored(db) : db[Row(m)].stage = "CHANGES"
             gone(r) == IF sentBack THEN [r EXCEPT !.stage = "SUPERSEDED"] ELSE NoRow
             version == Version(db) + 1
             puts == [d \in {Row(m) : m \in W} |->
                      IF d[2] \in DOMAIN f THEN NewRow("DRAFT", f[d[2]], version, DOMAIN f)
                      ELSE IF sentBack THEN [db[d] EXCEPT !.stage = "SUPERSEDED"]
                      ELSE NoRow]
  <2>1. Ready(c) /\ \E p : Commit(c, p)
    BY <1>2 DEF UpsertDraft
  <2>2. Seen(c) = db
    BY <2>1, Timely
  <2>3. Commit(c, puts)
    BY <1>2, <2>2 DEF UpsertDraft
  <2>4. DOMAIN f \subseteq Members
    BY DEF Divisions
  <2>5. /\ DOMAIN puts = {Row(m) : m \in W}
        /\ \A m \in W : puts[Row(m)] =
             IF m \in DOMAIN f THEN NewRow("DRAFT", f[m], version, DOMAIN f)
             ELSE gone(db[Row(m)])
    BY DEF Row
  <2> HIDE DEF puts, version
  <2>6. db' = [d \in Docs |-> IF d \in DOMAIN puts THEN puts[d] ELSE db[d]]
    BY <2>3 DEF Commit
  <2>7. \A m \in Members \ W : Row(m) \notin DOMAIN puts
    BY <2>5, Different
  <2>8. ASSUME NEW m \in Members \ DOMAIN f PROVE m \notin Live(db')
    <3>1. CASE m \in Stored(db)
      <4>1. db[Row(m)] \in RowType
        BY <3>1 DEF Stored, IInv, Sane, RowsOK, RowsTyped
      <4> DEFINE g == [db[Row(m)] EXCEPT !.stage = "SUPERSEDED"]
      <4>2. g.stage = "SUPERSEDED"
        BY <4>1 DEF RowType
      <4>3. db'[Row(m)] \in {g, NoRow}
        BY <3>1, <2>5, <2>6, <2>8, InDocs
      <4> HIDE DEF g
      <4> QED BY <4>2, <4>3 DEF Live, Stored
    <3>2. CASE m \notin Stored(db)
      BY <3>2, <2>6, <2>7, <2>8, InDocs DEF Live, Stored
    <3> QED BY <3>1, <3>2
  <2>9. \A m \in DOMAIN f : db'[Row(m)] = NewRow("DRAFT", f[m], version, DOMAIN f)
    <3> SUFFICES ASSUME NEW m \in DOMAIN f
                 PROVE  db'[Row(m)] = NewRow("DRAFT", f[m], version, DOMAIN f)
      OBVIOUS
    <3>1. Row(m) \in DOMAIN puts /\ puts[Row(m)] = NewRow("DRAFT", f[m], version, DOMAIN f)
      BY <2>5
    <3> QED BY <3>1, <2>4, <2>6, InDocs
  <2> QED BY <2>4, <2>8, <2>9, DividedAddsUp
<1>3. ASSUME NEW c \in Clients \cup {Now}, Ready(c),
             NEW stage \in {"SUBMITTED", "APPROVED", "CHANGES"},
             NEW by, NEW checker,
             Commit(c, MoveRows(Seen(c), Live(Seen(c)), stage, by, checker))
      PROVE  Goal
  <2> DEFINE puts == MoveRows(db, Live(db), stage, by, checker)
  <2>1. Commit(c, puts)
    BY <1>3, Timely
  <2>2. /\ DOMAIN puts = {Row(m) : m \in Live(db)}
        /\ \A m \in Live(db) :
             puts[Row(m)] = Turned(db[Row(m)], stage, Version(db) + 1, by, checker)
    BY DEF MoveRows, Turned
  <2> HIDE DEF puts
  <2>5. /\ \A m \in Live(db) : /\ Row(m) \in DOMAIN puts
                               /\ puts[Row(m)] = Turned(db[Row(m)], stage, Version(db) + 1, by, checker)
        /\ \A m \in Members \ Live(db) : Row(m) \notin DOMAIN puts
    BY <2>2, Different
  <2>6. stage \in Stages \ {"SUPERSEDED"}
    BY DEF Stages
  <2> QED BY <2>1, <2>5, <2>6, TurnedKeeps
<1>4. ASSUME NEW c \in Clients \cup {Now}, PublishAllocation(c) PROVE Goal
  <2> DEFINE rows == MoveRows(db, Live(db), "PUBLISHED", "none", "none")
             plan == PutPlan(db, "ACTIVE")
             puts == rows @@ plan
  <2>1. Ready(c) /\ \E p : Commit(c, p)
    BY <1>4 DEF PublishAllocation
  <2>2. Seen(c) = db
    BY <2>1, Timely
  <2>3. Commit(c, puts)
    BY <1>4, <2>2 DEF PublishAllocation
  <2>4. /\ DOMAIN rows = {Row(m) : m \in Live(db)}
        /\ \A m \in Live(db) :
             rows[Row(m)] = Turned(db[Row(m)], "PUBLISHED", Version(db) + 1, "none", "none")
    BY DEF MoveRows, Turned
  <2>7. DOMAIN plan = {PlanDoc}
    BY DEF PutPlan, :>
  <2> HIDE DEF rows, plan
  <2>8. /\ \A m \in Live(db) : Row(m) \in DOMAIN puts /\ puts[Row(m)] = rows[Row(m)]
        /\ \A m \in Members \ Live(db) : Row(m) \notin DOMAIN puts
    BY <2>4, <2>7, Different DEF @@
  <2> HIDE DEF puts
  <2>9. "PUBLISHED" \in Stages \ {"SUPERSEDED"}
    BY DEF Stages
  <2> QED BY <2>3, <2>4, <2>8, <2>9, TurnedKeeps
<1>5. ASSUME NEW c \in Clients \cup {Now}, NEW life, Commit(c, PutPlan(Seen(c), life))
      PROVE  Goal
  <2>1. PICK puts : Commit(c, puts) /\ DOMAIN puts = {PlanDoc}
    BY <1>5 DEF PutPlan, :>
  <2> QED BY <2>1, Different, UnwrittenKeeps
<1>6. ASSUME NEW m \in Members, Leave(m) PROVE Goal
  <2>1. PICK puts : Commit(Now, puts) /\ DOMAIN puts = {Seat(m)}
    BY <1>6 DEF Leave, :>
  <2> QED BY <2>1, Different, UnwrittenKeeps
<1>7. ASSUME NEW c \in Clients \cup {Now}, UpdateDraft(c) \/ PublishPlan(c) \/ ArchivePlan(c)
      PROVE  Goal
  BY <1>5, <1>7 DEF UpdateDraft, PublishPlan, ArchivePlan
<1>8. ASSUME NEW c \in Clients \cup {Now}, NEW a \in Actors, Submit(c, a) PROVE Goal
  BY <1>3, <1>8 DEF Submit
<1>9. ASSUME NEW c \in Clients \cup {Now}, NEW a \in Actors,
             NEW verdict \in {"APPROVED", "CHANGES"}, Review(c, a, verdict)
      PROVE  Goal
  <2> DEFINE k == IF verdict = "APPROVED" THEN a ELSE "none"
  <2>1. /\ Ready(c)
        /\ Commit(c, MoveRows(Seen(c), Live(Seen(c)), verdict, "none", k))
    BY <1>9 DEF Review
  <2> HIDE DEF k
  <2> QED BY <2>1, <1>3
<1> HIDE DEF Goal
<1>10. Goal
  BY <1>1, <1>2, <1>4, <1>6, <1>7, <1>8, <1>9 DEF PlanStep
<1> QED BY <1>10 DEF Goal

\* The stored shares come to exceed the target only when a transaction
\* commits that missed another's: kpi-allocation-lifecycle.ts:138 holds of
\* what a draft divides, not of two drafts together.
THEOREM OverAllocationHolds == Spec => OverAllocatedLate
<1> DEFINE Fine == OverAllocated(db') /\ ~OverAllocated(db) => LateCommit
<1>1. ASSUME IInv, [Next]_vars PROVE Fine
  <2> SUFFICES ASSUME ~LateCommit PROVE OverAllocated(db') => OverAllocated(db)
    OBVIOUS
  <2>1. ASSUME \A m \in Members : db'[Row(m)] = db[Row(m)]
        PROVE  OverAllocated(db') => OverAllocated(db)
    BY <2>1, KeepsTotal DEF Keeps
  <2>2. CASE PlanStep
    BY <1>1, <2>2, PlanStepDivides, KeepsTotal
  <2>3. ASSUME NEW c \in Clients \cup {Now}, NEW d \in Docs, NEW v, Commit(c, d :> v),
               \A m \in Members : d # Row(m)
        PROVE  OverAllocated(db') => OverAllocated(db)
    <3>1. PICK puts : Commit(c, puts) /\ DOMAIN puts = {d}
      BY <2>3 DEF :>
    <3> QED BY <3>1, <2>3, UnwrittenKeeps, KeepsTotal
  <2>4. CASE ActualStep
    <3>1. ASSUME NEW c \in Clients \cup {Now}, Finalize(c)
          PROVE  OverAllocated(db') => OverAllocated(db)
      <4>1. PICK v : Commit(c, PlanDoc :> v)
        BY <3>1 DEF Finalize
      <4> QED BY <4>1, <2>3, InDocs, Different
    <3>2. ASSUME NEW c \in Clients \cup {Now}, NEW x \in Slots,
                 MarkExcuse(c, x) \/ RemoveExcuse(c, x)
          PROVE  OverAllocated(db') => OverAllocated(db)
      <4>1. PICK v : Commit(c, Excuse(x) :> v)
        BY <3>2 DEF MarkExcuse, RemoveExcuse
      <4> QED BY <4>1, <2>3, InDocs, Different
    <3>3. ASSUME NEW c \in Clients \cup {Now}, NEW x \in Slots, NEW v \in Values,
                 CreateActual(c, x, v) \/ UpdateActual(c, x, v) \/ CorrectActual(c, x, v)
          PROVE  OverAllocated(db') => OverAllocated(db)
      <4>1. PICK g : Commit(c, Entry(x) :> g)
        BY <3>3 DEF CreateActual, UpdateActual, CorrectActual
      <4>2. Entry(x) \in Docs /\ \A m \in Members : Entry(x) # Row(m)
        BY InDocs, Different
      <4> QED BY <4>1, <4>2, <2>3
    <3> QED BY <2>4, <3>1, <3>2, <3>3 DEF ActualStep, SlotStep
  <2>5. CASE UNCHANGED db
    <3>1. db' = db
      BY <2>5
    <3> QED BY <2>1, <3>1
  <2> HIDE DEF OverAllocated
  <2> QED BY <1>1, <2>2, <2>4, <2>5 DEF Next, Tick, BeginTxn, Begin, Abort, vars
<1>2. IInv /\ [Next]_vars => [Fine]_txnVars
  BY <1>1
<1> QED BY <1>2, SpecIInv, PTL DEF Spec, OverAllocatedLate
=============================================================================
