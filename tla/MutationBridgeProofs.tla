------------------------ MODULE MutationBridgeProofs ------------------------
(***************************************************************************)
(* Proofs about MutationBridge, for every set of requests and documents    *)
(* and every bound on the attempts.                                        *)
(***************************************************************************)
EXTENDS MutationBridge, TLAPS

Inside == {"mutate", "bump", "check", "commit"}

\* The attempts of a request are transactions of its own.
LEMMA CurType ==
  ASSUME TypeOK, NEW r \in Requests
  PROVE  /\ Cur(r) \in Txns /\ attempt[r] \in Attempts /\ attempt[r] \in Nat
         /\ \A q \in Requests, i \in Attempts :
              /\ <<q, i>> \in Txns
              /\ <<q, i>> = Cur(r) <=> q = r /\ i = attempt[r]
  BY DEF TypeOK, Cur, Txns, Attempts

LEMMA EndShape ==
  ASSUME TypeOK, NEW t \in Txns, NEW s \in States, End(t, s)
  PROVE  /\ state' \in [Txns -> States] /\ marks' \in [Txns -> SUBSET Marks]
         /\ seen' \in [Txns -> SUBSET Txns]
         /\ state'[t] = s /\ marks'[t] = IF s = "aborted" THEN {} ELSE marks[t]
         /\ \A u \in Txns \ {t} : state'[u] = state[u] /\ marks'[u] = marks[u]
  BY DEF TypeOK, End

LEMMA WriteShape ==
  ASSUME TypeOK, NEW t \in Txns, NEW new \in SUBSET Marks, Write(t, new)
  PROVE  /\ marks' \in [Txns -> SUBSET Marks]
         /\ state' = state /\ seen' = seen
         /\ marks'[t] = marks[t] \cup new
         /\ \A u \in Txns \ {t} : marks'[u] = marks[u]
  BY DEF TypeOK, Write

LEMMA GotoShape ==
  ASSUME TypeOK, NEW r \in Requests, NEW l \in Locations, Goto(r, l)
  PROVE  /\ at' \in [Requests -> Locations] /\ at'[r] = l
         /\ \A q \in Requests \ {r} : at'[q] = at[q]
  BY DEF TypeOK, Goto

\* Repeating an attempt, or giving up for want of one.
Repeated(r) ==
  \/ at'[r] = "start" /\ attempt'[r] = attempt[r] + 1
  \/ at'[r] = "failed" /\ attempt'[r] = attempt[r]

LEMMA AgainShape ==
  ASSUME TypeOK, NEW r \in Requests, Again(r)
  PROVE  /\ at' \in [Requests -> Locations] /\ attempt' \in [Requests -> Attempts]
         /\ Repeated(r)
         /\ \A q \in Requests \ {r} : at'[q] = at[q] /\ attempt'[q] = attempt[q]
<1>1. CASE /\ AttemptLeft(r) /\ attempt' = [attempt EXCEPT ![r] = @ + 1]
           /\ Goto(r, "start")
  <2>1. attempt[r] + 1 \in Attempts
    BY <1>1, BridgeAssumption DEF AttemptLeft, TypeOK, Attempts, BridgeAssumption
  <2> QED
    BY <1>1, <2>1, GotoShape DEF TypeOK, Locations, Repeated
<1>2. CASE UNCHANGED attempt /\ Goto(r, "failed")
  BY <1>2, GotoShape DEF TypeOK, Locations, Repeated
<1> QED
  BY <1>1, <1>2 DEF Again

-----------------------------------------------------------------------------
(* What the steps of request r do to its current transaction.              *)

Still(t) == state'[t] = state[t] /\ marks'[t] = marks[t]

Began(r) ==
  /\ at[r] = "start" /\ at'[r] = "mutate" /\ attempt'[r] = attempt[r]
  /\ state'[Cur(r)] = "open" /\ marks'[Cur(r)] = marks[Cur(r)]
  /\ UNCHANGED history

Wrote(r) ==
  /\ at[r] = "mutate" /\ at'[r] = "bump" /\ attempt'[r] = attempt[r]
  /\ state'[Cur(r)] = state[Cur(r)]
  /\ \E new \in SUBSET {"audit", "truth", "events"} :
       \/ /\ GuardHolds(Cur(r)) /\ ~DocumentConflict(Cur(r))
          /\ marks'[Cur(r)] = marks[Cur(r)] \cup (new \cup {"change"})
       \/ marks'[Cur(r)] = marks[Cur(r)] \cup (new \cup {"noop"})
  /\ UNCHANGED history

RolledBack(r) ==
  /\ at[r] \in Inside
  /\ \/ Repeated(r)
     \/ at'[r] = "dead" /\ attempt'[r] = attempt[r]
  /\ state'[Cur(r)] = "aborted" /\ marks'[Cur(r)] = {}
  /\ UNCHANGED history

Bumped(r) ==
  /\ at[r] = "bump" /\ at'[r] = "check" /\ attempt'[r] = attempt[r]
  /\ state'[Cur(r)] = state[Cur(r)]
  /\ \/ "truth" \notin marks[Cur(r)] /\ marks'[Cur(r)] = marks[Cur(r)]
     \/ "truth" \in marks[Cur(r)] /\ marks'[Cur(r)] = marks[Cur(r)] \cup {"version"}
  /\ UNCHANGED history

Checked(r) ==
  /\ at[r] = "check" /\ at'[r] = "commit" /\ attempt'[r] = attempt[r]
  /\ Acceptable(marks[Cur(r)]) /\ Still(Cur(r))
  /\ UNCHANGED history

Ended(r) ==
  /\ at[r] = "commit" /\ attempt'[r] = attempt[r] /\ marks'[Cur(r)] = marks[Cur(r)]
  /\ \/ at'[r] = "ok" /\ state'[Cur(r)] = "committed" /\ UNCHANGED history
     \/ /\ at'[r] = "doubt" /\ state'[Cur(r)] = "doubt"
        /\ doubted' = doubted \cup {r} /\ UNCHANGED abandoned

Looked(r) ==
  /\ at[r] = "doubt" /\ Still(Cur(r)) /\ UNCHANGED doubted
  /\ \/ /\ at'[r] = "ok" /\ Observable(Cur(r)) /\ attempt'[r] = attempt[r]
        /\ UNCHANGED abandoned
     \/ at'[r] = "failed" /\ attempt'[r] = attempt[r] /\ UNCHANGED abandoned
     \/ /\ state[Cur(r)] # "committed" /\ Repeated(r)
        /\ abandoned' = IF state[Cur(r)] = "doubt"
                        THEN abandoned \cup {Cur(r)} ELSE abandoned

Died(r) ==
  /\ at[r] \notin Answered /\ at'[r] = "dead" /\ attempt'[r] = attempt[r]
  /\ state[Cur(r)] # "open" /\ Still(Cur(r)) /\ UNCHANGED history

Move(r) ==
  \/ Began(r) \/ Wrote(r) \/ RolledBack(r) \/ Bumped(r)
  \/ Checked(r) \/ Ended(r) \/ Looked(r) \/ Died(r)

\* Nothing else changes, but for what concerns no invariant here: the snapshots.
Elsewhere(r) ==
  /\ \A q \in Requests \ {r} : at'[q] = at[q] /\ attempt'[q] = attempt[q]
  /\ \A u \in Txns \ {Cur(r)} : Still(u)

Typed ==
  /\ at' \in [Requests -> Locations] /\ attempt' \in [Requests -> Attempts]
  /\ state' \in [Txns -> States] /\ marks' \in [Txns -> SUBSET Marks]
  /\ seen' \in [Txns -> SUBSET Txns]

Shape(r) == Typed /\ Elsewhere(r) /\ Move(r)

\* A transaction that is rolled back, for an error or for good.
LEMMA RollBackShape ==
  ASSUME TypeOK, NEW r \in Requests, at[r] \in Inside,
         TransientError(r) \/ Fail(r) \/ (End(Cur(r), "aborted") /\ Goto(r, "dead")
                                          /\ UNCHANGED <<attempt, history>>)
  PROVE  Shape(r)
<1>1. Cur(r) \in Txns /\ End(Cur(r), "aborted") /\ UNCHANGED history
  BY CurType DEF TransientError, Fail
<1>2. /\ state' \in [Txns -> States] /\ marks' \in [Txns -> SUBSET Marks]
      /\ seen' \in [Txns -> SUBSET Txns]
      /\ state'[Cur(r)] = "aborted" /\ marks'[Cur(r)] = {}
      /\ \A u \in Txns \ {Cur(r)} : state'[u] = state[u] /\ marks'[u] = marks[u]
  BY <1>1, EndShape DEF States
<1>3. /\ at' \in [Requests -> Locations] /\ attempt' \in [Requests -> Attempts]
      /\ Repeated(r) \/ (at'[r] = "dead" /\ attempt'[r] = attempt[r])
      /\ \A q \in Requests \ {r} : at'[q] = at[q] /\ attempt'[q] = attempt[q]
  <2>1. CASE Again(r)
    BY <2>1, AgainShape
  <2>2. CASE Goto(r, "failed") /\ UNCHANGED attempt
    BY <2>2, GotoShape DEF TypeOK, Repeated, Locations
  <2>3. CASE Goto(r, "dead") /\ UNCHANGED attempt
    BY <2>3, GotoShape DEF TypeOK, Locations
  <2> QED
    BY <2>1, <2>2, <2>3 DEF TransientError, Fail
<1> QED
  BY <1>1, <1>2, <1>3 DEF Shape, Typed, Elsewhere, Still, Move, RolledBack

\* A step that moves r on and leaves its attempt and the histories.
LEMMA AheadShape ==
  ASSUME TypeOK, NEW r \in Requests, NEW l \in Locations, Goto(r, l), UNCHANGED attempt,
         state' \in [Txns -> States], marks' \in [Txns -> SUBSET Marks],
         seen' \in [Txns -> SUBSET Txns],
         \A u \in Txns \ {Cur(r)} : Still(u)
  PROVE  Typed /\ Elsewhere(r) /\ at'[r] = l /\ attempt'[r] = attempt[r]
  BY GotoShape DEF TypeOK, Typed, Elsewhere

\* A step that leaves the database as it is.
LEMMA QuietShape ==
  ASSUME TypeOK, NEW r \in Requests, UnchangedDb
  PROVE  /\ Still(Cur(r)) /\ \A u \in Txns \ {Cur(r)} : Still(u)
         /\ state' \in [Txns -> States] /\ marks' \in [Txns -> SUBSET Marks]
         /\ seen' \in [Txns -> SUBSET Txns]
  BY DEF TypeOK, UnchangedDb, Still

LEMMA StartShape ==
  ASSUME TypeOK, NEW r \in Requests, StartTransaction(r)
  PROVE  Shape(r)
<1>1. /\ Cur(r) \in Txns /\ at[r] = "start" /\ Goto(r, "mutate")
      /\ UNCHANGED <<attempt, history>>
  BY CurType DEF StartTransaction
<1>2. /\ state' \in [Txns -> States] /\ marks' \in [Txns -> SUBSET Marks]
      /\ seen' \in [Txns -> SUBSET Txns]
      /\ state'[Cur(r)] = "open" /\ marks'[Cur(r)] = marks[Cur(r)]
      /\ \A u \in Txns \ {Cur(r)} : Still(u)
  BY <1>1 DEF StartTransaction, Begin, TypeOK, States, Committed, Still
<1>3. Typed /\ Elsewhere(r) /\ at'[r] = "mutate" /\ attempt'[r] = attempt[r]
  BY <1>1, <1>2, AheadShape DEF Locations
<1> QED
  BY <1>1, <1>2, <1>3 DEF Shape, Move, Began

LEMMA MutateShape ==
  ASSUME TypeOK, NEW r \in Requests, Mutate(r)
  PROVE  Shape(r)
<1> DEFINE t == Cur(r)
<1>1. t \in Txns /\ at[r] = "mutate" /\ at[r] \in Inside
  BY CurType DEF Mutate, Inside
<1>2. CASE TransientError(r) \/ Fail(r)
  BY <1>1, <1>2, RollBackShape
<1>3. ASSUME NEW new \in SUBSET {"audit", "truth", "events"}, NEW m \in {"change", "noop"},
             m = "change" => GuardHolds(t) /\ ~DocumentConflict(t),
             Write(t, new \cup {m}), Goto(r, "bump"), UNCHANGED <<attempt, history>>
      PROVE  Shape(r)
  <2>1. new \cup {m} \in SUBSET Marks
    BY DEF Marks
  <2>2. /\ marks' \in [Txns -> SUBSET Marks] /\ state' = state /\ seen' = seen
        /\ marks'[t] = marks[t] \cup (new \cup {m})
        /\ \A u \in Txns \ {t} : marks'[u] = marks[u]
    BY <1>1, <1>3, <2>1, WriteShape
  <2>3. Typed /\ Elsewhere(r) /\ at'[r] = "bump" /\ attempt'[r] = attempt[r]
    BY <1>3, <2>2, AheadShape DEF Locations, TypeOK, Still
  <2>4. Wrote(r)
    BY <1>1, <1>3, <2>2, <2>3 DEF Wrote
  <2> QED
    BY <2>3, <2>4 DEF Shape, Move
<1>4. CASE /\ GuardHolds(t) /\ ~DocumentConflict(t)
           /\ \E new \in SUBSET {"audit", "truth", "events"} :
                Write(t, new \cup {"change"})
           /\ Goto(r, "bump") /\ UNCHANGED <<attempt, history>>
  BY <1>3, <1>4
<1>5. CASE /\ \E new \in SUBSET {"truth", "events"} : Write(t, new \cup {"noop"})
           /\ Goto(r, "bump") /\ UNCHANGED <<attempt, history>>
  <2>1. PICK new \in SUBSET {"truth", "events"} : Write(t, new \cup {"noop"})
    BY <1>5
  <2>2. new \in SUBSET {"audit", "truth", "events"}
    OBVIOUS
  <2> QED
    BY <1>3, <1>5, <2>1, <2>2
<1> QED
  BY <1>2, <1>4, <1>5 DEF Mutate

LEMMA BumpShape ==
  ASSUME TypeOK, NEW r \in Requests, BumpVersion(r)
  PROVE  Shape(r)
<1>1. Cur(r) \in Txns /\ at[r] = "bump" /\ at[r] \in Inside
  BY CurType DEF BumpVersion, Inside
<1>2. CASE TransientError(r) \/ Fail(r)
  BY <1>1, <1>2, RollBackShape
<1>3. CASE /\ "truth" \notin marks[Cur(r)] /\ UnchangedDb
           /\ Goto(r, "check") /\ UNCHANGED <<attempt, history>>
  <2>1. /\ Typed /\ Elsewhere(r) /\ at'[r] = "check" /\ attempt'[r] = attempt[r]
        /\ Still(Cur(r))
    BY <1>3, QuietShape, AheadShape DEF Locations
  <2> QED
    BY <1>1, <1>3, <2>1 DEF Shape, Move, Bumped, Still
<1>4. CASE /\ "truth" \in marks[Cur(r)] /\ Write(Cur(r), {"version"})
           /\ Goto(r, "check") /\ UNCHANGED <<attempt, history>>
  <2>1. /\ marks' \in [Txns -> SUBSET Marks] /\ state' = state /\ seen' = seen
        /\ marks'[Cur(r)] = marks[Cur(r)] \cup {"version"}
        /\ \A u \in Txns \ {Cur(r)} : marks'[u] = marks[u]
    BY <1>1, <1>4, WriteShape DEF Marks
  <2>2. Typed /\ Elsewhere(r) /\ at'[r] = "check" /\ attempt'[r] = attempt[r]
    BY <1>4, <2>1, AheadShape DEF Locations, TypeOK, Still
  <2> QED
    BY <1>1, <1>4, <2>1, <2>2 DEF Shape, Move, Bumped
<1> QED
  BY <1>2, <1>3, <1>4 DEF BumpVersion

LEMMA CheckShape ==
  ASSUME TypeOK, NEW r \in Requests, Check(r)
  PROVE  Shape(r)
<1>1. at[r] = "check" /\ at[r] \in Inside
  BY DEF Check, Inside
<1>2. CASE TransientError(r) \/ Fail(r)
  BY <1>1, <1>2, RollBackShape
<1>3. CASE /\ Acceptable(marks[Cur(r)]) /\ UnchangedDb
           /\ Goto(r, "commit") /\ UNCHANGED <<attempt, history>>
  <2>1. /\ Typed /\ Elsewhere(r) /\ at'[r] = "commit" /\ attempt'[r] = attempt[r]
        /\ Still(Cur(r))
    BY <1>3, QuietShape, AheadShape DEF Locations
  <2> QED
    BY <1>1, <1>3, <2>1 DEF Shape, Move, Checked
<1> QED
  BY <1>2, <1>3 DEF Check

LEMMA CommitShape ==
  ASSUME TypeOK, NEW r \in Requests, Commit(r)
  PROVE  Shape(r)
<1>1. Cur(r) \in Txns /\ at[r] = "commit" /\ at[r] \in Inside
  BY CurType DEF Commit, Inside
<1>2. CASE TransientError(r)
  BY <1>1, <1>2, RollBackShape
<1>3. ASSUME NEW s \in {"committed", "doubt"}, NEW l \in {"ok", "doubt"},
             End(Cur(r), s), Goto(r, l), UNCHANGED attempt
      PROVE  /\ Typed /\ Elsewhere(r) /\ at'[r] = l /\ attempt'[r] = attempt[r]
             /\ state'[Cur(r)] = s /\ marks'[Cur(r)] = marks[Cur(r)]
  <2>1. /\ state' \in [Txns -> States] /\ marks' \in [Txns -> SUBSET Marks]
        /\ seen' \in [Txns -> SUBSET Txns]
        /\ state'[Cur(r)] = s /\ marks'[Cur(r)] = marks[Cur(r)]
        /\ \A u \in Txns \ {Cur(r)} : Still(u)
    BY <1>1, <1>3, EndShape DEF States, Still
  <2> QED
    BY <1>3, <2>1, AheadShape DEF Locations
<1>4. CASE /\ End(Cur(r), "committed") /\ Goto(r, "ok")
           /\ UNCHANGED <<attempt, history>>
  BY <1>1, <1>3, <1>4 DEF Shape, Move, Ended
<1>5. CASE /\ End(Cur(r), "doubt") /\ Goto(r, "doubt")
           /\ doubted' = doubted \cup {r} /\ UNCHANGED <<attempt, abandoned>>
  BY <1>1, <1>3, <1>5 DEF Shape, Move, Ended
<1> QED
  BY <1>2, <1>4, <1>5 DEF Commit

LEMMA VerifyShape ==
  ASSUME TypeOK, NEW r \in Requests, Verify(r)
  PROVE  Shape(r)
<1>1. at[r] = "doubt" /\ UnchangedDb /\ UNCHANGED doubted
  BY DEF Verify
<1>2. /\ Still(Cur(r)) /\ \A u \in Txns \ {Cur(r)} : Still(u)
      /\ state' \in [Txns -> States] /\ marks' \in [Txns -> SUBSET Marks]
      /\ seen' \in [Txns -> SUBSET Txns]
  BY <1>1, QuietShape
<1>3. CASE Observable(Cur(r)) /\ Goto(r, "ok") /\ UNCHANGED <<attempt, abandoned>>
  <2>1. Typed /\ Elsewhere(r) /\ at'[r] = "ok" /\ attempt'[r] = attempt[r]
    BY <1>2, <1>3, AheadShape DEF Locations
  <2> QED
    BY <1>1, <1>2, <1>3, <2>1 DEF Shape, Move, Looked
<1>4. CASE Goto(r, "failed") /\ UNCHANGED <<attempt, abandoned>>
  <2>1. Typed /\ Elsewhere(r) /\ at'[r] = "failed" /\ attempt'[r] = attempt[r]
    BY <1>2, <1>4, AheadShape DEF Locations
  <2> QED
    BY <1>1, <1>2, <1>4, <2>1 DEF Shape, Move, Looked
<1>5. CASE /\ state[Cur(r)] # "committed" /\ Again(r)
           /\ abandoned' = IF state[Cur(r)] = "doubt"
                           THEN abandoned \cup {Cur(r)} ELSE abandoned
  <2>1. Typed /\ Elsewhere(r) /\ Repeated(r)
    BY <1>2, <1>5, AgainShape DEF Typed, Elsewhere
  <2> QED
    BY <1>1, <1>2, <1>5, <2>1 DEF Shape, Move, Looked
<1> QED
  BY <1>3, <1>4, <1>5 DEF Verify

LEMMA DieShape ==
  ASSUME TypeOK, NEW r \in Requests, Die(r), state[Cur(r)] = "open" => at[r] \in Inside
  PROVE  Shape(r)
<1>1. at[r] \notin Answered /\ Goto(r, "dead") /\ UNCHANGED <<attempt, history>>
  BY DEF Die
<1>2. CASE state[Cur(r)] = "open" /\ End(Cur(r), "aborted")
  BY <1>1, <1>2, RollBackShape
<1>3. CASE state[Cur(r)] # "open" /\ UnchangedDb
  <2>1. /\ Typed /\ Elsewhere(r) /\ at'[r] = "dead" /\ attempt'[r] = attempt[r]
        /\ Still(Cur(r))
    BY <1>1, <1>3, QuietShape, AheadShape DEF Locations
  <2> QED
    BY <1>1, <1>3, <2>1 DEF Shape, Move, Died
<1> QED
  BY <1>2, <1>3 DEF Die

-----------------------------------------------------------------------------
(* Where an execution stands and what its transactions are.                *)

\* The current transaction of an execution that stands at l is in state s.
Stands(l, s) ==
  /\ l = "start" => s = "none"
  /\ l \in Inside => s = "open"
  /\ l = "doubt" => s \in {"doubt", "committed", "aborted"}
  /\ l \in Answered => s # "open"

Placed ==
  /\ \A r \in Requests : Stands(at[r], state[Cur(r)])
  /\ \A r \in Requests, i \in Attempts :
       /\ i > attempt[r] => state[<<r, i>>] = "none"
       /\ i < attempt[r] => state[<<r, i>>] \in {"aborted", "doubt", "committed"}

LEMMA NextShape ==
  ASSUME TypeOK, Placed, [Next]_vars
  PROVE  \/ \E r \in Requests : Shape(r)
         \/ \E t \in Txns : Decide(t)
         \/ UNCHANGED vars
<1>1. ASSUME NEW r \in Requests, Execute(r) PROVE Shape(r)
  BY <1>1, StartShape, MutateShape, BumpShape, CheckShape, CommitShape, VerifyShape
     DEF Execute
<1>2. ASSUME NEW r \in Requests, Die(r) PROVE Shape(r)
  <2>1. state[Cur(r)] = "open" => at[r] \in Inside
    BY <1>2 DEF Die, Placed, Stands, TypeOK, Locations, Inside, Answered
  <2> QED
    BY <1>2, <2>1, DieShape
<1> QED
  BY <1>1, <1>2 DEF Next

LEMMA TypeStep ==
  ASSUME TypeOK, Placed, [Next]_vars
  PROVE  TypeOK'
<1>1. CASE \E r \in Requests : Shape(r)
  <2>1. PICK r \in Requests : Shape(r)
    BY <1>1
  <2>2. doubted' \subseteq Requests /\ abandoned' \subseteq Txns
    <3>1. doubted \subseteq Requests /\ abandoned \subseteq Txns /\ Cur(r) \in Txns
      BY CurType DEF TypeOK
    <3> QED
      BY <2>1, <3>1 DEF Shape, Move, Began, Wrote, RolledBack, Bumped, Checked, Ended,
         Looked, Died, history
  <2> QED
    BY <2>1, <2>2 DEF Shape, Typed, TypeOK
<1>2. CASE \E t \in Txns : Decide(t)
  BY <1>2 DEF Decide, TypeOK, States, history
<1>3. CASE UNCHANGED vars
  BY <1>3 DEF vars, history, TypeOK
<1> QED
  BY <1>1, <1>2, <1>3, NextShape

\* What a transaction of another execution, or another attempt, becomes.
LEMMA Untouched ==
  ASSUME TypeOK, NEW r \in Requests, Shape(r), NEW q \in Requests, NEW i \in Attempts,
         q # r \/ i # attempt[r]
  PROVE  /\ <<q, i>> \in Txns
         /\ state'[<<q, i>>] = state[<<q, i>>] /\ marks'[<<q, i>>] = marks[<<q, i>>]
<1>1. <<q, i>> \in Txns \ {Cur(r)}
  BY CurType
<1> QED
  BY <1>1 DEF Shape, Elsewhere, Still

LEMMA PlacedStep ==
  ASSUME TypeOK, Placed, [Next]_vars
  PROVE  Placed'
<1>1. CASE \E r \in Requests : Shape(r)
  <2>1. PICK r \in Requests : Shape(r)
    BY <1>1
  <2> DEFINE a == attempt[r]
  <2>2. a \in Nat /\ a \in Attempts /\ attempt'[r] \in Attempts
        /\ a + 1 # a /\ a + 1 > a /\ Attempts \subseteq Nat
    BY <2>1, CurType DEF Shape, Typed, Attempts
  <2>3. ASSUME NEW q \in Requests, q # r
        PROVE  /\ Stands(at'[q], state'[<<q, attempt'[q]>>])
               /\ \A i \in Attempts :
                    /\ i > attempt'[q] => state'[<<q, i>>] = "none"
                    /\ i < attempt'[q]
                       => state'[<<q, i>>] \in {"aborted", "doubt", "committed"}
    <3>1. at'[q] = at[q] /\ attempt'[q] = attempt[q] /\ attempt[q] \in Attempts
      BY <2>1, <2>3 DEF Shape, Elsewhere, TypeOK
    <3>2. \A i \in Attempts : state'[<<q, i>>] = state[<<q, i>>]
      BY <2>1, <2>3, Untouched
    <3> QED
      BY <2>3, <3>1, <3>2 DEF Placed, Cur
  <2>4. ASSUME NEW i \in Attempts, i # a
        PROVE  /\ state'[<<r, i>>] = state[<<r, i>>]
               /\ i > a => state[<<r, i>>] = "none"
               /\ i < a => state[<<r, i>>] \in {"aborted", "doubt", "committed"}
    BY <2>1, <2>4, Untouched DEF Placed
  <2>5. Stands(at[r], state[Cur(r)]) /\ Cur(r) = <<r, a>>
    BY DEF Placed, Cur
  <2> HIDE DEF a
  <2>6. \/ attempt'[r] = a /\ Stands(at'[r], state'[<<r, a>>])
        \/ /\ attempt'[r] = a + 1 /\ at'[r] = "start"
           /\ state'[<<r, a>>] \in {"aborted", "doubt", "committed"}
    <3>1. CASE Began(r) \/ Wrote(r) \/ Bumped(r) \/ Checked(r) \/ Ended(r) \/ Died(r)
      BY <2>5, <3>1 DEF Began, Wrote, Bumped, Checked, Ended, Died, Stands, Still,
         Inside, Answered, a
    <3>2. CASE RolledBack(r)
      BY <2>5, <3>2 DEF RolledBack, Repeated, Stands, Inside, Answered, a
    <3>3. CASE Looked(r)
      BY <2>5, <3>3 DEF Looked, Repeated, Stands, Still, Inside, Answered, a
    <3> QED
      BY <2>1, <3>1, <3>2, <3>3 DEF Shape, Move
  <2>7. /\ Stands(at'[r], state'[<<r, attempt'[r]>>])
        /\ \A i \in Attempts :
             /\ i > attempt'[r] => state'[<<r, i>>] = "none"
             /\ i < attempt'[r] => state'[<<r, i>>] \in {"aborted", "doubt", "committed"}
    <3>1. CASE attempt'[r] = a /\ Stands(at'[r], state'[<<r, a>>])
      <4>1. \A i \in Attempts : (i > a \/ i < a) => i # a
        BY <2>2
      <4> QED
        BY <2>4, <3>1, <4>1
    <3>2. CASE /\ attempt'[r] = a + 1 /\ at'[r] = "start"
               /\ state'[<<r, a>>] \in {"aborted", "doubt", "committed"}
      <4>1. state'[<<r, a + 1>>] = "none"
        BY <2>2, <2>4, <3>2
      <4>2. Stands(at'[r], state'[<<r, attempt'[r]>>])
        BY <3>2, <4>1 DEF Stands, Inside, Answered
      <4>3. ASSUME NEW i \in Attempts
            PROVE  /\ i > a + 1 => state'[<<r, i>>] = "none"
                   /\ i < a + 1 => state'[<<r, i>>] \in {"aborted", "doubt", "committed"}
        <5>1. CASE i = a
          <6>1. ~(i > a + 1)
            BY <2>2, <5>1
          <6> QED
            BY <3>2, <5>1, <6>1
        <5>2. CASE i # a
          <6>1. /\ state'[<<r, i>>] = state[<<r, i>>]
                /\ i > a => state[<<r, i>>] = "none"
                /\ i < a => state[<<r, i>>] \in {"aborted", "doubt", "committed"}
            BY <2>4, <5>2
          <6>2. (i > a + 1 => i > a) /\ (i < a + 1 => i < a)
            BY <2>2, <5>2
          <6> QED
            BY <6>1, <6>2
        <5> QED
          BY <5>1, <5>2
      <4> QED
        BY <3>2, <4>2, <4>3
    <3> QED
      BY <2>6, <3>1, <3>2
  <2> QED
    BY <2>3, <2>7 DEF Placed, Cur
<1>2. CASE \E t \in Txns : Decide(t)
  <2>1. PICK t \in Txns : Decide(t)
    BY <1>2
  <2>2. \A u \in Txns :
          \/ state'[u] = state[u]
          \/ state[u] = "doubt" /\ state'[u] \in {"committed", "aborted"}
    BY <2>1 DEF Decide, TypeOK
  <2>3. at' = at /\ attempt' = attempt
    BY <2>1 DEF Decide
  <2>4. ASSUME NEW r \in Requests PROVE Stands(at[r], state'[Cur(r)])
    BY <2>2, CurType DEF Placed, Stands, Inside, Answered
  <2>5. ASSUME NEW r \in Requests, NEW i \in Attempts
        PROVE  /\ i > attempt[r] => state'[<<r, i>>] = "none"
               /\ i < attempt[r] => state'[<<r, i>>] \in {"aborted", "doubt", "committed"}
    BY <2>2, CurType DEF Placed
  <2> QED
    BY <2>3, <2>4, <2>5 DEF Placed, Cur
<1>3. CASE UNCHANGED vars
  BY <1>3 DEF vars, Placed, Cur
<1> QED
  BY <1>1, <1>2, <1>3, NextShape

LEMMA InitType == Init => TypeOK /\ Placed
  BY BridgeAssumption DEF Init, TypeOK, Placed, Stands, Cur, Txns, Attempts, States, Marks,
     Locations, Inside, Answered, BridgeAssumption

\* Executions and their transactions stay in step.
LEMMA Grounded == Spec => [](TypeOK /\ Placed)
<1>1. TypeOK /\ Placed /\ [Next]_vars => (TypeOK /\ Placed)'
  BY TypeStep, PlacedStep
<1> QED
  BY <1>1, InitType, PTL DEF Spec

\* Every state of every behaviour is well formed.
THEOREM TypeCorrect == Spec => []TypeOK
  BY Grounded, PTL

-----------------------------------------------------------------------------
(* What a transaction holds.                                               *)

Coherent(m) == "truth" \in m <=> "version" \in m

\* What an execution has written at each point of its attempt.
Draft(l, m) ==
  /\ l = "mutate" => m = {}
  /\ l = "bump" => "version" \notin m
  /\ l \in {"check", "commit"} => Coherent(m)
  /\ l = "commit" => Acceptable(m)

\* What may be in a transaction that is in state s.
Content(s, m) ==
  /\ ~("noop" \in m /\ "change" \in m)
  /\ s \in {"doubt", "committed"} => Coherent(m) /\ Acceptable(m)
  /\ s = "none" => m = {}

Contents ==
  /\ \A r \in Requests : Draft(at[r], marks[Cur(r)])
  /\ \A t \in Txns : Content(state[t], marks[t])

LEMMA ContentsStep ==
  ASSUME TypeOK, Placed, Contents, [Next]_vars
  PROVE  Contents'
<1>1. CASE \E r \in Requests : Shape(r)
  <2>1. PICK r \in Requests : Shape(r)
    BY <1>1
  <2>2. ASSUME NEW q \in Requests, q # r
        PROVE  Draft(at'[q], marks'[<<q, attempt'[q]>>])
    <3>1. at'[q] = at[q] /\ attempt'[q] = attempt[q] /\ attempt[q] \in Attempts
      BY <2>1, <2>2 DEF Shape, Elsewhere, TypeOK
    <3>2. marks'[<<q, attempt[q]>>] = marks[<<q, attempt[q]>>]
      BY <2>1, <2>2, <3>1, Untouched
    <3> QED
      BY <3>1, <3>2 DEF Contents, Cur
  <2> DEFINE t == Cur(r)
  <2>3. /\ Draft(at[r], marks[t]) /\ Content(state[t], marks[t])
        /\ Stands(at[r], state[t]) /\ t \in Txns /\ t = <<r, attempt[r]>>
    BY CurType DEF Contents, Placed, Cur
  <2> HIDE DEF t
  <2>4. /\ Content(state'[t], marks'[t])
        /\ \/ attempt'[r] = attempt[r] /\ Draft(at'[r], marks'[t])
           \/ at'[r] = "start"
    <3>1. CASE Began(r)
      BY <2>3, <3>1 DEF Began, Stands, Draft, Content, t
    <3>2. CASE Wrote(r)
      <4>1. PICK new \in SUBSET {"audit", "truth", "events"}, m \in {"change", "noop"} :
              marks'[t] = marks[t] \cup (new \cup {m})
        BY <3>2 DEF Wrote, t
      <4>2. marks[t] = {} /\ state'[t] = "open"
        BY <2>3, <3>2 DEF Wrote, Draft, Stands, Inside, t
      <4>3. /\ "version" \notin marks'[t]
            /\ ~("noop" \in marks'[t] /\ "change" \in marks'[t])
        BY <4>1, <4>2
      <4> QED
        BY <3>2, <4>2, <4>3 DEF Wrote, Draft, Content, t
    <3>3. CASE RolledBack(r)
      BY <3>3 DEF RolledBack, Repeated, Draft, Content, t
    <3>4. CASE Bumped(r)
      <4>1. "version" \notin marks[t] /\ state'[t] = "open"
        BY <2>3, <3>4 DEF Bumped, Draft, Stands, Inside, t
      <4>2. Coherent(marks'[t])
        BY <3>4, <4>1 DEF Bumped, Coherent, t
      <4>3. ~("noop" \in marks'[t] /\ "change" \in marks'[t])
        BY <2>3, <3>4 DEF Bumped, Content, t
      <4> QED
        BY <3>4, <4>1, <4>2, <4>3 DEF Bumped, Draft, Content, t
    <3>5. CASE Checked(r)
      BY <2>3, <3>5 DEF Checked, Still, Draft, Content, t
    <3>6. CASE Ended(r)
      BY <2>3, <3>6 DEF Ended, Draft, Content, t
    <3>7. CASE Looked(r)
      BY <2>3, <3>7 DEF Looked, Repeated, Still, Draft, Content, t
    <3>8. CASE Died(r)
      BY <2>3, <3>8 DEF Died, Still, Draft, Content, t
    <3> QED
      BY <2>1, <3>1, <3>2, <3>3, <3>4, <3>5, <3>6, <3>7, <3>8 DEF Shape, Move
  <2>5. Draft(at'[r], marks'[<<r, attempt'[r]>>])
    <3>1. CASE attempt'[r] = attempt[r] /\ Draft(at'[r], marks'[t])
      BY <2>3, <3>1
    <3>2. CASE at'[r] = "start"
      BY <3>2 DEF Draft
    <3> QED
      BY <2>4, <3>1, <3>2
  <2>6. ASSUME NEW u \in Txns PROVE Content(state'[u], marks'[u])
    <3>1. CASE u = t
      BY <2>4, <3>1
    <3>2. CASE u # t
      <4>1. state'[u] = state[u] /\ marks'[u] = marks[u]
        BY <2>1, <3>2 DEF Shape, Elsewhere, Still, t
      <4> QED
        BY <4>1 DEF Contents
    <3> QED
      BY <3>1, <3>2
  <2> QED
    BY <2>2, <2>5, <2>6 DEF Contents, Cur
<1>2. CASE \E t \in Txns : Decide(t)
  <2>1. PICK t \in Txns : Decide(t)
    BY <1>2
  <2>2. at' = at /\ attempt' = attempt /\ marks' = marks
    BY <2>1 DEF Decide
  <2>3. \A u \in Txns : \/ state'[u] = state[u]
                        \/ state[u] = "doubt" /\ state'[u] \in {"committed", "aborted"}
    BY <2>1 DEF Decide, TypeOK
  <2>4. ASSUME NEW u \in Txns PROVE Content(state'[u], marks'[u])
    BY <2>2, <2>3 DEF Contents, Content
  <2> QED
    BY <2>2, <2>4 DEF Contents, Cur
<1>3. CASE UNCHANGED vars
  BY <1>3 DEF vars, Contents, Cur
<1> QED
  BY <1>1, <1>2, <1>3, NextShape

LEMMA ContentsHold == Spec => []Contents
<1>1. Init => Contents
  <2> SUFFICES ASSUME Init PROVE Contents
    OBVIOUS
  <2>1. \A t \in Txns : state[t] = "none" /\ marks[t] = {}
    BY DEF Init
  <2>2. \A r \in Requests : at[r] = "start"
    BY DEF Init
  <2> QED
    BY <2>1, <2>2 DEF Contents, Draft, Content
<1>2. TypeOK /\ Placed /\ Contents /\ [Next]_vars => Contents'
  BY ContentsStep
<1> QED
  BY <1>1, <1>2, Grounded, PTL DEF Spec

\* No change commits without the audit record of its own attempt.
THEOREM ChangesAreAudited == Spec => []CommittedIsAudited
<1>1. Contents => CommittedIsAudited
  BY DEF Contents, Content, CommittedIsAudited, Committed, Acceptable
<1> QED
  BY <1>1, ContentsHold, PTL

\* The security version commits with the truth it stands for.
THEOREM VersionsFollow == Spec => []VersionFollowsTruth
<1>1. Contents => VersionFollowsTruth
  BY DEF Contents, Content, Coherent, VersionFollowsTruth, Committed
<1> QED
  BY <1>1, ContentsHold, PTL

-----------------------------------------------------------------------------
(* What the caller is told.                                                *)

\* Without an unknown commit result, only a successful execution has changed
\* anything; and only who met one waits for the look-up.
Undoubted ==
  \A r \in Requests \ doubted :
    /\ at[r] # "doubt"
    /\ \A i \in Attempts : /\ state[<<r, i>>] # "doubt"
                           /\ state[<<r, i>>] = "committed" => at[r] = "ok"

LEMMA UndoubtedStep ==
  ASSUME TypeOK, Placed, Undoubted, [Next]_vars
  PROVE  Undoubted'
<1>1. CASE \E r \in Requests : Shape(r)
  <2>1. PICK r \in Requests : Shape(r)
    BY <1>1
  <2>2. doubted \subseteq doubted'
    BY <2>1 DEF Shape, Move, Began, Wrote, RolledBack, Bumped, Checked, Ended, Looked,
       Died, history
  <2>3. ASSUME NEW q \in Requests \ doubted', q # r
        PROVE  /\ at'[q] # "doubt"
               /\ \A i \in Attempts : /\ state'[<<q, i>>] # "doubt"
                                      /\ state'[<<q, i>>] = "committed" => at'[q] = "ok"
    <3>1. at'[q] = at[q]
      BY <2>1, <2>3 DEF Shape, Elsewhere
    <3>2. \A i \in Attempts : state'[<<q, i>>] = state[<<q, i>>]
      BY <2>1, <2>3, Untouched
    <3> QED
      BY <2>2, <2>3, <3>1, <3>2 DEF Undoubted
  <2>4. ASSUME r \notin doubted'
        PROVE  /\ at'[r] # "doubt"
               /\ \A i \in Attempts : /\ state'[<<r, i>>] # "doubt"
                                      /\ state'[<<r, i>>] = "committed" => at'[r] = "ok"
    <3>1. r \notin doubted /\ at[r] # "doubt"
      BY <2>2, <2>4 DEF Undoubted
    <3>2. at[r] # "ok"
      BY <2>1 DEF Shape, Move, Began, Wrote, RolledBack, Bumped, Checked, Ended, Looked,
         Died, Inside, Answered
    <3>3. \A i \in Attempts : i # attempt[r] => state'[<<r, i>>] = state[<<r, i>>]
      BY <2>1, Untouched
    <3>4. \A i \in Attempts : state[<<r, i>>] \notin {"doubt", "committed"}
      BY <3>1, <3>2 DEF Undoubted
    <3>5. /\ at'[r] # "doubt" /\ state'[Cur(r)] # "doubt"
          /\ state'[Cur(r)] = "committed" => at'[r] = "ok"
      <4>1. state[Cur(r)] \notin {"doubt", "committed"}
        BY <3>4, CurType DEF Cur
      <4> QED
        BY <2>1, <2>4, <3>1, <4>1 DEF Shape, Move, Began, Wrote, RolledBack, Repeated,
           Bumped, Checked, Ended, Looked, Died, Still
    <3>6. Cur(r) = <<r, attempt[r]>>
      BY DEF Cur
    <3> QED
      BY <3>3, <3>4, <3>5, <3>6
  <2> QED
    BY <2>3, <2>4 DEF Undoubted
<1>2. CASE \E t \in Txns : Decide(t)
  <2>1. PICK t \in Txns : Decide(t)
    BY <1>2
  <2>2. at' = at /\ doubted' = doubted
    BY <2>1 DEF Decide, history
  <2>3. \A u \in Txns : state'[u] = state[u] \/ state[u] = "doubt"
    BY <2>1 DEF Decide, TypeOK
  <2> QED
    BY <2>2, <2>3, CurType DEF Undoubted
<1>3. CASE UNCHANGED vars
  BY <1>3 DEF vars, history, Undoubted
<1> QED
  BY <1>1, <1>2, <1>3, NextShape

\* An execution that throws has changed nothing, unless a commit went
\* unanswered.
THEOREM FailuresAreClean == Spec => []FailureLeavesNothing
<1>1. Init => Undoubted
  BY DEF Init, Undoubted, Txns, Attempts
<1>2. TypeOK /\ Placed /\ Undoubted /\ [Next]_vars => Undoubted'
  BY UndoubtedStep
<1>3. Undoubted => FailureLeavesNothing
  <2> SUFFICES ASSUME Undoubted, NEW r \in Requests \ doubted, at[r] = "failed",
                      NEW t \in Txns, state[t] = "committed", t[1] = r
               PROVE  FALSE
    BY DEF FailureLeavesNothing, Committed
  <2>1. t = <<r, t[2]>> /\ t[2] \in Attempts
    BY DEF Txns
  <2> QED
    BY <2>1 DEF Undoubted
<1> QED
  BY <1>1, <1>2, <1>3, Grounded, PTL DEF Spec

LEMMA SuccessStep ==
  ASSUME ~Failover, TypeOK, Placed, SuccessIsCommitted, [Next]_vars
  PROVE  SuccessIsCommitted'
<1> SUFFICES ASSUME NEW q \in Requests, at'[q] = "ok"
             PROVE  /\ <<q, attempt'[q]>> \in Txns
                    /\ state'[<<q, attempt'[q]>>] = "committed"
  BY DEF SuccessIsCommitted, Committed, Cur
<1>0. at[q] = "ok" => state[<<q, attempt[q]>>] = "committed"
  BY DEF SuccessIsCommitted, Committed, Cur
<1>1. CASE \E r \in Requests : Shape(r)
  <2>1. PICK r \in Requests : Shape(r)
    BY <1>1
  <2>2. CASE q # r
    <3>1. at'[q] = at[q] /\ attempt'[q] = attempt[q] /\ attempt[q] \in Attempts
      BY <2>1, <2>2 DEF Shape, Elsewhere, TypeOK
    <3>2. <<q, attempt[q]>> \in Txns /\ state'[<<q, attempt[q]>>] = state[<<q, attempt[q]>>]
      BY <2>1, <2>2, <3>1, Untouched
    <3> QED
      BY <1>0, <3>1, <3>2
  <2>3. CASE q = r
    <3>1. attempt'[r] = attempt[r] /\ state'[Cur(r)] = "committed"
      BY <2>1, <2>3 DEF Shape, Move, Began, Wrote, RolledBack, Repeated, Bumped, Checked,
         Ended, Looked, Observable, Died, Still
    <3> QED
      BY <2>3, <3>1, CurType DEF Cur
  <2> QED
    BY <2>2, <2>3
<1>2. CASE \E t \in Txns : Decide(t)
  <2>1. PICK t \in Txns : Decide(t)
    BY <1>2
  <2>2. at' = at /\ attempt' = attempt
    BY <2>1 DEF Decide
  <2>3. \A u \in Txns : state'[u] = state[u] \/ state[u] = "doubt"
    BY <2>1 DEF Decide, TypeOK
  <2> QED
    BY <1>0, <2>2, <2>3, CurType
<1>3. CASE UNCHANGED vars
  BY <1>0, <1>3, CurType DEF vars
<1> QED
  BY <1>1, <1>2, <1>3, NextShape

\* As long as no look-up is undone by a failover, an execution that returns
\* is in the database.
THEOREM SuccessesAreCommitted ==
  ASSUME ~Failover PROVE Spec => []SuccessIsCommitted
<1>1. Init => SuccessIsCommitted
  BY DEF Init, SuccessIsCommitted
<1>2. TypeOK /\ Placed /\ SuccessIsCommitted /\ [Next]_vars => SuccessIsCommitted'
  BY SuccessStep
<1> QED
  BY <1>1, <1>2, Grounded, PTL DEF Spec

\* What executeAuthorized tells its caller is what has happened: a result means
\* a commit, and an error means that nothing was changed, unless a commit result
\* was unknown.
THEOREM AnswersAreTrue ==
  ASSUME ~Failover PROVE Spec => []AnswerIsTrue
<1>1. FailureLeavesNothing /\ SuccessIsCommitted => AnswerIsTrue
  BY DEF AnswerIsTrue
<1> QED
  BY <1>1, FailuresAreClean, SuccessesAreCommitted, PTL

-----------------------------------------------------------------------------
(* What the retries leave behind.                                          *)

\* An earlier attempt took effect, or still may, only if it was repeated while
\* its commit was in doubt.
Superseded ==
  \A r \in Requests, i \in Attempts :
    i < attempt[r] /\ state[<<r, i>>] \in {"doubt", "committed"}
    => <<r, i>> \in abandoned

LEMMA SupersededStep ==
  ASSUME TypeOK, Placed, Superseded, [Next]_vars
  PROVE  Superseded'
<1> SUFFICES ASSUME NEW q \in Requests, NEW i \in Attempts, i < attempt'[q],
                    state'[<<q, i>>] \in {"doubt", "committed"}
             PROVE  <<q, i>> \in abandoned'
  BY DEF Superseded
<1>1. CASE \E r \in Requests : Shape(r)
  <2>1. PICK r \in Requests : Shape(r)
    BY <1>1
  <2>2. abandoned \subseteq abandoned'
    BY <2>1 DEF Shape, Move, Began, Wrote, RolledBack, Bumped, Checked, Ended, Looked,
       Died, history
  <2>3. attempt'[r] \in {attempt[r], attempt[r] + 1} /\ attempt[r] \in Nat /\ i \in Nat
    BY <2>1, CurType DEF Shape, Move, Began, Wrote, RolledBack, Repeated, Bumped, Checked,
       Ended, Looked, Died, Attempts
  <2>4. CASE q # r \/ i # attempt[r]
    <3>1. state'[<<q, i>>] = state[<<q, i>>]
      BY <2>1, <2>4, Untouched
    <3>2. i < attempt[q]
      BY <2>1, <2>3, <2>4 DEF Shape, Elsewhere
    <3> QED
      BY <2>2, <3>1, <3>2 DEF Superseded
  <2>5. CASE q = r /\ i = attempt[r]
    <3>1. attempt'[r] = attempt[r] + 1 /\ Cur(r) = <<q, i>>
      BY <2>3, <2>5 DEF Cur
    <3>2. attempt'[r] # attempt[r]
      BY <2>3, <3>1
    <3>3. CASE RolledBack(r)
      BY <3>1, <3>3 DEF RolledBack
    <3>4. CASE Looked(r)
      <4>1. state[Cur(r)] \in {"doubt", "aborted"}
        BY <3>2, <3>4 DEF Looked, Placed, Stands
      <4> QED
        BY <3>1, <3>2, <3>4, <4>1 DEF Looked, Still
    <3> QED
      BY <2>1, <3>2, <3>3, <3>4 DEF Shape, Move, Began, Wrote, Bumped, Checked, Ended, Died
  <2> QED
    BY <2>4, <2>5
<1>2. CASE \E t \in Txns : Decide(t)
  <2>1. PICK t \in Txns : Decide(t)
    BY <1>2
  <2>2. attempt' = attempt /\ abandoned' = abandoned
    BY <2>1 DEF Decide, history
  <2>3. \A u \in Txns : state'[u] = state[u] \/ state[u] = "doubt"
    BY <2>1 DEF Decide, TypeOK
  <2> QED
    BY <2>2, <2>3, CurType DEF Superseded
<1>3. CASE UNCHANGED vars
  BY <1>3 DEF vars, history, Superseded
<1> QED
  BY <1>1, <1>2, <1>3, NextShape

\* A change is applied twice only by a commit that arrives after the look-up.
THEOREM RepeatedWhenLate == Spec => []RepeatedOnlyIfLate
<1>1. Init => Superseded
  BY DEF Init, Superseded, Txns, Attempts
<1>2. TypeOK /\ Placed /\ Superseded /\ [Next]_vars => Superseded'
  BY SupersededStep
<1>3. TypeOK /\ Placed /\ Superseded => RepeatedOnlyIfLate
  <2> SUFFICES ASSUME TypeOK, Placed, Superseded, NEW t \in Txns, state[t] = "committed",
                      t # Cur(t[1])
               PROVE  t \in abandoned
    BY DEF RepeatedOnlyIfLate, Committed
  <2> DEFINE r == t[1]
             i == t[2]
  <2>1. t = <<r, i>> /\ r \in Requests /\ i \in Attempts
    BY DEF Txns
  <2> HIDE DEF r, i
  <2>2. i # attempt[r] /\ attempt[r] \in Nat /\ i \in Nat
    <3>1. <<r, i>> # Cur(r)
      BY <2>1 DEF r
    <3> QED
      BY <2>1, <3>1, CurType DEF Attempts
  <2>3. ~(i > attempt[r])
    BY <2>1 DEF Placed
  <2>4. i < attempt[r]
    BY <2>2, <2>3
  <2> QED
    BY <2>1, <2>4 DEF Superseded
<1> QED
  BY <1>1, <1>2, <1>3, Grounded, PTL DEF Spec

\* Of the transactions that hold or have made a change of one document from
\* one state, there is one.
Active == {"open", "doubt", "committed"}

Exclusive ==
  \A t, u \in Txns :
    /\ state[t] \in Active /\ state[u] \in Active
    /\ u \in Rivals(t) /\ t \in Rivals(u)
    => t = u

\* Rivals, spelled out.
LEMMA RivalsOf ==
  ASSUME NEW t \in Txns, NEW u \in Txns
  PROVE  u \in Rivals(t) <=> /\ t[1] \in Guarded /\ u[1] \in Guarded
                             /\ Key[t[1]] = Key[u[1]] /\ "change" \in marks[u]
  BY DEF Rivals

\* A new rival can only be the transaction that has just written.
LEMMA NewRival ==
  ASSUME TypeOK, Placed, Contents, NEW r \in Requests, Shape(r), NEW u \in Txns,
         "change" \in marks'[u], state'[u] \in Active
  PROVE  \/ "change" \in marks[u] /\ state[u] \in Active
         \/ /\ u = Cur(r) /\ GuardHolds(Cur(r)) /\ ~DocumentConflict(Cur(r))
<1>1. CASE u # Cur(r)
  BY <1>1 DEF Shape, Elsewhere, Still
<1>2. CASE u = Cur(r)
  <2>1. /\ Stands(at[r], state[u]) /\ Content(state[u], marks[u])
    BY <1>2 DEF Placed, Contents
  <2>2. CASE Wrote(r)
    <3>1. PICK new \in SUBSET {"audit", "truth", "events"} :
            \/ /\ GuardHolds(Cur(r)) /\ ~DocumentConflict(Cur(r))
               /\ marks'[Cur(r)] = marks[Cur(r)] \cup (new \cup {"change"})
            \/ marks'[Cur(r)] = marks[Cur(r)] \cup (new \cup {"noop"})
      BY <2>2 DEF Wrote
    <3>2. state[u] \in Active
      BY <1>2, <2>2 DEF Wrote
    <3> QED
      BY <1>2, <3>1, <3>2
  <2>3. CASE Began(r)
    BY <1>2, <2>1, <2>3 DEF Began, Stands, Content
  <2>4. CASE Looked(r) \/ Died(r)
    BY <1>2, <2>4 DEF Looked, Died, Still
  <2>5. CASE RolledBack(r) \/ Bumped(r) \/ Checked(r) \/ Ended(r)
    BY <1>2, <2>1, <2>5 DEF RolledBack, Bumped, Checked, Ended, Still, Stands, Inside,
       Active
  <2> QED
    BY <2>2, <2>3, <2>4, <2>5 DEF Shape, Move
<1> QED
  BY <1>1, <1>2

\* A change is written only when no rival holds one.
LEMMA WriterIsAlone ==
  ASSUME NEW t \in Txns, GuardHolds(t), ~DocumentConflict(t),
         NEW u \in Rivals(t), state[u] \in Active, u \in Txns
  PROVE  u = t
  BY DEF GuardHolds, DocumentConflict, Unseen, Active

LEMMA ExclusiveStep ==
  ASSUME TypeOK, Placed, Contents, Exclusive, [Next]_vars
  PROVE  Exclusive'
<1> SUFFICES ASSUME NEW t \in Txns, NEW u \in Txns,
                    state'[t] \in Active, state'[u] \in Active,
                    t[1] \in Guarded, u[1] \in Guarded, Key[t[1]] = Key[u[1]],
                    "change" \in marks'[t], "change" \in marks'[u]
             PROVE  t = u
  BY DEF Exclusive, Rivals
<1>1. CASE \E r \in Requests : Shape(r)
  <2>1. PICK r \in Requests : Shape(r)
    BY <1>1
  <2>2. CASE /\ "change" \in marks[t] /\ state[t] \in Active
             /\ "change" \in marks[u] /\ state[u] \in Active
    BY <2>2, RivalsOf DEF Exclusive
  <2>3. CASE /\ "change" \in marks[t] /\ state[t] \in Active
             /\ u = Cur(r) /\ GuardHolds(u) /\ ~DocumentConflict(u)
    BY <2>3, RivalsOf, WriterIsAlone
  <2>4. CASE /\ "change" \in marks[u] /\ state[u] \in Active
             /\ t = Cur(r) /\ GuardHolds(t) /\ ~DocumentConflict(t)
    BY <2>4, RivalsOf, WriterIsAlone
  <2> QED
    BY <2>1, <2>2, <2>3, <2>4, NewRival
<1>2. CASE \E v \in Txns : Decide(v)
  <2>1. PICK v \in Txns : Decide(v)
    BY <1>2
  <2>2. marks' = marks /\ \A w \in Txns : state'[w] = state[w] \/ state[w] = "doubt"
    BY <2>1 DEF Decide, TypeOK
  <2>3. state[t] \in Active /\ state[u] \in Active
    BY <2>2 DEF Active
  <2> QED
    BY <2>2, <2>3, RivalsOf DEF Exclusive
<1>3. CASE UNCHANGED vars
  BY <1>3, RivalsOf DEF vars, Exclusive
<1> QED
  BY <1>1, <1>2, <1>3, NextShape

\* Of two changes that require the same earlier state one commits, however
\* often both are retried.
THEOREM OneChangeWins == Spec => []OneWinner
<1>1. Init => Exclusive
  BY DEF Init, Exclusive, Active
<1>2. TypeOK /\ Placed /\ Contents /\ Exclusive /\ [Next]_vars => Exclusive'
  BY ExclusiveStep
<1>3. Exclusive => OneWinner
  BY DEF Exclusive, OneWinner, Committed, Active
<1> QED
  BY <1>1, <1>2, <1>3, Grounded, ContentsHold, PTL DEF Spec
=============================================================================
