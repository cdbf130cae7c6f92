--------------------------- MODULE MutationBridge ---------------------------
(***************************************************************************)
(* MongoAuthoritativeAdminMutationBridge: every authoritative change runs  *)
(* a callback in a MongoDB transaction together with its audit record, the *)
(* bump of the auth security version and its outbox events, and retries    *)
(* the whole transaction, callback included, after a transient error or an *)
(* unknown commit result.                                                  *)
(*                                                                         *)
(* MongoDB is modelled by what the bridge relies on: a transaction reads   *)
(* the snapshot of its start, a write to a document that was written since *)
(* or is being written fails with a transient error, and a commit without  *)
(* an answer may still take effect, or not, at any later time.             *)
(***************************************************************************)
EXTENDS Naturals

CONSTANTS
  Requests,      \* executions of the bridge
  Guarded,       \* those whose callback compares the document's state first
  Key,           \* [Requests -> documents]: what the callback writes
  MaxAttempts,   \* MAX_TRANSACTION_ATTEMPTS
  Failover       \* whether what a look-up saw may still be rolled back

ASSUME BridgeAssumption ==
  /\ Guarded \subseteq Requests
  /\ MaxAttempts \in Nat \ {0}
  /\ Failover \in BOOLEAN

VARIABLES
  at,         \* where each execution is
  attempt,    \* its current attempt
  state,      \* the state of each attempt's transaction
  marks,      \* what each transaction has written or declared
  seen,       \* the snapshot of an open transaction: what had committed
  doubted,    \* history: executions that met an unknown commit result
  abandoned   \* history: attempts repeated while their commit was in doubt

history == <<doubted, abandoned>>
vars == <<at, attempt, state, marks, seen, doubted, abandoned>>

Attempts == 1..MaxAttempts
Txns == Requests \X Attempts

\* "change": the callback's write.  "audit": the audit record with the proof
\* of this attempt.  "truth": markAuthSecurityTruthChanged was called.
\* "version": the bridge wrote the version document.  "noop":
\* markExplicitNoOpSuccess was called.
Marks == {"change", "audit", "truth", "events", "noop", "version"}

Locations == {"start", "mutate", "bump", "check", "commit", "doubt",
              "ok", "failed", "dead"}
Answered == {"ok", "failed", "dead"}
States == {"none", "open", "aborted", "doubt", "committed"}

Cur(r) == <<r, attempt[r]>>
Committed == {t \in Txns : state[t] = "committed"}

Init ==
  /\ at = [r \in Requests |-> "start"]
  /\ attempt = [r \in Requests |-> 1]
  /\ state = [t \in Txns |-> "none"]
  /\ marks = [t \in Txns |-> {}]
  /\ seen = [t \in Txns |-> {}]
  /\ doubted = {}
  /\ abandoned = {}

-----------------------------------------------------------------------------
(* The database.                                                           *)

Goto(r, l) == at' = [at EXCEPT ![r] = l]
UnchangedDb == UNCHANGED <<state, marks, seen>>

Begin(t) ==
  /\ state' = [state EXCEPT ![t] = "open"]
  /\ seen' = [seen EXCEPT ![t] = Committed]
  /\ UNCHANGED marks

Write(t, new) ==
  /\ marks' = [marks EXCEPT ![t] = @ \cup new]
  /\ UNCHANGED <<state, seen>>

\* The snapshot of t ends; t leaves its writes, or nothing.
End(t, s) ==
  /\ state' = [state EXCEPT ![t] = s]
  /\ marks' = IF s = "aborted" THEN [marks EXCEPT ![t] = {}] ELSE marks
  /\ seen' = [seen EXCEPT ![t] = {}]

\* What holds a document, or changed it after t's snapshot was taken.
Unseen(t) ==
  {u \in Txns \ (seen[t] \cup {t}) : state[u] \in {"open", "doubt", "committed"}}

\* The transactions that moved t's document out of the state that t expects.
Rivals(t) ==
  {u \in Txns : /\ t[1] \in Guarded /\ u[1] \in Guarded /\ Key[t[1]] = Key[u[1]]
                /\ "change" \in marks[u]}

DocumentConflict(t) == Unseen(t) \cap Rivals(t) # {}
VersionConflict(t) == \E u \in Unseen(t) : "version" \in marks[u]

\* Faulty variant: the callback does not compare the state it read.
GuardIgnored(t) == TRUE

\* The state the callback compares is the one expected, in t's snapshot.
GuardHolds(t) == seen[t] \cap Rivals(t) = {}

-----------------------------------------------------------------------------
(* The catch clause.                                                       *)

\* Faulty variant: one attempt too many.
AttemptLeftAlways(r) == attempt[r] <= MaxAttempts

AttemptLeft(r) == attempt[r] < MaxAttempts

\* Faulty variant: repeated attempts are not counted.
AgainUncounted(r) == Goto(r, "start") /\ UNCHANGED attempt

Again(r) ==
  \/ AttemptLeft(r) /\ attempt' = [attempt EXCEPT ![r] = @ + 1] /\ Goto(r, "start")
  \/ ~AttemptLeft(r) /\ UNCHANGED attempt /\ Goto(r, "failed")

\* A transient error: abort, and repeat while attempts are left.
TransientError(r) ==
  /\ End(Cur(r), "aborted")
  /\ Again(r)
  /\ UNCHANGED history

\* Any other error: abort and rethrow.
Fail(r) ==
  /\ End(Cur(r), "aborted")
  /\ Goto(r, "failed")
  /\ UNCHANGED <<attempt, history>>

-----------------------------------------------------------------------------
(* One attempt.                                                            *)

StartTransaction(r) ==
  /\ at[r] = "start"
  /\ Begin(Cur(r))
  /\ Goto(r, "mutate")
  /\ UNCHANGED <<attempt, history>>

\* The callback finds the state it expects and writes, leaving any of its
\* marks; or it answers that there is nothing to do; or it throws.
Mutate(r) ==
  LET t == Cur(r) IN
  /\ at[r] = "mutate"
  /\ \/ /\ \/ /\ GuardHolds(t) /\ ~DocumentConflict(t)
              /\ \E new \in SUBSET {"audit", "truth", "events"} :
                   Write(t, new \cup {"change"})
           \/ \E new \in SUBSET {"truth", "events"} : Write(t, new \cup {"noop"})
        /\ Goto(r, "bump")
        /\ UNCHANGED <<attempt, history>>
     \/ TransientError(r)
     \/ Fail(r)

\* Faulty variant: only a change that emits events bumps the version.
BumpIfEvents(r) ==
  /\ at[r] = "bump"
  /\ IF {"truth", "events"} \subseteq marks[Cur(r)]
     THEN ~VersionConflict(Cur(r)) /\ Write(Cur(r), {"version"})
     ELSE UnchangedDb
  /\ Goto(r, "check")
  /\ UNCHANGED <<attempt, history>>

BumpVersion(r) ==
  LET t == Cur(r) IN
  /\ at[r] = "bump"
  /\ \/ {"noop", "truth"} \subseteq marks[t] /\ Fail(r)
     \/ /\ "truth" \notin marks[t]
        /\ UnchangedDb
        /\ Goto(r, "check")
        /\ UNCHANGED <<attempt, history>>
     \/ /\ "truth" \in marks[t] /\ "noop" \notin marks[t]
        /\ \/ /\ ~VersionConflict(t)
              /\ Write(t, {"version"})
              /\ Goto(r, "check")
              /\ UNCHANGED <<attempt, history>>
           \/ TransientError(r)

\* Faulty variant: an audit record is not asked for when there are events.
AcceptableIfEvents(m) ==
  IF "noop" \in m THEN "events" \notin m ELSE "audit" \in m \/ "events" \in m

Acceptable(m) ==
  IF "noop" \in m THEN "events" \notin m ELSE "audit" \in m

\* Faulty variant: the audit record is looked for after the commit.
CheckTooLate(r) ==
  /\ at[r] = "check"
  /\ IF Acceptable(marks[Cur(r)])
     THEN UnchangedDb /\ Goto(r, "commit")
     ELSE End(Cur(r), "committed") /\ Goto(r, "failed")
  /\ UNCHANGED <<attempt, history>>

\* The drained events, the audit proof of this attempt, the outbox insert.
Check(r) ==
  /\ at[r] = "check"
  /\ \/ /\ Acceptable(marks[Cur(r)])
        /\ UnchangedDb
        /\ Goto(r, "commit")
        /\ UNCHANGED <<attempt, history>>
     \/ Acceptable(marks[Cur(r)]) /\ TransientError(r)
     \/ ~Acceptable(marks[Cur(r)]) /\ Fail(r)

\* The commit succeeds, fails, or ends without an answer.
Commit(r) ==
  /\ at[r] = "commit"
  /\ \/ /\ End(Cur(r), "committed")
        /\ Goto(r, "ok")
        /\ UNCHANGED <<attempt, history>>
     \/ TransientError(r)
     \/ /\ End(Cur(r), "doubt")
        /\ doubted' = doubted \cup {r}
        /\ Goto(r, "doubt")
        /\ UNCHANGED <<attempt, abandoned>>

\* Faulty variant: repeat without looking.
VerifyBlindly(r) ==
  /\ at[r] = "doubt"
  /\ Again(r)
  /\ abandoned' = IF state[Cur(r)] = "doubt" THEN abandoned \cup {Cur(r)} ELSE abandoned
  /\ UNCHANGED doubted /\ UnchangedDb

\* Faulty variant: a negative answer is taken for a positive one.
VerifyOptimistic(r) ==
  /\ at[r] = "doubt"
  /\ Goto(r, "ok")
  /\ UNCHANGED <<attempt, history>> /\ UnchangedDb

\* The look-up reads the primary without a majority read concern.
Observable(t) == state[t] = "committed" \/ (Failover /\ state[t] = "doubt")

\* The commit result is unknown: containsAll looks for the attempt's events.
Verify(r) ==
  LET t == Cur(r) IN
  /\ at[r] = "doubt"
  /\ \/ /\ "events" \in marks[t] /\ Observable(t)
        /\ Goto(r, "ok")
        /\ UNCHANGED <<attempt, abandoned>>
     \/ /\ "events" \in marks[t] /\ state[t] # "committed"
        /\ Again(r)
        /\ abandoned' = IF state[t] = "doubt" THEN abandoned \cup {t} ELSE abandoned
     \/ /\ Goto(r, "failed")      \* no events to look for, or no answer
        /\ UNCHANGED <<attempt, abandoned>>
  /\ UNCHANGED doubted /\ UnchangedDb

-----------------------------------------------------------------------------
(* The server and the process.                                             *)

\* A commit in doubt takes effect or is given up.
Decide(t) ==
  /\ state[t] = "doubt"
  /\ \E s \in {"committed", "aborted"} : state' = [state EXCEPT ![t] = s]
  /\ UNCHANGED <<at, attempt, marks, seen, history>>

\* The process dies; the server aborts what it left open.
Die(r) ==
  /\ at[r] \notin Answered
  /\ Goto(r, "dead")
  /\ IF state[Cur(r)] = "open" THEN End(Cur(r), "aborted") ELSE UnchangedDb
  /\ UNCHANGED <<attempt, history>>

Execute(r) ==
  \/ StartTransaction(r) \/ Mutate(r) \/ BumpVersion(r) \/ Check(r)
  \/ Commit(r) \/ Verify(r)

Next ==
  \/ \E r \in Requests : Execute(r) \/ Die(r)
  \/ \E t \in Txns : Decide(t)

Spec == Init /\ [][Next]_vars

\* The event loop of a live process runs on.
FairSpec == Spec /\ \A r \in Requests : WF_vars(Execute(r))

-----------------------------------------------------------------------------
\* Every execution and every transaction is well formed.
TypeOK ==
  /\ at \in [Requests -> Locations]
  /\ attempt \in [Requests -> Attempts]
  /\ state \in [Txns -> States]
  /\ marks \in [Txns -> SUBSET Marks]
  /\ seen \in [Txns -> SUBSET Txns]
  /\ doubted \subseteq Requests
  /\ abandoned \subseteq Txns

\* assertAudited: no change becomes visible without the audit record of the
\* very attempt that made it, whatever the callback does or forgets.  (One
\* that declares itself a no-op is trusted to have written nothing.)
CommittedIsAudited ==
  \A t \in Committed : "change" \in marks[t] => "audit" \in marks[t]

\* bumpAuthSecurityVersionInTransaction: the security version changes in the
\* same commit as the truth it stands for, and only then.
VersionFollowsTruth ==
  \A t \in Committed : "truth" \in marks[t] <=> "version" \in marks[t]

\* Two changes of one document, or a change and its own repetition, that
\* require the same earlier state: at most one commits, retries included.
OneWinner ==
  \A t, u \in Committed : u \in Rivals(t) /\ t \in Rivals(u) => t = u

\* executeAuthorized returns a result only when the last attempt is in the
\* database.  (A look-up that sees what a failover rolls back breaks this;
\* runs with Failover do not check it.)
SuccessIsCommitted ==
  \A r \in Requests : at[r] = "ok" => Cur(r) \in Committed

\* executeAuthorized throws only when nothing was changed by any attempt,
\* unless a commit result was unknown.
FailureLeavesNothing ==
  \A r \in Requests \ doubted : at[r] = "failed" =>
    \A t \in Committed : t[1] # r

\* What the caller is told is what has happened: a result means a commit, and an
\* error means none, except under the doubts above.
AnswerIsTrue == SuccessIsCommitted /\ FailureLeavesNothing

\* An attempt that took effect is repeated only if it did so after its events
\* had been looked for in vain: this is the one way to apply a change twice.
RepeatedOnlyIfLate ==
  \A t \in Committed : t = Cur(t[1]) \/ t \in abandoned

\* Every execution of the bridge ends: the retries are bounded.
EveryRequestAnswered ==
  \A r \in Requests : <>(at[r] \in Answered)
=============================================================================
