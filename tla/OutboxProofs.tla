---------------------------- MODULE OutboxProofs ----------------------------
(***************************************************************************)
(* Proofs about Outbox, for every set of events and workers and every      *)
(* value of the bounds.                                                    *)
(***************************************************************************)
EXTENDS Outbox, TLAPS

USE OutboxAssumption

\* Claiming a record changes that record only, and how.
LEMMA ClaimedShape ==
  ASSUME TypeOK, NEW w \in Workers, NEW e \in Events
  PROVE  /\ Claimed(w, e) \in [Events -> Records]
         /\ Claimed(w, e)[e].status = "PROCESSING"
         /\ Claimed(w, e)[e].lockedBy = WorkerId[w]
         /\ Claimed(w, e)[e].attempts = rec[e].attempts
         /\ \A f \in Events : f # e => Claimed(w, e)[f] = rec[f]
  BY DEF TypeOK, Claimed, Records, Statuses, OutboxAssumption

\* Settling a record ends its lease.
LEMMA SettledShape ==
  ASSUME TypeOK, NEW e \in Events, NEW s \in Statuses, NEW n \in Nat, NEW d \in Nat
  PROVE  /\ Settled(e, s, n, d) \in [Events -> Records]
         /\ Settled(e, s, n, d)[e].status = s
         /\ Settled(e, s, n, d)[e].attempts = rec[e].attempts + n
         /\ \A f \in Events : f # e => Settled(e, s, n, d)[f] = rec[f]
  BY DEF TypeOK, Settled, Records, Statuses, OutboxAssumption

\* A delay is a number.
LEMMA BackoffType == ASSUME NEW n \in Nat PROVE Backoff(n) \subseteq Nat
  BY DEF Backoff, OutboxAssumption

\* Time changes nothing but the two timers.
LEMMA OlderShape ==
  ASSUME NEW r \in Records
  PROVE  /\ Older(r) \in Records
         /\ Older(r).status = r.status
         /\ Older(r).attempts = r.attempts
         /\ Older(r).lockedBy = r.lockedBy
  BY DEF Older, Records, OutboxAssumption

\* Moving one worker's program counter leaves the others where they are.
LEMMA GotoShape ==
  ASSUME TypeOK, NEW w \in Workers, NEW at \in Locations, Goto(w, at)
  PROVE  /\ proc' \in [Workers -> Pollers]
         /\ proc'[w].at = at
         /\ proc'[w].event = proc[w].event
         /\ proc'[w].seen = proc[w].seen
         /\ proc'[w].taken = proc[w].taken
         /\ \A v \in Workers : v # w => proc'[v] = proc[v]
  BY DEF Goto, At, TypeOK, Pollers

\* So does starting or stopping it.
LEMMA FreshShape ==
  ASSUME TypeOK, NEW w \in Workers, NEW at \in Locations,
         proc' = [proc EXCEPT ![w] = Fresh(at)]
  PROVE  /\ proc' \in [Workers -> Pollers]
         /\ proc'[w].at = at
         /\ proc'[w].taken = 0
         /\ \A v \in Workers : v # w => proc'[v] = proc[v]
  BY DEF Fresh, TypeOK, Pollers, OutboxAssumption

\* A busy worker has an event.
LEMMA BusyShape ==
  ASSUME TypeOK, NEW w \in Workers, proc[w].at \in Busy
  PROVE  proc[w].event \in Events /\ proc[w].seen \in Nat
<1>1. proc[w] \in Pollers /\ proc[w].event \in Events
  BY DEF TypeOK
<1> QED
  BY <1>1 DEF Pollers

-----------------------------------------------------------------------------
(* Type correctness.                                                       *)

\* The initial state is well formed.
LEMMA InitType == Init => TypeOK
<1> SUFFICES ASSUME Init PROVE TypeOK
  OBVIOUS
<1>1. rec \in [Events -> Records]
  <2>1. Unclaimed("ABSENT") \in Records
    BY DEF Unclaimed, Records, Statuses, OutboxAssumption
  <2> QED
    BY <2>1 DEF Init
<1>2. proc \in [Workers -> Pollers]
  <2>1. Fresh("down") \in Pollers
    BY DEF Fresh, Pollers, Locations, OutboxAssumption
  <2> QED
    BY <2>1 DEF Init, Stopped
<1>3. \A w \in Workers : proc[w].at \in Busy => proc[w].event \in Events
  BY DEF Init, Stopped, Fresh, Busy, Holding
<1>4. crashCount \in 0..CrashThreshold /\ faults \in 0..MaxFaults
  BY DEF Init, OutboxAssumption
<1>5. quarantined \in BOOLEAN
  BY DEF Init
<1>6. acked \in [Events -> BOOLEAN]
  BY DEF Init
<1>7. holder \in [Events -> Workers \cup {NoWorker}]
  BY DEF Init
<1>8. late \in [Workers -> Nat]
  BY DEF Init
<1> QED
  BY <1>1, <1>2, <1>3, <1>4, <1>5, <1>6, <1>7, <1>8 DEF TypeOK

\* A step that only moves one worker and writes well-formed records.
LEMMA LocalStep ==
  ASSUME TypeOK, NEW w \in Workers, NEW at \in Locations, Goto(w, at),
         at \in Busy => proc[w].event \in Events,
         rec' \in [Events -> Records], faults' \in 0..MaxFaults,
         UNCHANGED <<redis, history>>
  PROVE  TypeOK'
<1>1. proc' \in [Workers -> Pollers]
  BY GotoShape
<1>2. \A v \in Workers : proc'[v].at \in Busy => proc'[v].event \in Events
  BY GotoShape DEF TypeOK
<1> QED
  BY <1>1, <1>2 DEF TypeOK, redis, history

\* A step that starts or stops one worker.
LEMMA FreshStep ==
  ASSUME TypeOK, NEW w \in Workers, NEW at \in Locations \ Busy,
         proc' = [proc EXCEPT ![w] = Fresh(at)],
         crashCount' \in 0..CrashThreshold, quarantined' \in BOOLEAN,
         faults' \in 0..MaxFaults, UNCHANGED <<rec, history>>
  PROVE  TypeOK'
<1>1. /\ proc' \in [Workers -> Pollers] /\ proc'[w].at = at
      /\ \A v \in Workers : v # w => proc'[v] = proc[v]
  BY FreshShape
<1>2. ASSUME NEW v \in Workers, proc'[v].at \in Busy
      PROVE  proc'[v].event \in Events
  <2>1. v # w
    BY <1>1, <1>2
  <2>2. proc'[v] = proc[v]
    BY <1>1, <2>1
  <2> QED
    BY <1>2, <2>2 DEF TypeOK
<1> QED
  BY <1>1, <1>2 DEF TypeOK, redis, history

\* A claim: of the poll loop, or one whose answer is lost.
LEMMA ClaimStep ==
  ASSUME TypeOK, NEW w \in Workers, NEW e \in Events,
         rec' = Claimed(w, e), holder' = [holder EXCEPT ![e] = w],
         late' = IF quarantined THEN [late EXCEPT ![w] = @ + 1] ELSE late
  PROVE  /\ rec' \in [Events -> Records]
         /\ holder' \in [Events -> Workers \cup {NoWorker}]
         /\ late' \in [Workers -> Nat]
<1>1. rec' \in [Events -> Records]
  BY ClaimedShape
<1>2. holder' \in [Events -> Workers \cup {NoWorker}]
  BY DEF TypeOK
<1>3. late' \in [Workers -> Nat]
  <2>1. late \in [Workers -> Nat]
    BY DEF TypeOK
  <2>2. [late EXCEPT ![w] = @ + 1] \in [Workers -> Nat]
    BY <2>1
  <2> QED
    BY <2>1, <2>2
<1> QED
  BY <1>1, <1>2, <1>3

\* The steps of the poll loop keep every state well formed.
LEMMA PollType ==
  ASSUME TypeOK, NEW w \in Workers, Poll(w)
  PROVE  TypeOK'
<1>0. rec \in [Events -> Records] /\ faults \in 0..MaxFaults
      /\ crashCount \in 0..CrashThreshold /\ quarantined \in BOOLEAN
  BY DEF TypeOK
<1>1. CASE BeginBatch(w)
  BY <1>0, <1>1, FreshStep DEF BeginBatch, redis, Locations, Busy, Holding
<1>2. CASE Claim(w)
  <2>1. PICK e \in Events :
          /\ rec' = Claimed(w, e)
          /\ proc' = [proc EXCEPT ![w] = [at |-> "claimed", event |-> e,
                                          seen |-> rec[e].attempts,
                                          taken |-> proc[w].taken + 1]]
          /\ holder' = [holder EXCEPT ![e] = w]
          /\ late' = IF quarantined THEN [late EXCEPT ![w] = @ + 1] ELSE late
    BY <1>2 DEF Claim
  <2>2. rec[e].attempts \in Nat /\ proc[w].taken + 1 \in 0..BatchSize
    BY <1>2 DEF Claim, BatchOpen, TypeOK, Records, Pollers, OutboxAssumption
  <2>3. /\ proc' \in [Workers -> Pollers]
        /\ \A v \in Workers : proc'[v].at \in Busy => proc'[v].event \in Events
    BY <2>1, <2>2 DEF TypeOK, Pollers, Locations
  <2>4. /\ rec' \in [Events -> Records]
        /\ holder' \in [Events -> Workers \cup {NoWorker}]
        /\ late' \in [Workers -> Nat]
    BY <2>1, ClaimStep
  <2> QED
    BY <1>2, <2>3, <2>4 DEF Claim, TypeOK, redis
<1>3. CASE EndBatch(w)
  BY <1>0, <1>3, LocalStep DEF EndBatch, Locations, Busy, Holding
<1>4. CASE Dispatch(w)
  <2>1. PICK at \in {"acked", "retrying", "failing"} : Goto(w, at)
    BY <1>4 DEF Dispatch, AfterDispatch
  <2>2. /\ proc' \in [Workers -> Pollers]
        /\ \A v \in Workers : proc'[v].at \in Busy => proc'[v].event \in Events
    BY <1>4, <2>1, BusyShape, GotoShape DEF Dispatch, TypeOK, Locations, Busy, Holding
  <2>3. acked' \in [Events -> BOOLEAN]
    BY <1>4 DEF Dispatch, TypeOK
  <2> QED
    BY <1>4, <2>2, <2>3 DEF Dispatch, TypeOK, redis
<1>5. CASE MarkDispatched(w)
  <2>1. proc[w].event \in Events
    BY <1>5, BusyShape DEF MarkDispatched, Busy, Holding
  <2>2. rec' \in [Events -> Records]
    BY <1>0, <1>5, <2>1, SettledShape DEF MarkDispatched, Statuses
  <2> QED
    BY <1>0, <1>5, <2>1, <2>2, LocalStep DEF MarkDispatched, Locations
<1>6. CASE MarkRetry(w)
  <2>1. proc[w].event \in Events /\ proc[w].seen \in Nat
    BY <1>6, BusyShape DEF MarkRetry, Busy, Holding
  <2>2. \A d \in Backoff(proc[w].seen) : d \in Nat
    BY <2>1, BackoffType
  <2>3. rec' \in [Events -> Records]
    BY <1>0, <1>6, <2>1, <2>2, SettledShape DEF MarkRetry, Statuses
  <2> QED
    BY <1>0, <1>6, <2>1, <2>3, LocalStep DEF MarkRetry, Locations
<1>7. CASE MarkFailedFinal(w)
  <2>1. proc[w].event \in Events
    BY <1>7, BusyShape DEF MarkFailedFinal, Busy, Holding
  <2>2. rec' \in [Events -> Records]
    <3>1. rec' = rec \/ rec' = Settled(proc[w].event, "FAILED_FINAL", 1, 0)
      BY <1>7 DEF MarkFailedFinal
    <3> QED
      BY <1>0, <2>1, <3>1, SettledShape DEF Statuses
  <2> QED
    BY <1>0, <1>7, <2>1, <2>2, LocalStep DEF MarkFailedFinal, Locations
<1>8. CASE FinalizeInvariantFailure(w)
  <2>1. proc[w].event \in Events
    BY <1>8, BusyShape DEF FinalizeInvariantFailure, Busy
  <2>2. rec' \in [Events -> Records]
    BY <1>0, <1>8, <2>1, SettledShape DEF FinalizeInvariantFailure, Statuses
  <2> QED
    BY <1>0, <1>8, <2>1, <2>2, LocalStep DEF FinalizeInvariantFailure, Locations
<1>9. CASE RecordCrash(w)
  <2>1. crashCount' \in 0..CrashThreshold
    BY <1>0, <1>9 DEF RecordCrash, OutboxAssumption
  <2>2. CASE Goto(w, "quarantine")
    <3>1. /\ proc' \in [Workers -> Pollers]
          /\ \A v \in Workers : proc'[v].at \in Busy => proc'[v].event \in Events
      BY <2>2, GotoShape DEF TypeOK, Locations, Busy, Holding
    <3> QED
      BY <1>9, <2>1, <3>1 DEF RecordCrash, TypeOK, history
  <2>3. CASE proc' = [proc EXCEPT ![w] = Fresh("down")]
    BY <1>0, <1>9, <2>1, <2>3, FreshStep DEF RecordCrash, Locations, Busy, Holding
  <2> QED
    BY <1>9, <2>2, <2>3 DEF RecordCrash, Goto, Stopped
<1>10. CASE EnterQuarantine(w)
  BY <1>0, <1>10, FreshStep DEF EnterQuarantine, Stopped, Locations, Busy, Holding
<1> QED
  BY <1>1, <1>2, <1>3, <1>4, <1>5, <1>6, <1>7, <1>8, <1>9, <1>10 DEF Poll

\* So do the faults.
LEMMA BreakType ==
  ASSUME TypeOK, NEW w \in Workers, Break(w)
  PROVE  TypeOK'
<1>0. rec \in [Events -> Records]
      /\ crashCount \in 0..CrashThreshold /\ quarantined \in BOOLEAN
  BY DEF TypeOK
<1>1. faults' \in 0..MaxFaults
  BY DEF Break, Kill, Stop, ClaimFails, MarkFails, Fault, TypeOK, OutboxAssumption
<1>2. CASE Kill(w)
  BY <1>0, <1>1, <1>2, FreshStep DEF Kill, Stopped, redis, Locations, Busy, Holding
<1>3. CASE Stop(w)
  BY <1>0, <1>1, <1>3, FreshStep DEF Stop, Stopped, redis, Locations, Busy, Holding
<1>4. CASE ClaimFails(w)
  <2>1. /\ rec' \in [Events -> Records]
        /\ holder' \in [Events -> Workers \cup {NoWorker}]
        /\ late' \in [Workers -> Nat]
    BY <1>4, ClaimStep DEF ClaimFails, TypeOK
  <2>2. /\ proc' \in [Workers -> Pollers]
        /\ \A v \in Workers : proc'[v].at \in Busy => proc'[v].event \in Events
    BY <1>4, GotoShape DEF ClaimFails, TypeOK, Locations, Busy, Holding
  <2> QED
    BY <1>1, <1>4, <2>1, <2>2 DEF ClaimFails, TypeOK, redis
<1>5. CASE MarkFails(w)
  <2>1. proc[w].event \in Events /\ proc[w].seen \in Nat
    BY <1>5, BusyShape DEF MarkFails, Busy, Holding
  <2>2. \A d \in Backoff(proc[w].seen) : d \in Nat
    BY <2>1, BackoffType
  <2>3. rec' \in [Events -> Records]
    <3>1. \/ rec' = rec
          \/ rec' = Settled(proc[w].event, "DISPATCHED", 0, 0)
          \/ \E d \in Backoff(proc[w].seen) :
               rec' = Settled(proc[w].event, "RETRY", 1, d)
          \/ rec' = Settled(proc[w].event, "FAILED_FINAL", 1, 0)
      BY <1>5 DEF MarkFails
    <3> QED
      BY <1>0, <2>1, <2>2, <3>1, SettledShape DEF Statuses
  <2>4. \E at \in {"failing", "idle", "crash"} : Goto(w, at)
    BY <1>5 DEF MarkFails
  <2> QED
    BY <1>1, <1>5, <2>1, <2>3, <2>4, LocalStep DEF MarkFails, Locations
<1> QED
  BY <1>2, <1>3, <1>4, <1>5 DEF Break

\* Every step keeps the state well formed.
LEMMA NextType == TypeOK /\ [Next]_vars => TypeOK'
<1> SUFFICES ASSUME TypeOK, [Next]_vars PROVE TypeOK'
  OBVIOUS
<1> USE DEF redis, history
<1>1. ASSUME NEW S \in SUBSET Events, InsertMany(S) PROVE TypeOK'
  <2>1. rec' \in [Events -> Records]
    BY <1>1 DEF InsertMany, TypeOK, Records, Unclaimed, Statuses, OutboxAssumption
  <2> QED
    BY <1>1, <2>1 DEF InsertMany, TypeOK
<1>2. ASSUME NEW w \in Workers, Start(w) PROVE TypeOK'
  <2>1. crashCount \in 0..CrashThreshold /\ quarantined \in BOOLEAN
        /\ faults \in 0..MaxFaults
    BY DEF TypeOK
  <2> QED
    BY <1>2, <2>1, FreshStep DEF Start, Locations, Busy, Holding
<1>3. ASSUME NEW w \in Workers, PollDeferred(w) PROVE TypeOK'
  BY <1>3 DEF PollDeferred, vars, TypeOK
<1>4. ASSUME CrashWindowExpires PROVE TypeOK'
  <2>1. crashCount' \in 0..CrashThreshold
    BY <1>4 DEF CrashWindowExpires, OutboxAssumption
  <2> QED
    BY <1>4, <2>1 DEF CrashWindowExpires, TypeOK
<1>5. ASSUME Tick PROVE TypeOK'
  <2>1. rec' \in [Events -> Records]
    BY <1>5, OlderShape DEF Tick, TypeOK
  <2>2. faults' \in 0..MaxFaults
    BY <1>5 DEF Tick, Fault, TypeOK, OutboxAssumption
  <2> QED
    BY <1>5, <2>1, <2>2 DEF Tick, TypeOK
<1>6. CASE UNCHANGED vars
  BY <1>6 DEF vars, TypeOK
<1> QED
  BY <1>1, <1>2, <1>3, <1>4, <1>5, <1>6, PollType, BreakType DEF Next

\* Every state of every behaviour is well formed.
THEOREM TypeCorrect == Spec => []TypeOK
<1> QED
  BY InitType, NextType, PTL DEF Spec

-----------------------------------------------------------------------------
(* What holds under any identities: a process may have another's id.       *)

\* Where a worker stands when it gives a record the status s, and what else
\* it then writes.
Cause(w, s, n, d) ==
  \/ s = "DISPATCHED" /\ proc[w].at = "acked" /\ d = 0
  \/ s = "RETRY" /\ proc[w].at = "retrying" /\ n = 1
  \/ s = "FAILED_FINAL" /\ proc[w].at \in {"failing", "finalize"} /\ n = 1 /\ d = 0

\* What a step that settles a record does to it.  The owner is whoever has
\* the id that locked it.
Settling(w, e) ==
  /\ Owns(w, e)
  /\ \E s \in Terminal \cup {"RETRY"}, n \in {0, 1}, d \in Nat :
       Cause(w, s, n, d) /\ rec' = Settled(e, s, n, d)

\* What a claim does, and a worker that settles the record it holds.
ClaimedBy(w, e) ==
  /\ proc[w].at = "batch" /\ Claimable(e)
  /\ rec' = Claimed(w, e) /\ holder' = [holder EXCEPT ![e] = w]
SettledBy(w) ==
  /\ proc[w].at \in Busy /\ proc'[w].at # proc[w].at
  /\ Settling(w, proc[w].event)

\* The witnesses of Settling, named.
LEMMA SettlingIntro ==
  ASSUME NEW w, NEW e, Owns(w, e),
         NEW s \in Terminal \cup {"RETRY"}, NEW n \in {0, 1}, NEW d \in Nat,
         Cause(w, s, n, d), rec' = Settled(e, s, n, d)
  PROVE  Settling(w, e)
  BY DEF Settling

\* A step inserts records, claims one, settles one, lets them grow older or
\* leaves them as they are; only the last may record an acceptance.
LEMMA RecordSteps ==
  ASSUME TypeOK, [Next]_vars
  PROVE  \/ \E S \in SUBSET Events : InsertMany(S)
         \/ /\ UNCHANGED acked
            /\ \E w \in Workers, e \in Events : ClaimedBy(w, e)
         \/ /\ UNCHANGED <<acked, holder>>
            /\ \/ \E w \in Workers : SettledBy(w)
               \/ \A e \in Events : rec'[e] = Older(rec[e])
         \/ rec' = rec /\ UNCHANGED <<acked, holder>>
         \/ /\ rec' = rec /\ UNCHANGED holder
            /\ \E w \in Workers : /\ proc[w].at = "claimed"
                                  /\ acked' = [acked EXCEPT ![proc[w].event] = TRUE]
<1>1. CASE \E S \in SUBSET Events : InsertMany(S)
  BY <1>1
<1> USE DEF history
<1>2. ASSUME NEW w \in Workers, Claim(w) \/ ClaimFails(w)
      PROVE  /\ UNCHANGED acked
             /\ \/ UNCHANGED <<rec, holder>>
                \/ \E e \in Events : ClaimedBy(w, e)
  BY <1>2 DEF Claim, ClaimFails, ClaimedBy
<1>3. ASSUME NEW w \in Workers,
             \/ MarkDispatched(w) \/ MarkRetry(w) \/ MarkFailedFinal(w)
             \/ FinalizeInvariantFailure(w) \/ MarkFails(w)
      PROVE  /\ UNCHANGED <<acked, holder>>
             /\ rec' = rec \/ SettledBy(w)
  <2> DEFINE e == proc[w].event
  <2>1. proc[w].at \in Busy
    BY <1>3 DEF MarkDispatched, MarkRetry, MarkFailedFinal,
                FinalizeInvariantFailure, MarkFails, Busy, Holding
  <2>2. Backoff(proc[w].seen) \subseteq Nat
    BY <2>1, BusyShape, BackoffType
  <2> HIDE DEF e
  <2>3. \/ rec' = rec
        \/ /\ Owns(w, e)
           /\ \/ proc[w].at = "acked" /\ rec' = Settled(e, "DISPATCHED", 0, 0)
              \/ /\ proc[w].at \in {"failing", "finalize"}
                 /\ rec' = Settled(e, "FAILED_FINAL", 1, 0)
              \/ /\ proc[w].at = "retrying"
                 /\ \E d \in Backoff(proc[w].seen) : rec' = Settled(e, "RETRY", 1, d)
    <3>1. CASE MarkDispatched(w)
      BY <3>1 DEF MarkDispatched, e
    <3>2. CASE MarkRetry(w)
      BY <3>2 DEF MarkRetry, e
    <3>3. CASE MarkFailedFinal(w)
      BY <3>3 DEF MarkFailedFinal, e
    <3>4. CASE FinalizeInvariantFailure(w)
      BY <3>4 DEF FinalizeInvariantFailure, e
    <3>5. CASE MarkFails(w)
      BY <3>5 DEF MarkFails, e
    <3> QED
      BY <1>3, <3>1, <3>2, <3>3, <3>4, <3>5
  <2>4. UNCHANGED <<acked, holder>>
    BY <1>3 DEF MarkDispatched, MarkRetry, MarkFailedFinal,
                FinalizeInvariantFailure, MarkFails
  <2>5. proc'[w].at # proc[w].at
    <3>1. \E at \in Locations \ {proc[w].at} : Goto(w, at)
      BY <1>3 DEF MarkDispatched, MarkRetry, MarkFailedFinal,
                  FinalizeInvariantFailure, MarkFails, Locations
    <3> QED
      BY <3>1, GotoShape
  <2>6. CASE /\ Owns(w, e) /\ proc[w].at = "acked"
             /\ rec' = Settled(e, "DISPATCHED", 0, 0)
    <3>1. 0 \in Nat
      OBVIOUS
    <3> QED
      BY <2>1, <2>4, <2>5, <2>6, <3>1, SettlingIntro DEF SettledBy, Cause, Terminal, e
  <2>7. CASE /\ Owns(w, e) /\ proc[w].at \in {"failing", "finalize"}
             /\ rec' = Settled(e, "FAILED_FINAL", 1, 0)
    <3>1. 0 \in Nat
      OBVIOUS
    <3> QED
      BY <2>1, <2>4, <2>5, <2>7, <3>1, SettlingIntro DEF SettledBy, Cause, Terminal, e
  <2>8. CASE /\ Owns(w, e) /\ proc[w].at = "retrying"
             /\ \E d \in Backoff(proc[w].seen) : rec' = Settled(e, "RETRY", 1, d)
    <3>1. PICK d \in Backoff(proc[w].seen) : rec' = Settled(e, "RETRY", 1, d)
      BY <2>8
    <3>2. d \in Nat
      BY <2>2
    <3> QED
      BY <2>1, <2>4, <2>5, <2>8, <3>1, <3>2, SettlingIntro DEF SettledBy, Cause, e
  <2> QED
    BY <2>3, <2>4, <2>6, <2>7, <2>8
<1>4. CASE Tick
  BY <1>4 DEF Tick
<1>5. ASSUME NEW w \in Workers, Dispatch(w)
      PROVE  /\ rec' = rec /\ UNCHANGED holder
             /\ \/ UNCHANGED acked
                \/ /\ proc[w].at = "claimed"
                   /\ acked' = [acked EXCEPT ![proc[w].event] = TRUE]
  BY <1>5 DEF Dispatch
<1>6. ASSUME NEW w \in Workers,
             \/ Start(w) \/ PollDeferred(w) \/ BeginBatch(w) \/ EndBatch(w)
             \/ RecordCrash(w) \/ EnterQuarantine(w)
             \/ Kill(w) \/ Stop(w)
      PROVE  rec' = rec /\ UNCHANGED <<acked, holder>>
  BY <1>6 DEF Start, PollDeferred, BeginBatch, EndBatch, RecordCrash,
              EnterQuarantine, Kill, Stop, vars
<1>7. CASE CrashWindowExpires \/ UNCHANGED vars
  BY <1>7 DEF CrashWindowExpires, vars
<1> QED
  BY <1>1, <1>2, <1>3, <1>4, <1>5, <1>6, <1>7 DEF Next, Poll, Break

\* A settled record waits for nothing.
Quiet == \A e \in Events : rec[e].status \in Terminal => rec[e].wait = 0

\* A settled record is left alone by every step.
LEMMA SettledStep ==
  ASSUME TypeOK, Quiet, [Next]_vars, NEW e \in Events, rec[e].status \in Terminal
  PROVE  rec'[e] = rec[e]
<1>1. CASE \E S \in SUBSET Events : InsertMany(S)
  BY <1>1 DEF InsertMany, Terminal, TypeOK
<1>2. CASE \E w \in Workers, f \in Events : ClaimedBy(w, f)
  <2>1. PICK w \in Workers, f \in Events : ClaimedBy(w, f)
    BY <1>2
  <2>2. f # e
    BY <2>1 DEF ClaimedBy, Claimable, Terminal
  <2> QED
    BY <2>1, <2>2, ClaimedShape DEF ClaimedBy
<1>3. CASE \E w \in Workers : SettledBy(w)
  <2>1. PICK w \in Workers : proc[w].at \in Busy /\ Settling(w, proc[w].event)
    BY <1>3 DEF SettledBy
  <2>2. PICK s \in Terminal \cup {"RETRY"}, n \in {0, 1}, d \in Nat :
          rec' = Settled(proc[w].event, s, n, d)
    BY <2>1 DEF Settling
  <2>3. proc[w].event \in Events /\ proc[w].event # e
    BY <2>1, BusyShape DEF Settling, Owns, Terminal
  <2>4. s \in Statuses /\ n \in Nat
    BY DEF Statuses, Terminal
  <2> QED
    BY <2>2, <2>3, <2>4, SettledShape
<1>4. CASE rec'[e] = Older(rec[e])
  <2>1. rec[e].status # "PROCESSING" /\ rec[e].wait = 0 /\ rec[e] \in Records
    BY DEF Quiet, Terminal, TypeOK
  <2>2. Older(rec[e]) = [status |-> rec[e].status, attempts |-> rec[e].attempts,
          lockedBy |-> rec[e].lockedBy, lockAge |-> rec[e].lockAge, wait |-> rec[e].wait]
    BY <2>1 DEF Older
  <2> QED
    BY <1>4, <2>1, <2>2 DEF Records
<1> QED
  BY <1>1, <1>2, <1>3, <1>4, RecordSteps

\* Only a settling step settles a record.
LEMMA QuietStep ==
  ASSUME TypeOK, Quiet, [Next]_vars
  PROVE  Quiet'
<1> SUFFICES ASSUME NEW e \in Events, rec'[e].status \in Terminal
             PROVE  rec'[e].wait = 0
  BY DEF Quiet
<1>1. CASE rec[e].status \in Terminal
  BY <1>1, SettledStep DEF Quiet
<1>2. CASE rec[e].status \notin Terminal
  <2>1. CASE \E S \in SUBSET Events : InsertMany(S)
    BY <1>2, <2>1 DEF InsertMany, Unclaimed, Terminal
  <2>2. CASE \E w \in Workers, f \in Events : ClaimedBy(w, f)
    BY <1>2, <2>2, ClaimedShape DEF ClaimedBy, Terminal
  <2>3. CASE \E w \in Workers : SettledBy(w)
    <3>1. PICK w \in Workers : proc[w].at \in Busy /\ Settling(w, proc[w].event)
      BY <2>3 DEF SettledBy
    <3>2. PICK s \in Terminal \cup {"RETRY"}, n \in {0, 1}, d \in Nat :
            Cause(w, s, n, d) /\ rec' = Settled(proc[w].event, s, n, d)
      BY <3>1 DEF Settling
    <3>3. proc[w].event \in Events /\ s \in Statuses /\ n \in Nat
      BY <3>1, BusyShape DEF Statuses, Terminal
    <3>4. proc[w].event = e
      BY <1>2, <3>2, <3>3, SettledShape
    <3>5. rec'[e].status = s /\ rec'[e].wait = d
      BY <3>2, <3>3, <3>4 DEF Settled, TypeOK
    <3> QED
      BY <1>2, <3>2, <3>3, <3>5 DEF Cause, Terminal
  <2>4. CASE rec'[e] = Older(rec[e])
    BY <1>2, <2>4, OlderShape DEF TypeOK
  <2> QED
    BY <1>2, <2>1, <2>2, <2>3, <2>4, RecordSteps
<1> QED
  BY <1>1, <1>2

\* A settled event is never reopened, whoever may still try to mark it.
THEOREM SettledForGood == Spec => TerminalIsFinal
<1>1. Init => Quiet
  BY DEF Init, Unclaimed, Quiet
<1>2. TypeOK /\ Quiet /\ [Next]_vars => Quiet'
  BY QuietStep
<1>3. TypeOK /\ Quiet /\ [Next]_vars =>
        [\A e \in Events : rec[e].status \in Terminal => rec'[e] = rec[e]]_vars
  BY SettledStep
<1> QED
  BY <1>1, <1>2, <1>3, TypeCorrect, PTL DEF Spec, TerminalIsFinal

-----------------------------------------------------------------------------
(* Delivery, under any identities.                                         *)

\* What a step does to a busy worker.  It holds on to its event, its copy of
\* the attempts and, but for a claim, its place in the batch.
Keeps(w) ==
  proc'[w].event = proc[w].event /\ proc'[w].seen = proc[w].seen

Took(w) ==
  \E e \in Events :
    /\ proc[w].at = "batch" /\ ClaimedBy(w, e)
    /\ proc'[w].at = "claimed" /\ proc'[w].event = e
    /\ proc'[w].seen = rec[e].attempts

Heard(w) ==
  /\ proc[w].at = "claimed" /\ Keeps(w) /\ UNCHANGED <<rec, holder>>
  /\ \E result \in Outcomes[proc[w].event] :
       /\ result = "ack" => acked'[proc[w].event]
       /\ proc'[w].at = AfterDispatch(result, proc[w].seen)

Fenced(w) ==
  /\ proc[w].at \in Holding /\ ~Owns(w, proc[w].event)
  /\ proc'[w].at = "finalize" /\ Keeps(w) /\ UNCHANGED <<rec, holder>>

Unanswered(w) ==
  /\ proc[w].at = "acked" /\ "write" \in FaultKinds
  /\ proc'[w].at = "failing" /\ Keeps(w)
  /\ rec' = rec \/ SettledBy(w)

LEMMA PollerSteps ==
  ASSUME TypeOK, [Next]_vars, NEW w \in Workers
  PROVE  \/ proc'[w] = proc[w]
         \/ proc'[w].at \notin Busy
         \/ Took(w) \/ Heard(w) \/ Fenced(w) \/ Unanswered(w)
<1> DEFINE Goal == \/ proc'[w] = proc[w]
                   \/ proc'[w].at \notin Busy
                   \/ Took(w) \/ Heard(w) \/ Fenced(w) \/ Unanswered(w)
<1> SUFFICES Goal
  OBVIOUS
<1> HIDE DEF Goal
<1>1. ASSUME NEW v \in Workers, v # w,
             Start(v) \/ PollDeferred(v) \/ Poll(v) \/ Break(v)
      PROVE  Goal
  BY <1>1 DEF Goal, Start, PollDeferred, Poll, Break, BeginBatch, Claim, EndBatch,
     Dispatch, MarkDispatched, MarkRetry, MarkFailedFinal, FinalizeInvariantFailure,
     RecordCrash, EnterQuarantine, Kill, Stop, ClaimFails, MarkFails, Goto, vars, TypeOK
<1>2. CASE Claim(w)
  <2>1. PICK e \in Events :
          /\ Claimable(e) /\ rec' = Claimed(w, e)
          /\ proc' = [proc EXCEPT ![w] = [at |-> "claimed", event |-> e,
                                          seen |-> rec[e].attempts,
                                          taken |-> proc[w].taken + 1]]
          /\ holder' = [holder EXCEPT ![e] = w]
    BY <1>2 DEF Claim
  <2> QED
    BY <1>2, <2>1 DEF Goal, Took, ClaimedBy, Claim, TypeOK
<1>3. CASE Dispatch(w)
  <2>1. PICK result \in Outcomes[proc[w].event] :
          /\ acked' = IF result = "ack"
                      THEN [acked EXCEPT ![proc[w].event] = TRUE] ELSE acked
          /\ Goto(w, AfterDispatch(result, proc[w].seen))
    BY <1>3 DEF Dispatch
  <2>2. AfterDispatch(result, proc[w].seen) \in Locations /\ proc[w].event \in Events
    BY <1>3, BusyShape DEF AfterDispatch, Locations, Dispatch, Busy, Holding
  <2>3. Keeps(w) /\ proc'[w].at = AfterDispatch(result, proc[w].seen)
    BY <2>1, <2>2, GotoShape DEF Keeps
  <2> QED
    BY <1>3, <2>1, <2>2, <2>3 DEF Goal, Heard, Dispatch, TypeOK
<1>4. CASE MarkDispatched(w) \/ MarkRetry(w) \/ MarkFailedFinal(w)
  <2>1. CASE Goto(w, "batch")
    BY <2>1, GotoShape DEF Goal, Locations, Busy, Holding
  <2>2. CASE /\ ~Owns(w, proc[w].event) /\ rec' = rec /\ Goto(w, "finalize")
    BY <1>4, <2>2, GotoShape DEF Goal, Fenced, Keeps, MarkDispatched, MarkRetry,
       MarkFailedFinal, Locations, Holding, history
  <2> QED
    BY <1>4, <2>1, <2>2 DEF MarkDispatched, MarkRetry, MarkFailedFinal
<1>5. CASE MarkFails(w)
  <2>1. CASE Goto(w, "idle") \/ Goto(w, "crash")
    BY <2>1, GotoShape DEF Goal, Locations, Busy, Holding
  <2>2. CASE proc[w].at = "acked" /\ Goto(w, "failing")
    <3>1. proc'[w].at = "failing" /\ Keeps(w)
      BY <2>2, GotoShape DEF Keeps, Locations
    <3>2. rec' = rec \/ SettledBy(w)
      <4>1. CASE rec' = rec
        BY <4>1
      <4>2. CASE /\ Owns(w, proc[w].event)
                 /\ rec' = Settled(proc[w].event, "DISPATCHED", 0, 0)
        <5>1. 0 \in Nat
          OBVIOUS
        <5> QED
          BY <2>2, <3>1, <4>2, <5>1, SettlingIntro DEF SettledBy, Cause, Terminal, Busy, Holding
      <4> QED
        BY <1>5, <2>2, <4>1, <4>2 DEF MarkFails
    <3> QED
      BY <1>5, <2>2, <3>1, <3>2 DEF Goal, Unanswered, MarkFails, Fault
  <2> QED
    BY <1>5, <2>1, <2>2 DEF MarkFails
<1>6. ASSUME \/ Start(w) \/ BeginBatch(w) \/ EndBatch(w)
             \/ FinalizeInvariantFailure(w) \/ RecordCrash(w) \/ EnterQuarantine(w)
             \/ Kill(w) \/ Stop(w) \/ ClaimFails(w)
      PROVE  Goal
  <2>1. \/ \E at \in Locations \ Busy : Goto(w, at)
        \/ \E at \in Locations \ Busy : proc' = [proc EXCEPT ![w] = Fresh(at)]
    BY <1>6 DEF Start, BeginBatch, EndBatch, FinalizeInvariantFailure, RecordCrash,
       EnterQuarantine, Kill, Stop, ClaimFails, Goto, Stopped, Locations, Busy, Holding
  <2> QED
    BY <2>1, GotoShape, FreshShape DEF Goal
<1>7. ASSUME \/ \E S \in SUBSET Events : InsertMany(S)
             \/ PollDeferred(w) \/ CrashWindowExpires \/ Tick \/ UNCHANGED vars
      PROVE  Goal
  BY <1>7 DEF Goal, InsertMany, PollDeferred, CrashWindowExpires, Tick, vars
<1>8. CASE \E v \in Workers : Start(v) \/ PollDeferred(v) \/ Poll(v) \/ Break(v)
  <2>1. PICK v \in Workers : Start(v) \/ PollDeferred(v) \/ Poll(v) \/ Break(v)
    BY <1>8
  <2>2. CASE v # w
    BY <1>1, <2>1, <2>2
  <2>3. CASE v = w
    <3>1. Start(w) \/ PollDeferred(w) \/ Poll(w) \/ Break(w)
      BY <2>1, <2>3
    <3>2. CASE Start(w) \/ PollDeferred(w)
      BY <1>6, <1>7, <3>2
    <3>3. CASE Poll(w)
      BY <1>2, <1>3, <1>4, <1>6, <3>3 DEF Poll
    <3>4. CASE Break(w)
      BY <1>5, <1>6, <3>4 DEF Break
    <3> QED
      BY <3>1, <3>2, <3>3, <3>4
  <2> QED
    BY <2>2, <2>3
<1> QED
  BY <1>7, <1>8 DEF Next

\* A worker holds an event that was committed, and one that is about to mark
\* it dispatched was told so by the dispatcher.
Delivering ==
  \A w \in Workers :
    /\ proc[w].at \in Busy => rec[proc[w].event].status # "ABSENT"
    /\ proc[w].at = "acked" => acked[proc[w].event]

Delivered == DispatchedWasAcked /\ Delivering

\* An acceptance is never forgotten, and a committed record stays.
LEMMA AcceptedStays ==
  ASSUME TypeOK, [Next]_vars, NEW e \in Events
  PROVE  /\ acked[e] => acked'[e]
         /\ rec[e].status # "ABSENT" => rec'[e].status # "ABSENT"
<1>1. acked[e] => acked'[e]
  BY RecordSteps, BusyShape DEF TypeOK, InsertMany, history
<1>2. rec[e].status # "ABSENT" => rec'[e].status # "ABSENT"
  <2>1. CASE \E S \in SUBSET Events : InsertMany(S)
    BY <2>1 DEF InsertMany, TypeOK
  <2>2. CASE \E w \in Workers, f \in Events : ClaimedBy(w, f)
    BY <2>2, ClaimedShape DEF ClaimedBy
  <2>3. CASE \E w \in Workers : SettledBy(w)
    <3>1. PICK w \in Workers, s \in Terminal \cup {"RETRY"}, n \in {0, 1}, d \in Nat :
            proc[w].at \in Busy /\ rec' = Settled(proc[w].event, s, n, d)
      BY <2>3 DEF SettledBy, Settling
    <3> DEFINE f == proc[w].event
    <3>2. f \in Events /\ s \in Statuses /\ n \in Nat /\ s # "ABSENT"
      BY <3>1, BusyShape DEF Statuses, Terminal
    <3>3. /\ rec'[f].status = s
          /\ f # e => rec'[e] = rec[e]
      BY <3>1, <3>2, SettledShape
    <3> QED
      BY <3>2, <3>3
  <2>4. CASE rec'[e] = Older(rec[e])
    BY <2>4, OlderShape DEF TypeOK
  <2> QED
    BY <2>1, <2>2, <2>3, <2>4, RecordSteps
<1> QED
  BY <1>1, <1>2

\* The invariant is kept.
LEMMA DeliveredStep ==
  ASSUME TypeOK, Delivered, [Next]_vars
  PROVE  Delivered'
<1>1. ASSUME NEW e \in Events, rec'[e].status = "DISPATCHED"
      PROVE  acked'[e]
  <2>1. CASE rec[e].status = "DISPATCHED"
    BY <2>1, AcceptedStays DEF Delivered, DispatchedWasAcked
  <2>2. CASE rec[e].status # "DISPATCHED"
    <3>1. CASE \E S \in SUBSET Events : InsertMany(S)
      BY <1>1, <2>2, <3>1 DEF InsertMany, Unclaimed
    <3>2. CASE \E w \in Workers, f \in Events : ClaimedBy(w, f)
      BY <1>1, <2>2, <3>2, ClaimedShape DEF ClaimedBy
    <3>3. CASE \E w \in Workers : SettledBy(w)
      <4>1. PICK w \in Workers, s \in Terminal \cup {"RETRY"}, n \in {0, 1}, d \in Nat :
              /\ proc[w].at \in Busy
              /\ Cause(w, s, n, d)
              /\ rec' = Settled(proc[w].event, s, n, d)
        BY <3>3 DEF SettledBy, Settling
      <4>2. proc[w].event \in Events /\ s \in Statuses /\ n \in Nat
        BY <4>1, BusyShape DEF Statuses, Terminal
      <4> DEFINE f == proc[w].event
      <4>3. /\ rec'[f].status = s
            /\ f # e => rec'[e] = rec[e]
        BY <4>1, <4>2, SettledShape
      <4>4. proc[w].event = e /\ proc[w].at = "acked"
        BY <1>1, <2>2, <4>1, <4>3 DEF Cause
      <4> QED
        BY <4>4, AcceptedStays DEF Delivered, Delivering
    <3>4. CASE rec'[e] = Older(rec[e])
      BY <1>1, <2>2, <3>4, OlderShape DEF TypeOK
    <3> QED
      BY <1>1, <2>2, <3>1, <3>2, <3>3, <3>4, RecordSteps
  <2> QED
    BY <2>1, <2>2
<1>2. ASSUME NEW w \in Workers, proc'[w].at \in Busy
      PROVE  /\ rec'[proc'[w].event].status # "ABSENT"
             /\ proc'[w].at = "acked" => acked'[proc'[w].event]
  <2>1. CASE Took(w)
    BY <2>1, ClaimedShape DEF Took, ClaimedBy
  <2>2. CASE proc[w].at \in Busy /\ proc'[w].event = proc[w].event
    <3>1. proc[w].event \in Events
      BY <2>2, BusyShape
    <3>2. rec'[proc'[w].event].status # "ABSENT"
      BY <2>2, <3>1, AcceptedStays DEF Delivered, Delivering
    <3>3. ASSUME proc'[w].at = "acked" PROVE acked'[proc'[w].event]
      <4>1. CASE proc'[w] = proc[w]
        BY <3>1, <3>3, <4>1, AcceptedStays DEF Delivered, Delivering
      <4>2. CASE Heard(w)
        BY <2>2, <3>3, <4>2 DEF Heard, AfterDispatch
      <4> QED
        BY <1>2, <3>3, <4>1, <4>2, PollerSteps DEF Took, Fenced, Unanswered
    <3> QED
      BY <3>2, <3>3
  <2> QED
    BY <1>2, <2>1, <2>2, PollerSteps
       DEF Heard, Fenced, Unanswered, Keeps, Busy, Holding
<1> QED
  BY <1>1, <1>2 DEF Delivered, DispatchedWasAcked, Delivering, Busy, Holding

\* An event counts as dispatched only once the dispatcher accepted it.
THEOREM DispatchedAreAcked == Spec => []DispatchedWasAcked
<1>1. Init => Delivered
  BY DEF Init, Delivered, DispatchedWasAcked, Delivering, Unclaimed, Stopped, Fresh,
         Busy, Holding
<1>2. TypeOK /\ Delivered /\ [Next]_vars => Delivered'
  BY DeliveredStep
<1>3. Delivered => DispatchedWasAcked
  BY DEF Delivered
<1> QED
  BY <1>1, <1>2, <1>3, TypeCorrect, PTL DEF Spec

\* A step of the workers is a step of the delivery, or leaves it unchanged.
LEMMA DeliveryStep ==
  ASSUME TypeOK, Quiet, Delivered, Delivered', [Next]_vars
  PROVE  [Delivery!DNext]_(Delivery!dvars)
<1> DEFINE stage == [e \in Events |-> StageOf(rec[e].status)]
           stageN == [e \in Events |-> StageOf(rec'[e].status)]
<1>0. /\ StageOf("ABSENT") = "unborn" /\ StageOf("DISPATCHED") = "dispatched"
      /\ StageOf("FAILED_FINAL") = "failed" /\ StageOf("PENDING") = "open"
      /\ StageOf("PROCESSING") = "open" /\ StageOf("RETRY") = "open"
  BY DEF StageOf
<1>1. CASE \E S \in SUBSET Events : InsertMany(S)
  <2>1. PICK S \in SUBSET Events : InsertMany(S)
    BY <1>1
  <2>2. \A e \in S : stage[e] = "unborn"
    BY <1>0, <2>1 DEF InsertMany
  <2>3. stageN = [e \in Events |-> IF e \in S THEN "open" ELSE stage[e]]
    <3>1. \A e \in Events : rec'[e] = IF e \in S THEN Unclaimed("PENDING") ELSE rec[e]
      BY <2>1 DEF InsertMany
    <3>2. \A e \in Events : stageN[e] = IF e \in S THEN "open" ELSE stage[e]
      BY <1>0, <3>1 DEF Unclaimed
    <3> QED
      BY <3>2
  <2>4. UNCHANGED acked
    BY <2>1 DEF InsertMany, history
  <2>5. Delivery!Commit(S)
    BY <2>2, <2>3, <2>4 DEF Delivery!Commit
  <2> QED
    BY <2>5 DEF Delivery!DNext
<1>2. ASSUME UNCHANGED acked,
             \A e \in Events : StageOf(rec'[e].status) = StageOf(rec[e].status)
      PROVE  UNCHANGED Delivery!dvars
  BY <1>2 DEF Delivery!dvars
<1>3. CASE UNCHANGED acked /\ \E w \in Workers, e \in Events : ClaimedBy(w, e)
  <2>1. PICK w \in Workers, e \in Events : ClaimedBy(w, e)
    BY <1>3
  <2>2. rec[e].status \in {"PENDING", "RETRY", "PROCESSING"}
    BY <2>1 DEF ClaimedBy, Claimable
  <2>3. \A f \in Events : StageOf(rec'[f].status) = StageOf(rec[f].status)
    BY <1>0, <2>1, <2>2, ClaimedShape DEF ClaimedBy
  <2> QED
    BY <1>2, <1>3, <2>3
<1>4. CASE UNCHANGED acked /\ \E w \in Workers : SettledBy(w)
  <2>1. PICK w \in Workers, s \in Terminal \cup {"RETRY"}, n \in {0, 1}, d \in Nat :
          /\ proc[w].at \in Busy /\ Owns(w, proc[w].event)
          /\ rec' = Settled(proc[w].event, s, n, d)
    BY <1>4 DEF SettledBy, Settling
  <2> DEFINE f == proc[w].event
  <2>2. f \in Events /\ s \in Statuses /\ n \in Nat
    BY <2>1, BusyShape DEF Statuses, Terminal
  <2>3. /\ rec'[f].status = s
        /\ \A e \in Events : e # f => rec'[e] = rec[e]
    BY <2>1, <2>2, SettledShape
  <2>4. stage[f] = "open"
    BY <1>0, <2>1, <2>2 DEF Owns
  <2> HIDE DEF f
  <2>5. stageN = [stage EXCEPT ![f] = StageOf(s)]
    BY <2>2, <2>3
  <2>6. CASE s = "RETRY"
    <3>1. \A e \in Events : StageOf(rec'[e].status) = StageOf(rec[e].status)
      BY <1>0, <2>2, <2>3, <2>4, <2>6
    <3> QED
      BY <1>2, <1>4, <3>1
  <2>7. CASE s = "DISPATCHED"
    <3>1. acked'[f]
      BY <2>2, <2>3, <2>7 DEF Delivered, DispatchedWasAcked
    <3>2. Delivery!Dispatched(f)
      BY <1>0, <1>4, <2>4, <2>5, <2>7, <3>1 DEF Delivery!Dispatched
    <3> QED
      BY <2>2, <3>2 DEF Delivery!DNext
  <2>8. CASE s = "FAILED_FINAL"
    <3>1. Delivery!GiveUp(f)
      BY <1>0, <1>4, <2>4, <2>5, <2>8 DEF Delivery!GiveUp
    <3> QED
      BY <2>2, <3>1 DEF Delivery!DNext
  <2> QED
    BY <2>6, <2>7, <2>8 DEF Terminal
<1>5. CASE UNCHANGED acked /\ \A e \in Events : rec'[e] = Older(rec[e])
  <2>1. \A e \in Events : rec'[e].status = rec[e].status
    BY <1>5, OlderShape DEF TypeOK
  <2> QED
    BY <1>2, <1>5, <2>1
<1>6. CASE rec' = rec /\ UNCHANGED acked
  BY <1>2, <1>6
<1>7. CASE /\ rec' = rec
           /\ \E w \in Workers : /\ proc[w].at = "claimed"
                                 /\ acked' = [acked EXCEPT ![proc[w].event] = TRUE]
  <2>1. PICK w \in Workers : /\ proc[w].at = "claimed"
                             /\ acked' = [acked EXCEPT ![proc[w].event] = TRUE]
    BY <1>7
  <2> DEFINE f == proc[w].event
  <2>2. f \in Events /\ rec[f].status # "ABSENT"
    BY <2>1, BusyShape DEF Delivered, Delivering, Busy, Holding
  <2> HIDE DEF f
  <2>3. rec[f].status \in Statuses
    BY <2>2 DEF TypeOK, Records
  <2>4. stage[f] # "unborn"
    BY <1>0, <2>2, <2>3 DEF Statuses
  <2>5. Delivery!Accept(f)
    BY <1>7, <2>1, <2>4 DEF Delivery!Accept, f
  <2> QED
    BY <2>2, <2>5 DEF Delivery!DNext
<1> QED
  BY <1>1, <1>3, <1>4, <1>5, <1>6, <1>7, RecordSteps

\* Leases, crashes and retries implement the delivery of each event.
THEOREM DeliveryIsImplemented == Spec => DeliveryImplemented
<1>1. Init => Quiet /\ Delivered /\ Delivery!DInit
  BY DEF Init, Quiet, Delivered, DispatchedWasAcked, Delivering, Unclaimed, Stopped,
         Fresh, Busy, Holding, Delivery!DInit, StageOf
<1>2. TypeOK /\ Quiet /\ Delivered /\ [Next]_vars => Quiet' /\ Delivered'
  BY QuietStep, DeliveredStep
<1>3. TypeOK /\ Quiet /\ Delivered /\ Delivered' /\ [Next]_vars
        => [Delivery!DNext]_(Delivery!dvars)
  BY DeliveryStep
<1> QED
  BY <1>1, <1>2, <1>3, TypeCorrect, PTL DEF Spec, DeliveryImplemented, Delivery!DSpec
-----------------------------------------------------------------------------
(* The leases: what ownership by lockedBy gives when no two processes have *)
(* the same id.                                                            *)

\* How a record became locked, or stayed so.
LEMMA LockedBefore ==
  ASSUME TypeOK, [Next]_vars, NEW e \in Events, rec'[e].status = "PROCESSING"
  PROVE  \/ /\ rec[e].status = "PROCESSING" /\ holder'[e] = holder[e]
            /\ rec'[e].lockedBy = rec[e].lockedBy
            /\ rec'[e].attempts = rec[e].attempts
         \/ \E w \in Workers :
              /\ ClaimedBy(w, e) /\ holder'[e] = w
              /\ rec'[e].lockedBy = WorkerId[w]
              /\ rec'[e].attempts = rec[e].attempts
<1>1. CASE \E S \in SUBSET Events : InsertMany(S)
  BY <1>1 DEF InsertMany, Unclaimed, history
<1>2. CASE \E w \in Workers, f \in Events : ClaimedBy(w, f)
  <2>1. PICK w \in Workers, f \in Events : ClaimedBy(w, f)
    BY <1>2
  <2>2. CASE f = e
    <3>1. ClaimedBy(w, e)
      BY <2>1, <2>2
    <3>2. rec' = Claimed(w, e) /\ holder' = [holder EXCEPT ![e] = w]
      BY <3>1 DEF ClaimedBy
    <3>3. rec'[e].lockedBy = WorkerId[w] /\ rec'[e].attempts = rec[e].attempts
      BY <3>2, ClaimedShape
    <3>4. holder'[e] = w
      BY <3>2 DEF TypeOK
    <3> QED
      BY <3>1, <3>3, <3>4
  <2>3. CASE f # e
    <3>1. rec'[e] = rec[e] /\ holder'[e] = holder[e]
      BY <2>1, <2>3, ClaimedShape DEF ClaimedBy, TypeOK
    <3> QED
      BY <3>1
  <2> QED
    BY <2>2, <2>3
<1>3. CASE UNCHANGED holder /\ \E w \in Workers : SettledBy(w)
  <2>1. PICK w \in Workers, s \in Terminal \cup {"RETRY"}, n \in {0, 1}, d \in Nat :
          proc[w].at \in Busy /\ rec' = Settled(proc[w].event, s, n, d)
    BY <1>3 DEF SettledBy, Settling
  <2> DEFINE f == proc[w].event
  <2>2. /\ f \in Events /\ s \in Statuses /\ n \in Nat
        /\ s # "PROCESSING"
    BY <2>1, BusyShape DEF Statuses, Terminal
  <2>3. rec'[f].status = s /\ (f # e => rec'[e] = rec[e])
    <3>1. rec' = Settled(f, s, n, d)
      BY <2>1
    <3> HIDE DEF f
    <3> QED BY <2>2, <3>1, SettledShape
  <2> QED
    BY <1>3, <2>2, <2>3
<1>4. CASE UNCHANGED holder /\ rec'[e] = Older(rec[e])
  BY <1>4, OlderShape DEF TypeOK
<1> QED
  BY <1>1, <1>2, <1>3, <1>4, RecordSteps

\* What becomes of a locked record.
LEMMA LockedAfter ==
  ASSUME TypeOK, [Next]_vars, NEW e \in Events, rec[e].status = "PROCESSING"
  PROVE  \/ /\ rec'[e].status = "PROCESSING" /\ holder'[e] = holder[e]
            /\ rec'[e].lockedBy = rec[e].lockedBy
         \/ \E w \in Workers : ClaimedBy(w, e) /\ holder'[e] = w
         \/ \E w \in Workers : SettledBy(w) /\ proc[w].event = e
<1>1. CASE \E S \in SUBSET Events : InsertMany(S)
  BY <1>1 DEF InsertMany, history
<1>2. CASE \E w \in Workers, f \in Events : ClaimedBy(w, f)
  <2>1. PICK w \in Workers, f \in Events : ClaimedBy(w, f)
    BY <1>2
  <2>2. CASE f = e
    BY <2>1, <2>2, ClaimedShape DEF ClaimedBy, TypeOK
  <2>3. CASE f # e
    <3>1. rec'[e] = rec[e] /\ holder'[e] = holder[e]
      BY <2>1, <2>3, ClaimedShape DEF ClaimedBy, TypeOK
    <3> QED
      BY <3>1
  <2> QED
    BY <2>2, <2>3
<1>3. CASE UNCHANGED holder /\ \E w \in Workers : SettledBy(w)
  <2>1. PICK w \in Workers : SettledBy(w)
    BY <1>3
  <2>2. PICK s \in Terminal \cup {"RETRY"}, n \in {0, 1}, d \in Nat :
          rec' = Settled(proc[w].event, s, n, d)
    BY <2>1 DEF SettledBy, Settling
  <2>3. proc[w].event \in Events /\ s \in Statuses /\ n \in Nat
    BY <2>1, BusyShape DEF SettledBy, Statuses, Terminal
  <2>4. CASE proc[w].event = e
    BY <2>1, <2>4
  <2>5. CASE proc[w].event # e
    <3>1. rec'[e] = rec[e]
      BY <2>2, <2>3, <2>5, SettledShape
    <3> QED
      BY <1>3, <3>1
  <2> QED
    BY <2>4, <2>5
<1>4. CASE UNCHANGED holder /\ rec'[e] = Older(rec[e])
  BY <1>4, OlderShape DEF TypeOK
<1> QED
  BY <1>1, <1>2, <1>3, <1>4, RecordSteps

\* The lock of a record names the worker whose claim is the latest.
Leases ==
  \A e \in Events :
    rec[e].status = "PROCESSING"
    => holder[e] \in Workers /\ rec[e].lockedBy = WorkerId[holder[e]]

LEMMA LeasesStep == ASSUME TypeOK, Leases, [Next]_vars PROVE Leases'
<1> SUFFICES ASSUME NEW e \in Events, rec'[e].status = "PROCESSING"
             PROVE  /\ holder'[e] \in Workers
                    /\ rec'[e].lockedBy = WorkerId[holder'[e]]
  BY DEF Leases
<1>1. CASE /\ rec[e].status = "PROCESSING" /\ holder'[e] = holder[e]
           /\ rec'[e].lockedBy = rec[e].lockedBy
  BY <1>1 DEF Leases
<1>2. CASE \E w \in Workers :
             holder'[e] = w /\ rec'[e].lockedBy = WorkerId[w]
  BY <1>2
<1> QED
  BY <1>1, <1>2, LockedBefore

\* Under distinct ids an owner is that worker.
LEMMA OwnerHolds ==
  ASSUME DistinctIds, Leases, NEW w \in Workers, NEW e \in Events, Owns(w, e)
  PROVE  holder[e] = w
  BY DEF Owns, Leases, DistinctIds

\* A record is settled or rescheduled by its latest claimant only.
THEOREM HoldersMark ==
  ASSUME DistinctIds PROVE Spec => OnlyHolderMarks
<1>1. Init => Leases
  BY DEF Init, Leases, Unclaimed
<1>2. TypeOK /\ Leases /\ [Next]_vars => Leases'
  BY LeasesStep
<1>3. TypeOK /\ Leases /\ [Next]_vars =>
        [\A e \in Events :
           rec[e].status = "PROCESSING" /\ rec'[e].status # "PROCESSING"
           => \E w \in Workers : /\ proc'[w] # proc[w]
                                 /\ proc[w].event = e /\ holder[e] = w]_vars
  <2> SUFFICES ASSUME TypeOK, Leases, [Next]_vars, NEW e \in Events,
                      rec[e].status = "PROCESSING", rec'[e].status # "PROCESSING"
               PROVE  \E w \in Workers : /\ proc'[w] # proc[w]
                                         /\ proc[w].event = e /\ holder[e] = w
    OBVIOUS
  <2>1. ~ \E w \in Workers : ClaimedBy(w, e)
    BY ClaimedShape DEF ClaimedBy
  <2>2. PICK w \in Workers : SettledBy(w) /\ proc[w].event = e
    BY <2>1, LockedAfter
  <2>3. proc'[w] # proc[w] /\ Owns(w, e)
    BY <2>2 DEF SettledBy, Settling
  <2> QED
    BY <2>2, <2>3, OwnerHolds
<1> QED
  BY <1>1, <1>2, <1>3, TypeCorrect, PTL DEF Spec, OnlyHolderMarks

-----------------------------------------------------------------------------
(* The attempts.  What a worker copied at its claim stays true as long as   *)
(* it owns the record.                                                      *)

Copies ==
  \A w \in Workers :
    proc[w].at \in Holding /\ Owns(w, proc[w].event)
    => proc[w].seen = rec[proc[w].event].attempts

Retries == \A w \in Workers : proc[w].at = "retrying" => RetryLeft(proc[w].seen)

Counted == Leases /\ Copies /\ Retries /\ NoRecordStranded

LEMMA CopiesStep ==
  ASSUME DistinctIds, TypeOK, Copies, [Next]_vars
  PROVE  Copies'
<1> SUFFICES ASSUME NEW w \in Workers, proc'[w].at \in Holding,
                    rec'[proc'[w].event].status = "PROCESSING",
                    rec'[proc'[w].event].lockedBy = WorkerId[w]
             PROVE  proc'[w].seen = rec'[proc'[w].event].attempts
  BY DEF Copies, Owns
<1>1. CASE proc'[w] = proc[w]
  <2> DEFINE e == proc[w].event
  <2>1. e \in Events
    BY <1>1, BusyShape DEF Busy
  <2>2. ~ ClaimedBy(w, e)
    BY <1>1 DEF ClaimedBy, Holding
  <2>3. /\ rec[e].status = "PROCESSING" /\ rec'[e].lockedBy = rec[e].lockedBy
        /\ rec'[e].attempts = rec[e].attempts
    BY <1>1, <2>1, <2>2, LockedBefore DEF DistinctIds
  <2> QED
    BY <1>1, <2>3 DEF Copies, Owns
<1>2. CASE Took(w)
  BY <1>2, ClaimedShape DEF Took, ClaimedBy
<1>3. CASE Heard(w)
  BY <1>3 DEF Heard, Keeps, Copies, Owns, Holding
<1>4. CASE Unanswered(w)
  <2>1. ~ SettledBy(w)
    <3>1. SUFFICES ASSUME SettledBy(w) PROVE FALSE
      OBVIOUS
    <3>2. PICK s \in Terminal \cup {"RETRY"}, n \in {0, 1}, d \in Nat :
            rec' = Settled(proc[w].event, s, n, d)
      BY <3>1 DEF SettledBy, Settling
    <3>3. /\ proc[w].event \in Events /\ s \in Statuses /\ n \in Nat
          /\ s # "PROCESSING"
      BY <3>1, BusyShape DEF SettledBy, Statuses, Terminal
    <3> QED
      BY <1>4, <3>2, <3>3, SettledShape DEF Unanswered, Keeps
  <2> QED
    BY <1>4, <2>1 DEF Unanswered, Keeps, Copies, Owns, Holding
<1> QED
  BY <1>1, <1>2, <1>3, <1>4, PollerSteps DEF Fenced, Busy, Holding

LEMMA RetriesStep == ASSUME TypeOK, Retries, [Next]_vars PROVE Retries'
<1> SUFFICES ASSUME NEW w \in Workers, proc'[w].at = "retrying"
             PROVE  proc'[w].seen + 1 < MaxAttempts
  BY DEF Retries, RetryLeft
<1>1. CASE proc'[w] = proc[w]
  BY <1>1 DEF Retries, RetryLeft
<1>2. CASE Heard(w)
  BY <1>2 DEF Heard, Keeps, AfterDispatch, RetryLeft
<1> QED
  BY <1>1, <1>2, PollerSteps DEF Took, Fenced, Unanswered, Busy, Holding

LEMMA StrandedStep ==
  ASSUME TypeOK, Copies, Retries, NoRecordStranded, [Next]_vars
  PROVE  NoRecordStranded'
<1> SUFFICES ASSUME NEW e \in Events, rec'[e].status \notin Terminal
             PROVE  rec'[e].attempts < MaxAttempts
  BY DEF NoRecordStranded
<1>0. MaxAttempts \in Nat \ {0}
  BY OutboxAssumption DEF OutboxAssumption
<1>1. CASE rec'[e] = rec[e] \/ rec'[e] = Older(rec[e])
  BY <1>1, OlderShape DEF NoRecordStranded, TypeOK
<1>2. CASE \E S \in SUBSET Events : InsertMany(S)
  BY <1>0, <1>1, <1>2 DEF InsertMany, Unclaimed
<1>3. CASE \E w \in Workers, f \in Events : ClaimedBy(w, f)
  BY <1>1, <1>3, ClaimedShape DEF ClaimedBy, Claimable
<1>4. CASE \E w \in Workers : SettledBy(w)
  <2>1. PICK w \in Workers, s \in Terminal \cup {"RETRY"}, n \in {0, 1}, d \in Nat :
          /\ proc[w].at \in Busy /\ Owns(w, proc[w].event)
          /\ Cause(w, s, n, d) /\ rec' = Settled(proc[w].event, s, n, d)
    BY <1>4 DEF SettledBy, Settling
  <2> DEFINE f == proc[w].event
  <2>2. f \in Events /\ s \in Statuses /\ n \in Nat
    BY <2>1, BusyShape DEF Statuses, Terminal
  <2>3. /\ rec'[f].status = s /\ rec'[f].attempts = rec[f].attempts + n
        /\ f # e => rec'[e] = rec[e]
    <3>1. rec' = Settled(f, s, n, d)
      BY <2>1
    <3> HIDE DEF f
    <3> QED BY <2>2, <3>1, SettledShape
  <2>4. CASE f = e
    <3>1. n = 1 /\ proc[w].at = "retrying"
      BY <2>1, <2>3, <2>4 DEF Cause, Terminal
    <3>2. proc[w].seen = rec[f].attempts /\ proc[w].seen + 1 < MaxAttempts
      BY <2>1, <3>1 DEF Copies, Retries, RetryLeft, Holding
    <3> QED
      BY <2>3, <2>4, <3>1, <3>2
  <2> QED
    BY <1>1, <2>3, <2>4
<1> QED
  BY <1>1, <1>2, <1>3, <1>4, RecordSteps

LEMMA InitCounted == Init => Counted
  BY OutboxAssumption DEF Init, Counted, Leases, Copies, Retries, NoRecordStranded, Unclaimed, Stopped,
         Fresh, Holding, OutboxAssumption

\* No unsettled record ever runs out of attempts and is forgotten.
THEOREM NoneStranded ==
  ASSUME DistinctIds PROVE Spec => []NoRecordStranded
<1>1. TypeOK /\ Counted /\ [Next]_vars => Counted'
  BY LeasesStep, CopiesStep, RetriesStep, StrandedStep DEF Counted
<1>2. Counted => NoRecordStranded
  BY DEF Counted
<1> QED
  BY <1>1, <1>2, InitCounted, TypeCorrect, PTL DEF Spec

-----------------------------------------------------------------------------
(* Without failing writes: the latest claimant is never fenced off, and an  *)
(* event is given up for a reason.                                          *)

HoldersOwn ==
  \A w \in Workers :
    proc[w].at \in Holding /\ holder[proc[w].event] = w => Owns(w, proc[w].event)

FencedLost ==
  \A w \in Workers : proc[w].at = "finalize" => holder[proc[w].event] # w

Reasons ==
  \A w \in Workers :
    proc[w].at = "failing"
    => "nonRetryable" \in Outcomes[proc[w].event] \/ ~RetryLeft(proc[w].seen)

Rightful == HoldersOwn /\ FencedLost /\ Reasons

\* A worker that does not move does not claim or settle, and the latest
\* claim of its record is its own only if it was before.
LEMMA HolderBefore ==
  ASSUME TypeOK, [Next]_vars, NEW w \in Workers, NEW e \in Events,
         holder'[e] = w, proc[w].at # "batch"
  PROVE  holder[e] = w
<1>1. CASE \E v \in Workers, f \in Events : ClaimedBy(v, f)
  <2>1. PICK v \in Workers, f \in Events : ClaimedBy(v, f)
    BY <1>1
  <2>2. v # w
    BY <2>1 DEF ClaimedBy
  <2> QED
    BY <2>1, <2>2 DEF ClaimedBy, TypeOK
<1> QED
  BY <1>1, RecordSteps DEF InsertMany, history

LEMMA HoldersOwnStep ==
  ASSUME DistinctIds, "write" \notin FaultKinds, TypeOK, Leases, HoldersOwn, [Next]_vars
  PROVE  HoldersOwn'
<1> SUFFICES ASSUME NEW w \in Workers, proc'[w].at \in Holding,
                    holder'[proc'[w].event] = w
             PROVE  /\ rec'[proc'[w].event].status = "PROCESSING"
                    /\ rec'[proc'[w].event].lockedBy = WorkerId[w]
  BY DEF HoldersOwn, Owns
<1>1. CASE proc'[w] = proc[w]
  <2> DEFINE e == proc[w].event
  <2>1. e \in Events /\ proc[w].at # "batch"
    BY <1>1, BusyShape DEF Busy, Holding
  <2>2. holder[e] = w
    BY <1>1, <2>1, HolderBefore
  <2>3. Owns(w, e)
    BY <1>1, <2>2 DEF HoldersOwn
  <2>4. ~ \E v \in Workers : ClaimedBy(v, e) /\ holder'[e] = v
    BY <1>1, <2>1 DEF ClaimedBy
  <2>5. ~ \E v \in Workers : SettledBy(v) /\ proc[v].event = e
    <3>1. SUFFICES ASSUME NEW v \in Workers, SettledBy(v), proc[v].event = e
                   PROVE  FALSE
      OBVIOUS
    <3>2. holder[e] = v
      BY <2>1, <3>1, OwnerHolds DEF SettledBy, Settling
    <3> QED
      BY <1>1, <2>2, <3>1, <3>2 DEF SettledBy
  <2> QED
    BY <1>1, <2>1, <2>3, <2>4, <2>5, LockedAfter DEF Owns
<1>2. CASE Took(w)
  BY <1>2, ClaimedShape DEF Took, ClaimedBy
<1>3. CASE Heard(w)
  BY <1>3 DEF Heard, Keeps, HoldersOwn, Owns, Holding
<1> QED
  BY <1>1, <1>2, <1>3, PollerSteps DEF Fenced, Unanswered, Busy, Holding

LEMMA FencedLostStep ==
  ASSUME "write" \notin FaultKinds, TypeOK, HoldersOwn, FencedLost, [Next]_vars
  PROVE  FencedLost'
<1> SUFFICES ASSUME NEW w \in Workers, proc'[w].at = "finalize",
                    holder'[proc'[w].event] = w
             PROVE  FALSE
  BY DEF FencedLost
<1>1. CASE proc'[w] = proc[w]
  <2>1. proc[w].event \in Events
    BY <1>1, BusyShape DEF Busy
  <2> QED
    BY <1>1, <2>1, HolderBefore DEF FencedLost
<1>2. CASE Fenced(w)
  BY <1>2 DEF Fenced, Keeps, HoldersOwn
<1>3. ~ Heard(w)
  BY DEF Heard, AfterDispatch
<1> QED
  BY <1>1, <1>2, <1>3, PollerSteps DEF Took, Unanswered, Busy

LEMMA ReasonsStep ==
  ASSUME "write" \notin FaultKinds, TypeOK, Reasons, [Next]_vars
  PROVE  Reasons'
<1> SUFFICES ASSUME NEW w \in Workers, proc'[w].at = "failing"
             PROVE  \/ "nonRetryable" \in Outcomes[proc'[w].event]
                    \/ ~(proc'[w].seen + 1 < MaxAttempts)
  BY DEF Reasons, RetryLeft
<1>1. CASE proc'[w] = proc[w]
  BY <1>1 DEF Reasons, RetryLeft
<1>2. CASE Heard(w)
  <2>1. PICK result \in Outcomes[proc[w].event] :
          proc'[w].at = AfterDispatch(result, proc[w].seen)
    BY <1>2 DEF Heard
  <2>2. Outcomes[proc[w].event] \subseteq Results
    BY <1>2, BusyShape, OutboxAssumption DEF Heard, Busy, Holding, OutboxAssumption
  <2>3. result = "nonRetryable" \/ ~RetryLeft(proc[w].seen)
    BY <2>1, <2>2 DEF AfterDispatch, Results
  <2> QED
    BY <1>2, <2>1, <2>3 DEF Heard, Keeps, RetryLeft
<1> QED
  BY <1>1, <1>2, PollerSteps DEF Took, Fenced, Unanswered, Busy, Holding

LEMMA InitRightful == Init => Rightful
  BY DEF Init, Rightful, HoldersOwn, FencedLost, Reasons, Stopped, Fresh, Holding

\* The invariant crash is never raised against a rightful holder.
THEOREM RightfulNeverCrash ==
  ASSUME DistinctIds PROVE Spec => []CrashOnlyIfFenced
<1>1. CASE "write" \in FaultKinds
  <2>1. TypeOK => CrashOnlyIfFenced
    BY <1>1 DEF CrashOnlyIfFenced
  <2> QED
    BY <2>1, TypeCorrect, PTL
<1>2. CASE "write" \notin FaultKinds
  <2>1. TypeOK /\ Leases /\ Rightful /\ [Next]_vars => Leases' /\ Rightful'
    BY <1>2, LeasesStep, HoldersOwnStep, FencedLostStep, ReasonsStep DEF Rightful
  <2>2. Rightful => CrashOnlyIfFenced
    BY DEF Rightful, FencedLost, CrashOnlyIfFenced
  <2>3. Init => Leases
    BY InitCounted DEF Counted
  <2> QED
    BY <2>1, <2>2, <2>3, InitRightful, TypeCorrect, PTL DEF Spec
<1> QED
  BY <1>1, <1>2

LEMMA GivenUpStep ==
  ASSUME DistinctIds, "write" \notin FaultKinds, TypeOK, Quiet, Counted, Rightful,
         GivenUpForCause, [Next]_vars
  PROVE  GivenUpForCause'
<1> SUFFICES ASSUME NEW e \in Events, rec'[e].status = "FAILED_FINAL"
             PROVE  "nonRetryable" \in Outcomes[e] \/ rec'[e].attempts = MaxAttempts
  BY DEF GivenUpForCause
<1>1. CASE rec[e].status = "FAILED_FINAL"
  BY <1>1, SettledStep DEF GivenUpForCause, Terminal
<1>2. CASE rec[e].status # "FAILED_FINAL"
  <2>1. CASE \E S \in SUBSET Events : InsertMany(S)
    BY <1>2, <2>1 DEF InsertMany, Unclaimed
  <2>2. CASE \E w \in Workers, f \in Events : ClaimedBy(w, f)
    BY <1>2, <2>2, ClaimedShape DEF ClaimedBy
  <2>3. CASE \E w \in Workers : SettledBy(w)
    <3>1. PICK w \in Workers, s \in Terminal \cup {"RETRY"}, n \in {0, 1}, d \in Nat :
            /\ proc[w].at \in Busy /\ Owns(w, proc[w].event)
            /\ Cause(w, s, n, d) /\ rec' = Settled(proc[w].event, s, n, d)
      BY <2>3 DEF SettledBy, Settling
    <3> DEFINE f == proc[w].event
    <3>2. f \in Events /\ s \in Statuses /\ n \in Nat
      BY <3>1, BusyShape DEF Statuses, Terminal
    <3>3. /\ rec'[f].status = s /\ rec'[f].attempts = rec[f].attempts + n
          /\ f # e => rec'[e] = rec[e]
      BY <3>1, <3>2, SettledShape
    <3>4. f = e /\ n = 1 /\ proc[w].at \in {"failing", "finalize"}
      BY <1>2, <3>1, <3>3 DEF Cause
    <3>5. holder[f] = w
      BY <3>1, <3>2, OwnerHolds DEF Counted
    <3>6. proc[w].at = "failing"
      BY <3>4, <3>5 DEF Rightful, FencedLost
    <3>7. /\ proc[w].seen = rec[f].attempts
          /\ "nonRetryable" \in Outcomes[f] \/ ~(proc[w].seen + 1 < MaxAttempts)
      BY <3>1, <3>6 DEF Counted, Copies, Rightful, Reasons, RetryLeft, Holding
    <3>8. rec[f].attempts < MaxAttempts
      BY <3>1, <3>2 DEF Counted, NoRecordStranded, Owns, Terminal
    <3>9. rec[f].attempts \in Nat /\ MaxAttempts \in Nat
      BY <3>2, OutboxAssumption DEF TypeOK, Records, OutboxAssumption
    <3> HIDE DEF f
    <3> QED
      BY <3>3, <3>4, <3>7, <3>8, <3>9
  <2>4. CASE rec'[e] = Older(rec[e])
    BY <1>2, <2>4, OlderShape DEF TypeOK
  <2> QED
    BY <1>2, <2>1, <2>2, <2>3, <2>4, RecordSteps
<1> QED
  BY <1>1, <1>2

\* An event is given up only for a rejection or for want of attempts.
THEOREM GivenUpWithCause ==
  ASSUME DistinctIds PROVE Spec => []GivenUpForCause
<1>1. CASE "write" \in FaultKinds
  <2>1. TypeOK => GivenUpForCause
    BY <1>1 DEF GivenUpForCause
  <2> QED
    BY <2>1, TypeCorrect, PTL
<1>2. CASE "write" \notin FaultKinds
  <2> DEFINE Inv == Quiet /\ Counted /\ Rightful /\ GivenUpForCause
  <2>1. TypeOK /\ Inv /\ [Next]_vars => Inv'
    BY <1>2, QuietStep, LeasesStep, CopiesStep, RetriesStep, StrandedStep,
       HoldersOwnStep, FencedLostStep, ReasonsStep, GivenUpStep DEF Counted, Rightful
  <2>2. Init => Inv
    BY InitCounted, InitRightful DEF Init, Quiet, GivenUpForCause, Unclaimed, Terminal
  <2>3. Inv => GivenUpForCause
    OBVIOUS
  <2> HIDE DEF Inv
  <2> QED
    BY <2>1, <2>2, <2>3, TypeCorrect, PTL DEF Spec
<1> QED
  BY <1>1, <1>2

-----------------------------------------------------------------------------
(* The quarantine, under any identities.                                   *)

\* Before the key is set no claim is late; a worker within a batch has made
\* no more late claims than claims of that batch.
LateClaims ==
  /\ ~quarantined => \A w \in Workers : late[w] = 0
  /\ \A w \in Workers :
       /\ late[w] <= BatchSize
       /\ proc[w].at \in Holding \cup {"batch"} => late[w] <= proc[w].taken

InBatch(at) == at \in Holding \cup {"batch"}

\* A claim after the key was set uses up one of the batch.
LateClaim(w) ==
  /\ quarantined /\ proc[w].at = "batch" /\ BatchOpen(w)
  /\ late'[w] = late[w] + 1
  /\ InBatch(proc'[w].at) => proc'[w].taken = proc[w].taken + 1

\* A batch begins only before the key is set.
OnTime(w) ==
  InBatch(proc'[w].at)
  => \/ ~quarantined
     \/ InBatch(proc[w].at) /\ proc'[w].taken >= proc[w].taken

LEMMA LateSteps ==
  ASSUME TypeOK, [Next]_vars, NEW w \in Workers
  PROVE  /\ quarantined => quarantined'
         /\ late'[w] = late[w] \/ LateClaim(w)
         /\ OnTime(w)
<1>0. /\ late \in [Workers -> Nat] /\ proc[w] \in Pollers
      /\ proc[w].taken \in Nat /\ proc[w].taken >= proc[w].taken
      /\ proc[w].taken + 1 >= proc[w].taken
  <2>1. late \in [Workers -> Nat] /\ proc[w] \in Pollers /\ proc[w].taken \in Nat
    BY OutboxAssumption DEF TypeOK, Pollers, OutboxAssumption
  <2> QED
    BY <2>1
<1>1. quarantined => quarantined'
  BY DEF Next, Poll, Break, InsertMany, Start, PollDeferred, BeginBatch, Claim, EndBatch,
     Dispatch, MarkDispatched, MarkRetry, MarkFailedFinal, FinalizeInvariantFailure,
     RecordCrash, EnterQuarantine, Kill, Stop, ClaimFails, MarkFails,
     CrashWindowExpires, Tick, vars, redis
<1>2. ASSUME NEW v \in Workers, v # w,
             Start(v) \/ PollDeferred(v) \/ Poll(v) \/ Break(v)
      PROVE  late'[w] = late[w] /\ proc'[w] = proc[w]
  BY <1>0, <1>2 DEF Start, PollDeferred, Poll, Break, BeginBatch, Claim, EndBatch,
     Dispatch, MarkDispatched, MarkRetry, MarkFailedFinal, FinalizeInvariantFailure,
     RecordCrash, EnterQuarantine, Kill, Stop, ClaimFails, MarkFails, Goto, vars,
     history, TypeOK
<1>3. CASE proc'[w] = proc[w] /\ late'[w] = late[w]
  BY <1>0, <1>1, <1>3 DEF OnTime
<1>4. CASE Claim(w)
  <2>1. proc'[w].at = "claimed" /\ proc'[w].taken = proc[w].taken + 1
    BY <1>4 DEF Claim, TypeOK
  <2>2. late'[w] = late[w] \/ LateClaim(w)
    BY <1>0, <1>4, <2>1 DEF Claim, LateClaim
  <2> QED
    BY <1>0, <1>1, <1>4, <2>1, <2>2 DEF Claim, OnTime, InBatch
<1>5. CASE ClaimFails(w)
  <2>1. ~InBatch(proc'[w].at)
    BY <1>5, GotoShape DEF ClaimFails, InBatch, Holding, Locations
  <2> QED
    BY <1>0, <1>1, <1>5, <2>1 DEF ClaimFails, LateClaim, OnTime
<1>6. CASE BeginBatch(w)
  BY <1>1, <1>6 DEF BeginBatch, OnTime, history
<1>7. ASSUME \/ Dispatch(w) \/ MarkDispatched(w) \/ MarkRetry(w)
             \/ MarkFailedFinal(w) \/ FinalizeInvariantFailure(w) \/ MarkFails(w)
             \/ EndBatch(w)
      PROVE  late'[w] = late[w] /\ OnTime(w)
  <2>1. late' = late
    BY <1>7 DEF Dispatch, MarkDispatched, MarkRetry, MarkFailedFinal,
       FinalizeInvariantFailure, MarkFails, EndBatch, history
  <2>2. \/ InBatch(proc[w].at) /\ \E at \in Locations : Goto(w, at)
        \/ \E at \in Locations : ~InBatch(at) /\ Goto(w, at)
    BY <1>7 DEF Dispatch, AfterDispatch, MarkDispatched, MarkRetry, MarkFailedFinal,
       FinalizeInvariantFailure, MarkFails, EndBatch, InBatch, Holding, Locations
  <2>3. \/ InBatch(proc[w].at) /\ proc'[w].taken = proc[w].taken
        \/ ~InBatch(proc'[w].at)
    BY <2>2, GotoShape
  <2> QED
    BY <1>0, <2>1, <2>3 DEF OnTime
<1>8. ASSUME \/ Start(w) \/ RecordCrash(w) \/ EnterQuarantine(w) \/ Kill(w) \/ Stop(w)
      PROVE  late'[w] = late[w] /\ OnTime(w)
  <2>1. late' = late
    BY <1>8 DEF Start, RecordCrash, EnterQuarantine, Kill, Stop, history
  <2>2. \E at \in {"idle", "quarantine", "down"} :
          Goto(w, at) \/ proc' = [proc EXCEPT ![w] = Fresh(at)]
    BY <1>8 DEF Start, RecordCrash, EnterQuarantine, Kill, Stop, Stopped, Goto
  <2>3. ~InBatch(proc'[w].at)
    BY <2>2, GotoShape, FreshShape DEF InBatch, Holding, Locations
  <2> QED
    BY <2>1, <2>3 DEF OnTime
<1>9. CASE \E v \in Workers : Start(v) \/ PollDeferred(v) \/ Poll(v) \/ Break(v)
  <2>1. PICK v \in Workers : Start(v) \/ PollDeferred(v) \/ Poll(v) \/ Break(v)
    BY <1>9
  <2>2. CASE v # w
    BY <1>2, <1>3, <2>1, <2>2
  <2>3. CASE v = w
    <3>1. Start(w) \/ PollDeferred(w) \/ Poll(w) \/ Break(w)
      BY <2>1, <2>3
    <3>2. CASE PollDeferred(w)
      BY <1>3, <3>2 DEF PollDeferred, vars, history
    <3>3. CASE Start(w) \/ Break(w)
      BY <1>1, <1>5, <1>7, <1>8, <3>3 DEF Break
    <3>4. CASE Poll(w)
      BY <1>1, <1>4, <1>6, <1>7, <1>8, <3>4 DEF Poll
    <3> QED
      BY <3>1, <3>2, <3>3, <3>4
  <2> QED
    BY <2>2, <2>3
<1>10. CASE \/ \E S \in SUBSET Events : InsertMany(S)
            \/ CrashWindowExpires \/ Tick \/ UNCHANGED vars
  BY <1>3, <1>10 DEF InsertMany, CrashWindowExpires, Tick, vars, history
<1> QED
  BY <1>9, <1>10 DEF Next

LEMMA LateClaimsStep == ASSUME TypeOK, LateClaims, [Next]_vars PROVE LateClaims'
<1>1. ASSUME NEW w \in Workers, ~quarantined' PROVE late'[w] = 0
  BY <1>1, LateSteps DEF LateClaims, LateClaim
<1>2. ASSUME NEW w \in Workers
      PROVE  /\ late'[w] <= BatchSize
             /\ InBatch(proc'[w].at) => late'[w] <= proc'[w].taken
  <2>1. /\ late[w] \in Nat /\ proc[w].taken \in Nat /\ BatchSize \in Nat
        /\ proc'[w].taken \in Nat
    BY NextType, OutboxAssumption DEF TypeOK, Pollers, OutboxAssumption
  <2>2. /\ ~quarantined => late[w] = 0
        /\ late[w] <= BatchSize
        /\ InBatch(proc[w].at) => late[w] <= proc[w].taken
    BY DEF LateClaims, InBatch
  <2>3. CASE LateClaim(w)
    <3>1. late[w] <= proc[w].taken /\ proc[w].taken < BatchSize
      BY <2>2, <2>3 DEF LateClaim, BatchOpen, InBatch
    <3> QED
      BY <2>1, <2>3, <3>1 DEF LateClaim
  <2>4. CASE late'[w] = late[w]
    <3>1. InBatch(proc'[w].at)
          => \/ ~quarantined
             \/ InBatch(proc[w].at) /\ proc'[w].taken >= proc[w].taken
      BY LateSteps DEF OnTime
    <3> QED
      BY <2>1, <2>2, <2>4, <3>1
  <2> QED
    BY <2>3, <2>4, LateSteps
<1> QED
  BY <1>1, <1>2 DEF LateClaims, InBatch

\* Once the quarantine key is set no worker claims more than one batch, however
\* often it is restarted.
THEOREM QuarantineBounds == Spec => []QuarantineBoundsClaims
<1>1. Init => LateClaims
  BY OutboxAssumption
     DEF Init, LateClaims, Stopped, Fresh, Holding, OutboxAssumption
<1>2. TypeOK /\ LateClaims /\ [Next]_vars => LateClaims'
  BY LateClaimsStep
<1>3. LateClaims => QuarantineBoundsClaims
  BY DEF LateClaims, QuarantineBoundsClaims
<1> QED
  BY <1>1, <1>2, <1>3, TypeCorrect, PTL DEF Spec
=============================================================================
