------------------------------- MODULE Outbox -------------------------------
(***************************************************************************)
(* The transactional outbox of the system runtime: the collection of event *)
(* records (DomainEventOutboxRepository), the poller every system process  *)
(* runs over it (DomainEventOutboxPoller and its loop in the registrar)    *)
(* and the crash accounting that stops all pollers (quarantine).           *)
(*                                                                         *)
(* One MongoDB or Redis round trip is one action; everything a worker does *)
(* between two awaits belongs to the action that ends the first.  Time is  *)
(* relative: a record carries the age of its lock and the time left until  *)
(* its retry, so that "lockedAt <= now - lockTtl" is lockAge >= LockTtl    *)
(* and "nextAttemptAt <= now" is wait = 0.                                 *)
(***************************************************************************)
EXTENDS Naturals

CONSTANTS
  Events,          \* the events that mutations may ever commit
  Workers,         \* system processes; a restarted process keeps its slot
  WorkerId,        \* [Workers -> ids]: "outbox.poller-<pid>" of each process
  CreatedAt,       \* [Events -> Nat]: the creation time the claim sorts by
  Outcomes,        \* [Events -> results the dispatcher may give for the event]
  MaxAttempts,     \* maxAttempts of a record
  BatchSize,       \* POLL_BATCH_SIZE
  LockTtl,         \* lockTtlMs
  BaseDelay, MaxDelay,  \* the bounds of the retry backoff
  CrashThreshold,  \* WORKER_CRASH_THRESHOLD
  FaultKinds,      \* the kinds of fault that may happen
  MaxFaults,       \* bound on the number of faults of a behaviour
  NoEvent, NoWorker

Results == {"ack", "retryable", "nonRetryable"}
Faults == {"kill", "stop", "write", "slow"}

ASSUME OutboxAssumption ==
  /\ CreatedAt \in [Events -> Nat]
  /\ Outcomes \in [Events -> SUBSET Results]
  /\ MaxAttempts \in Nat \ {0}
  /\ BatchSize \in Nat \ {0}
  /\ LockTtl \in Nat \ {0}
  /\ BaseDelay \in Nat /\ MaxDelay \in Nat
  /\ CrashThreshold \in Nat \ {0}
  /\ FaultKinds \subseteq Faults
  /\ MaxFaults \in Nat
  /\ NoEvent \notin Events
  /\ NoWorker \notin Workers

VARIABLES
  rec,          \* the collection: one record per event
  proc,         \* the poller of each worker
  crashCount,   \* the crash-rate key in Redis
  quarantined,  \* the quarantine key in Redis
  faults,       \* faults so far
  acked,        \* history: the dispatcher has accepted the event
  holder,       \* history: the worker whose claim of the event is the latest
  late          \* history: claims of the worker after the quarantine

redis == <<crashCount, quarantined>>
history == <<acked, holder, late>>
vars == <<rec, proc, redis, faults, history>>

Statuses ==
  {"ABSENT", "PENDING", "PROCESSING", "RETRY", "DISPATCHED", "FAILED_FINAL"}
Terminal == {"DISPATCHED", "FAILED_FINAL"}
Locations ==
  {"down", "idle", "batch", "claimed", "acked", "retrying", "failing",
   "finalize", "crash", "quarantine"}
Holding == {"claimed", "acked", "retrying", "failing"}
Busy == Holding \cup {"finalize"}

Records ==
  [status : Statuses, attempts : Nat,
   lockedBy : {WorkerId[w] : w \in Workers} \cup {NoWorker},
   lockAge : 0..LockTtl, wait : Nat]
Pollers ==
  [at : Locations, event : Events \cup {NoEvent}, seen : Nat, taken : 0..BatchSize]

Unclaimed(status) ==
  [status |-> status, attempts |-> 0, lockedBy |-> NoWorker, lockAge |-> 0, wait |-> 0]
Fresh(at) == [at |-> at, event |-> NoEvent, seen |-> 0, taken |-> 0]
Stopped == Fresh("down")

Init ==
  /\ rec = [e \in Events |-> Unclaimed("ABSENT")]
  /\ proc = [w \in Workers |-> Stopped]
  /\ crashCount = 0 /\ quarantined = FALSE
  /\ faults = 0
  /\ acked = [e \in Events |-> FALSE]
  /\ holder = [e \in Events |-> NoWorker]
  /\ late = [w \in Workers |-> 0]

-----------------------------------------------------------------------------
(* The collection.                                                         *)

\* Faulty variant: everything that is not locked can be claimed.
ClaimableUnlessLocked(e) ==
  /\ rec[e].attempts < MaxAttempts
  /\ \/ rec[e].status \notin {"ABSENT", "PROCESSING"}
     \/ rec[e].status = "PROCESSING" /\ rec[e].lockAge >= LockTtl

\* Faulty variant: a lock is never reclaimed.
ClaimableNoReclaim(e) ==
  /\ rec[e].attempts < MaxAttempts
  /\ \/ rec[e].status = "PENDING"
     \/ rec[e].status = "RETRY" /\ rec[e].wait = 0

Claimable(e) ==
  /\ rec[e].attempts < MaxAttempts
  /\ \/ rec[e].status = "PENDING"
     \/ rec[e].status = "RETRY" /\ rec[e].wait = 0
     \/ rec[e].status = "PROCESSING" /\ rec[e].lockAge >= LockTtl

Oldest(e) == \A f \in Events : Claimable(f) => CreatedAt[e] <= CreatedAt[f]

\* Faulty variant: the filter forgets lockedBy.
OwnsAnyLock(w, e) == rec[e].status = "PROCESSING"

\* The filter of the three mark operations.
Owns(w, e) == rec[e].status = "PROCESSING" /\ rec[e].lockedBy = WorkerId[w]

\* Faulty variant: a reclaim keeps the first owner.
ClaimedOnce(w, e) ==
  [rec EXCEPT ![e] = [status |-> "PROCESSING", attempts |-> rec[e].attempts,
                      lockedBy |-> IF rec[e].lockedBy = NoWorker THEN WorkerId[w]
                                   ELSE rec[e].lockedBy,
                      lockAge |-> 0, wait |-> 0]]

Claimed(w, e) ==
  [rec EXCEPT ![e] = [status |-> "PROCESSING", attempts |-> rec[e].attempts,
                      lockedBy |-> WorkerId[w], lockAge |-> 0, wait |-> 0]]

\* What is left of a record whose processing ended with status s; lockedBy
\* and lockedAt stay in the document but only a PROCESSING record's are read.
Settled(e, s, failed, delay) ==
  [rec EXCEPT ![e] = [status |-> s, attempts |-> rec[e].attempts + failed,
                      lockedBy |-> rec[e].lockedBy, lockAge |-> 0, wait |-> delay]]

RawBackoff(attempts) ==
  IF BaseDelay * 2^attempts < MaxDelay THEN BaseDelay * 2^attempts ELSE MaxDelay

\* The jitter is a hash of the event and the attempt: any value of its range.
Backoff(attempts) ==
  LET raw == RawBackoff(attempts)
  IN  {d \in 0..MaxDelay : d <= raw /\ 2 * d + 1 >= raw}

InsertMany(S) ==
  /\ \A e \in S : rec[e].status = "ABSENT"
  /\ rec' = [e \in Events |->
               IF e \in S THEN Unclaimed("PENDING") ELSE rec[e]]
  /\ UNCHANGED <<proc, redis, faults, history>>

-----------------------------------------------------------------------------
(* The poll loop of worker w.                                              *)

At(w, at) == [at |-> at, event |-> proc[w].event, seen |-> proc[w].seen,
              taken |-> proc[w].taken]
Goto(w, at) == proc' = [proc EXCEPT ![w] = At(w, at)]

Start(w) ==
  /\ proc[w].at = "down"
  /\ proc' = [proc EXCEPT ![w] = Fresh("idle")]
  /\ UNCHANGED <<rec, redis, faults, history>>

\* Faulty variant: the quarantine is not looked up.
BeginBatchUnchecked(w) ==
  /\ proc[w].at = "idle"
  /\ proc' = [proc EXCEPT ![w] = Fresh("batch")]
  /\ UNCHANGED <<rec, redis, faults, history>>

\* The quarantine key is read once, before the first claim of a batch.
BeginBatch(w) ==
  /\ proc[w].at = "idle"
  /\ ~quarantined
  /\ proc' = [proc EXCEPT ![w] = Fresh("batch")]
  /\ UNCHANGED <<rec, redis, faults, history>>

\* Quarantined, or the key cannot be read: the poll returns and sleeps.
PollDeferred(w) ==
  /\ proc[w].at = "idle"
  /\ UNCHANGED vars

\* Faulty variant: one claim too many.
BatchOpenTooLong(w) == proc[w].taken <= BatchSize

BatchOpen(w) == proc[w].taken < BatchSize

Claim(w) ==
  /\ proc[w].at = "batch"
  /\ BatchOpen(w)
  /\ \E e \in Events :
       /\ Claimable(e) /\ Oldest(e)
       /\ rec' = Claimed(w, e)
       /\ proc' = [proc EXCEPT ![w] = [at |-> "claimed", event |-> e,
                                       seen |-> rec[e].attempts,
                                       taken |-> proc[w].taken + 1]]
       /\ holder' = [holder EXCEPT ![e] = w]
       /\ late' = IF quarantined THEN [late EXCEPT ![w] = @ + 1] ELSE late
  /\ UNCHANGED <<redis, faults, acked>>

EndBatch(w) ==
  /\ proc[w].at = "batch"
  /\ ~BatchOpen(w) \/ \A e \in Events : ~Claimable(e)
  /\ Goto(w, "idle")
  /\ UNCHANGED <<rec, redis, faults, history>>

\* Faulty variant: the last attempt is not counted.
RetryLeftTooFew(seen) == seen + 2 < MaxAttempts

RetryLeft(seen) == seen + 1 < MaxAttempts

\* Faulty variant: an error of the dispatcher is taken for acceptance.
AfterDispatchSwallow(result, seen) == "acked"

AfterDispatch(result, seen) ==
  IF result = "ack" THEN "acked"
  ELSE IF result = "retryable" /\ RetryLeft(seen) THEN "retrying" ELSE "failing"

\* dispatcher.dispatch: the catch clause decides from the record as it was
\* when it was claimed whether a retry is left.
Dispatch(w) ==
  /\ proc[w].at = "claimed"
  /\ \E result \in Outcomes[proc[w].event] :
       /\ acked' = IF result = "ack"
                   THEN [acked EXCEPT ![proc[w].event] = TRUE] ELSE acked
       /\ Goto(w, AfterDispatch(result, proc[w].seen))
  /\ UNCHANGED <<rec, redis, faults, holder, late>>

MarkDispatched(w) ==
  /\ proc[w].at = "acked"
  /\ IF Owns(w, proc[w].event)
     THEN /\ rec' = Settled(proc[w].event, "DISPATCHED", 0, 0)
          /\ Goto(w, "batch")
     ELSE Goto(w, "finalize") /\ UNCHANGED rec
  /\ UNCHANGED <<redis, faults, history>>

MarkRetry(w) ==
  /\ proc[w].at = "retrying"
  /\ IF Owns(w, proc[w].event)
     THEN /\ \E d \in Backoff(proc[w].seen) :
               rec' = Settled(proc[w].event, "RETRY", 1, d)
          /\ Goto(w, "batch")
     ELSE Goto(w, "finalize") /\ UNCHANGED rec
  /\ UNCHANGED <<redis, faults, history>>

MarkFailedFinal(w) ==
  /\ proc[w].at = "failing"
  /\ IF Owns(w, proc[w].event)
     THEN /\ rec' = Settled(proc[w].event, "FAILED_FINAL", 1, 0)
          /\ Goto(w, "batch")
     ELSE Goto(w, "finalize") /\ UNCHANGED rec
  /\ UNCHANGED <<redis, faults, history>>

\* A SystemInvariantError reached processRecord: the record is marked once
\* more, and whatever that gives the crash handler runs.
FinalizeInvariantFailure(w) ==
  /\ proc[w].at = "finalize"
  /\ rec' = IF Owns(w, proc[w].event)
            THEN Settled(proc[w].event, "FAILED_FINAL", 1, 0) ELSE rec
  /\ Goto(w, "crash")
  /\ UNCHANGED <<redis, faults, history>>

-----------------------------------------------------------------------------
(* The crash handler: incr, then the quarantine key, then exit(1).  The    *)
(* counter is compared with the threshold only, so it saturates there.     *)

RecordCrash(w) ==
  /\ proc[w].at = "crash"
  /\ crashCount' = IF crashCount < CrashThreshold THEN crashCount + 1
                   ELSE CrashThreshold
  /\ proc' = [proc EXCEPT ![w] = IF crashCount' >= CrashThreshold
                                 THEN At(w, "quarantine") ELSE Stopped]
  /\ UNCHANGED <<rec, quarantined, faults, history>>

EnterQuarantine(w) ==
  /\ proc[w].at = "quarantine"
  /\ quarantined' = TRUE
  /\ proc' = [proc EXCEPT ![w] = Stopped]
  /\ UNCHANGED <<rec, crashCount, faults, history>>

CrashWindowExpires ==
  /\ crashCount > 0
  /\ crashCount' = 0
  /\ UNCHANGED <<rec, proc, quarantined, faults, history>>

-----------------------------------------------------------------------------
(* Faults, and the passage of time.                                        *)

Fault(kind) ==
  /\ kind \in FaultKinds
  /\ faults < MaxFaults
  /\ faults' = faults + 1

\* SIGKILL, an exit(1) caused elsewhere in the process, the shutdown timeout,
\* or a crash handler that cannot reach Redis.
Kill(w) ==
  /\ proc[w].at # "down"
  /\ Fault("kill")
  /\ proc' = [proc EXCEPT ![w] = Stopped]
  /\ UNCHANGED <<rec, redis, history>>

\* SIGTERM: the loop ends between two polls, then exit(0).
Stop(w) ==
  /\ proc[w].at = "idle"
  /\ Fault("stop")
  /\ proc' = [proc EXCEPT ![w] = Stopped]
  /\ UNCHANGED <<rec, redis, history>>

\* findOneAndUpdate throws; it may have been applied.  The loop logs and sleeps.
ClaimFails(w) ==
  /\ proc[w].at = "batch"
  /\ BatchOpen(w)
  /\ Fault("write")
  /\ \/ UNCHANGED <<rec, holder, late>>
     \/ \E e \in Events :
          /\ Claimable(e) /\ Oldest(e)
          /\ rec' = Claimed(w, e)
          /\ holder' = [holder EXCEPT ![e] = w]
          /\ late' = IF quarantined THEN [late EXCEPT ![w] = @ + 1] ELSE late
  /\ Goto(w, "idle")
  /\ UNCHANGED <<redis, acked>>

\* updateOne throws a driver error, applied or not.  In markDispatched the
\* error is caught like one of the dispatcher and is not retryable; in the
\* other two it ends the batch.
MarkFails(w) ==
  LET e == proc[w].event IN
  /\ Fault("write")
  /\ \/ /\ proc[w].at = "acked"
        /\ rec' \in {rec} \cup
             (IF Owns(w, e) THEN {Settled(e, "DISPATCHED", 0, 0)} ELSE {})
        /\ Goto(w, "failing")
     \/ /\ proc[w].at = "retrying"
        /\ rec' \in {rec} \cup
             (IF Owns(w, e)
              THEN {Settled(e, "RETRY", 1, d) : d \in Backoff(proc[w].seen)} ELSE {})
        /\ Goto(w, "idle")
     \/ /\ proc[w].at = "failing"
        /\ rec' \in {rec} \cup
             (IF Owns(w, e) THEN {Settled(e, "FAILED_FINAL", 1, 0)} ELSE {})
        /\ Goto(w, "idle")
     \/ /\ proc[w].at = "finalize"
        /\ UNCHANGED rec
        /\ Goto(w, "crash")
  /\ UNCHANGED <<redis, history>>

Older(r) ==
  [status |-> r.status, attempts |-> r.attempts, lockedBy |-> r.lockedBy,
   lockAge |-> IF r.status = "PROCESSING" /\ r.lockAge < LockTtl
               THEN r.lockAge + 1 ELSE r.lockAge,
   wait |-> IF r.wait > 0 THEN r.wait - 1 ELSE r.wait]

\* A worker that is still busy is about to lose its lease.
Overrun ==
  \E w \in Workers :
    /\ proc[w].at \in Holding
    /\ Owns(w, proc[w].event)
    /\ rec[proc[w].event].lockAge = LockTtl - 1

Tick ==
  /\ rec' = [e \in Events |-> Older(rec[e])]
  /\ rec' # rec
  /\ IF Overrun THEN Fault("slow") ELSE UNCHANGED faults
  /\ UNCHANGED <<proc, redis, history>>

-----------------------------------------------------------------------------
Poll(w) ==
  \/ BeginBatch(w) \/ Claim(w) \/ EndBatch(w) \/ Dispatch(w)
  \/ MarkDispatched(w) \/ MarkRetry(w) \/ MarkFailedFinal(w)
  \/ FinalizeInvariantFailure(w) \/ RecordCrash(w) \/ EnterQuarantine(w)

Break(w) == Kill(w) \/ Stop(w) \/ ClaimFails(w) \/ MarkFails(w)

Next ==
  \/ \E S \in SUBSET Events : S # {} /\ InsertMany(S)
  \/ \E w \in Workers : Start(w) \/ PollDeferred(w) \/ Poll(w) \/ Break(w)
  \/ CrashWindowExpires
  \/ Tick

Spec == Init /\ [][Next]_vars

\* The event loop of a live process runs on, and time passes.  Nothing is
\* assumed of restarts, of the expiry of the crash window or of faults.
Fairness == WF_vars(Tick) /\ \A w \in Workers : WF_vars(Poll(w))

FairSpec == Spec /\ Fairness

-----------------------------------------------------------------------------
\* Every record is well formed, and so is every worker's local state.
TypeOK ==
  /\ rec \in [Events -> Records]
  /\ proc \in [Workers -> Pollers]
  /\ \A w \in Workers : proc[w].at \in Busy => proc[w].event \in Events
  /\ crashCount \in 0..CrashThreshold
  /\ quarantined \in BOOLEAN
  /\ faults \in 0..MaxFaults
  /\ acked \in [Events -> BOOLEAN]
  /\ holder \in [Events -> Workers \cup {NoWorker}]
  /\ late \in [Workers -> Nat]

\* No two processes poll under the same id: true of the processes of one
\* host, not of processes that run in containers of their own.
DistinctIds == \A v, w \in Workers : WorkerId[v] = WorkerId[w] => v = w

\* claimNext skips records whose attempts are used up, so an unsettled record
\* that has used them up would never be looked at again.  markRetry decides
\* from the copy of the record the worker claimed and increments the stored
\* one: that the two agree is what ownership by lockedBy must ensure.
NoRecordStranded ==
  \A e \in Events : rec[e].status \notin Terminal => rec[e].attempts < MaxAttempts

\* A record is settled or rescheduled by the worker whose claim is the
\* latest, never by one that lost its lease to another.
OnlyHolderMarks ==
  [][\A e \in Events :
       rec[e].status = "PROCESSING" /\ rec'[e].status # "PROCESSING"
       => \E w \in Workers : /\ proc'[w] # proc[w]
                             /\ proc[w].event = e /\ holder[e] = w]_vars

\* A settled event is never reopened, whatever stale workers still do to it.
TerminalIsFinal ==
  [][\A e \in Events : rec[e].status \in Terminal => rec'[e] = rec[e]]_vars

\* DISPATCHED is only written after the dispatcher accepted the event: a
\* crash between the two repeats the dispatch and never skips it.
DispatchedWasAcked ==
  \A e \in Events : rec[e].status = "DISPATCHED" => acked[e]

\* As long as no write fails, an event is given up only if the dispatcher
\* rejects it for good or every attempt was used.
GivenUpForCause ==
  \A e \in Events :
    rec[e].status = "FAILED_FINAL" /\ "write" \notin FaultKinds
    => "nonRetryable" \in Outcomes[e] \/ rec[e].attempts = MaxAttempts

\* As long as no write fails, the only workers that crash are those that lost
\* their lease: the invariant crash is not raised against a rightful holder.
CrashOnlyIfFenced ==
  \A w \in Workers :
    proc[w].at = "finalize" /\ "write" \notin FaultKinds
    => holder[proc[w].event] # w

\* The quarantine is looked up once per batch: a worker claims at most one
\* more batch once the key is set, restarts included.
QuarantineBoundsClaims == \A w \in Workers : late[w] <= BatchSize

StageOf(status) ==
  CASE status = "ABSENT" -> "unborn"
    [] status = "DISPATCHED" -> "dispatched"
    [] status = "FAILED_FINAL" -> "failed"
    [] OTHER -> "open"

Delivery == INSTANCE EventDelivery
  WITH stage <- [e \in Events |-> StageOf(rec[e].status)], accepted <- acked

\* The workers, their leases, crashes and retries implement the delivery of
\* each event: every step is one of EventDelivery or leaves it unchanged.
DeliveryImplemented == Delivery!DSpec

\* Once faults stop, every committed event is settled, unless the pollers are
\* quarantined or all stay down.
EventsSettle ==
  \/ <>quarantined
  \/ \A w \in Workers : <>[](proc[w].at = "down")
  \/ \A e \in Events : rec[e].status = "PENDING" ~> rec[e].status \in Terminal
=============================================================================
