# Media backend: specifications, model checks and proofs

The repository is the backend of a media agency: an Express application over
MongoDB and Redis with an administration surface (roles, access assignments,
users, events, rosters, KPIs, commissions, contracts). Four things make it a
concurrent system and not a set of forms over collections:

* every authoritative change is a MongoDB transaction that is repeated after
  transient errors and unknown commit results, and that leaves its events in an
  outbox which several processes drain with leases;
* the authority of a user is cached in Redis while administrators, workers and
  the clock change it;
* a role is handed from one assignment to its successor at a moment at which
  nothing runs: what holds is worked out from records written much earlier;
* the administrative services decide on documents that their transactions read
  and do not write, and MongoDB compares only what is written: whatever a guard
  promises may be overtaken by another command, unless some document makes the
  two conflict.

The specifications below are translated from the source. Paths are relative to
`src/src/`, the TypeScript sources.

| module | what it is |
|---|---|
| `Outbox` | outbox collection, pollers, leases, crash counter, quarantine |
| `EventDelivery` | what the outbox promises of an event (abstract) |
| `Dispatcher` | which event types the dispatcher of this release accepts |
| `MutationBridge` | one authoritative mutation: transaction, audit, version, events, retries, unknown commits |
| `ActorCache` | actor resolution with the snapshot cache and torn reads |
| `AuthoritySlot` | role assignments and the slots that keep them apart |
| `SnapshotTxn` | the transactions every module below commits with |
| `KpiPlan`, `KpiActuals` | a monthly plan with its division, and the actuals, corrections and finalization |
| `EventCalendar` | events, people on them, studio bookings, accounts |
| `Organisation` | the tree of units, employment, accounts of units |
| `Commission` | revenue entries, commission rules, settlements |
| `ShiftRequests` | work shifts and the requests to create, move and cancel them |
| `MonthlyRoster` | rosters, their exceptions and shifts, availability lines |
| `AssignmentLifecycle` | when a role assignment has effect, in both rules of the code, and the deadline worker |
| `Contracts` | contracts, obligations and evidence |
| `GovernanceRecovery` | users, roles and who can repair governance |
| `BreakGlass` | succession of the owner, emergency access |
| `Records` | the last nine side by side, one of them in each behaviour, with the properties of each |
| `OutboxProofs`, `MutationBridgeProofs`, `ActorCacheProofs`, `AuthoritySlotProofs`, `KpiProofs` | theorems about one module each |
| `AccessProofs`, `CommerceProofs`, `ScheduleProofs` | theorems about the parts of `Records`: authority and organisation; contracts and commissions; events, shift requests and rosters |
| `MCOutbox`, `MCDispatch`, `MCMutationBridge`, `MCActorCache`, `MCAuthoritySlot`, `MCKpi`, `MCRecords` | instances for TLC |

A definition whose comment begins with *Faulty variant* is never part of a
specification: it is the definition after it with a plausible mistake, used to
make sure that the properties can tell the two apart. So are definitions whose
comment says that they are another *without* one of its checks.

## 1. The system

### The mechanisms

**Event outbox** (`system/outbox/`). State: the outbox collection; a record has
a status, an attempt count, a lock owner and time, and a next attempt time.
Operations: insertion in the transaction of a mutation (`insertMany`), claim by
an atomic find-and-modify (`claimNext`), and three marks that compare status and
lock owner. Interacts with the bridge, which inserts, and the dispatcher. Hard:
a dispatch may outlive its lease, a process may die between dispatch and mark, a
write may take effect and be reported as failed, and the retry decision is
taken from the claimed copy. Correct if an event is dispatched before it counts
as dispatched, if a settled one stays settled, if none is left where no claim
finds it, and if each is settled in the end.

**Outbox workers and crash fencing** (`bootstrap/system-worker.registrar.ts`,
`infra/queue/queue.registry.ts`). State: the poll loop of each process, a crash
counter and a quarantine key in Redis. Operations: poll, crash handler
(increment, quarantine, exit), start and stop. Hard: the quarantine is read
once a batch; a crash is itself the reaction to a lost lease. Correct if only a
worker that lost its lease crashes itself and if the quarantine takes hold
within a batch.

**Event dispatcher** (`system/event-bridge/`). No state. A switch over event
types; every branch only acknowledges. Correct if it has a branch for every
event a mutation emits.

**Authoritative mutation bridge**
(`core/application/mongo-authoritative-admin-mutation.bridge.ts`, with
`core/audit/audit.guard.ts`). State: the transaction of each attempt, what the
callback declared, the auth security version document. Operation:
`executeAuthorized`. Hard: the whole callback is repeated; an unknown commit
result is resolved by looking for the events of the attempt; the version has to
move with the truth it stands for; concurrent executions conflict on documents.
Correct if nothing commits unaudited, if one of several rivals wins, if a
failure means that nothing was changed and a success that everything was.

**Administrative transactions** (every service under `modules/`). The callback
of a mutation reads a snapshot, decides, and writes; MongoDB refuses the commit
only if another one has written one of the same documents since (write skew is
possible). Correct if what a guard reads is also written, or made to conflict by
a document both sides write, wherever the guard must hold.

**Actor resolution and snapshot cache** (`app/auth/auth0.actor.resolver.ts`,
`infra/cache/`, `infra/mongo/user/user.auth.repository.ts`). State: the cached
snapshot with its version and its end of validity. Operation: `resolve`. Hard:
the version is read before the data, the aggregation reads several collections
one after another, authority begins and ends by the clock. Correct if a trusted
entry is the truth, and if nobody acts on what was revoked before his request.

### Authority

**Authority slot and access assignment administration**
(`modules/role/domain/authority-slot.ts`,
`infra/mongo/role/authority-slot.repository.ts`, the apply, lifecycle and
lifecycle-p2 services under `modules/role/admin/`). State: a slot per user, role
and scope; the assignments with their links to successors. Operations: apply,
renew, restore, replace, revoke, suspend. Hard: any command may come before, at
or after the cutover and the expiry that earlier commands wrote down. Correct if
slot and assignments agree at every later time, and if a handover leaves neither
gap nor overlap.

**Role assignment lifecycle** (`role-assignment-lifecycle.ts`,
`user.auth.repository.ts`, `admin.access-deadline-worker.service.ts`). An
assignment begins, expires, is superseded and loses its effect when its review
is overdue, by the clock alone; the rule is written in TypeScript and again as a
MongoDB expression, and the worker lists with one and decides with the other.
Correct if the two agree, if what is granted holds until the transition looked
up with it, and if the worker suspends what has ended and nothing else.

**Users, roles and recovery** (`admin.user.service.ts`, `admin.role.service.ts`,
the guards on the last recovery actor). Correct if somebody who can repair
governance is always left, if an inactive role is held by nobody, and if who is
gone gains nothing.

**Ownership and emergency access** (`admin.governance-principal.service.ts`,
`admin.break-glass.service.ts`). Succession by proposal, approval and
activation within a window; emergency access that an owner gives at once or two
approvers give together, that ends by the clock, and that somebody independent
reviews. Correct if ownership passes from one to the next by consent, and if
emergency access has the consent it needs and ends.

### Business records

| component | hard | correct if |
|---|---|---|
| kpi (`modules/kpi/`) | drafts, reviews, publication and archiving write different documents of one plan; actuals come late and are corrected; results are read outside the transaction that freezes them | shares sum to the target, are checked by another, are published with the plan; late actuals are reviewed; a final result says what the actuals said |
| event assignment (`modules/event-assignment/`), studios, talents, accounts | bookings lock a guard document of the studio, nothing else is locked | confirmed bookings never overlap, a booking stands as its event does, live events clash, and resources in use go out of service, only for a named cause |
| organisation and employment | a unit carries its path, a move rewrites the paths below it; closing a unit and filling it read each other | paths and parents agree, nothing is left in a closed unit |
| commission, revenue ledger | settlements copy rate and amounts; exclusivity of an entry rests on a unique index | nobody is paid twice for an entry, a settlement is the sum of its lines |
| contract registry | obligations are worked on while their contract, which is only read, is active | what is delivered has its evidence, what is accepted was accepted by another |
| work schedule: shifts and request batches | a line is approved and applied together, its failure is recorded by a second transaction | a batch says what became of its lines, a line is applied to the shift its maker saw, nobody is on duty twice |
| work schedule: rosters and availability | exceptions are an array edited by a positional operator; publishing turns them into shifts | a published roster and its shifts are what its exceptions say, an approved line stands in one roster once |

### Components modelled in part, or not at all

| component | what is left out, and why |
|---|---|
| outbox workers and crash fencing (partly) | the drain of a graceful shutdown, the http runtime, admission of queue jobs |
| actor resolution (partly) | what an assignment grants is data in `ActorCache`; the rules that decide it are `AssignmentLifecycle` |
| access assignment administration (partly) | access requests with their approvals, and who may act |
| governance principals and role templates (partly) | templates and assignment rules, which are checked where a role is made or assigned |
| users (partly) | names, addresses, the identity provider, the set-up of passwords |
| business codes, audit log, queues (partly) | modelled where they keep others apart: the counter of the codes of shifts, the rule that a commit has its audit record, the crash counter with the quarantine. No producer of queue jobs is wired |
| work schedule (partly) | lifecycles of work patterns and calendars, a draft that changes its month or target, studios of shifts |
| kpi (partly) | idempotency claims, several metrics (the rules are per metric), the views of managers and members |
| talents and talent groups (partly) | memberships, groups and master data |
| organisation and employment (partly) | terms of employment, responsibilities, readiness |
| platform accounts and studios (partly) | creation of studios, capabilities, transfer of an account to another owner |
| access preview and reconciliation (not) | reads and reports; the preview's occupancy rule is in `AuthoritySlot` |
| permission and exposure (not) | static tables and pure checks over one actor |
| request context, tracing, errors (not) | no state that outlives a request |
| http application, infrastructure adapters (not) | I/O, layout, clients of services outside |
| talent kpi (not) | as kpi, for talents |
| read surfaces, tools and configuration (not) | queries, migrations, wiring |

`PROJECT.json` lists the sources of each component, and the hazards with their
lines and the properties that would show them going wrong. Smaller hazards, which
a reader of the code should know of and which no property is about:

* claims do not count as attempts (`outbox.repository.ts:112`), so that a record
  whose worker always dies is claimed for ever; retries overtake creation order
  (`:108`) and no consumer in the repository relies on the order;
* the crash counter is incremented before its window is set
  (`queue.registry.ts:229`), and the quarantine is never cleared by code (`:206`);
* the callback of a mutation is repeated with each attempt, so that what it does
  outside the session is too (bridge `:506`); a mutation that emits no event
  cannot resolve an unknown commit (`:613`); an error of the audit insert loses
  its transient label (`audit.guard.ts:84`);
* a reservation repeated under one identity is taken for the same one
  (`authority-slot.ts:145`);
* an edit of a role that covers no assignment moves no version
  (`admin.role.service.ts:1198`); the snapshot cache is cleared as a whole when
  the permissions of a role are set, so that only a window remains.

## 2. The models

### `Outbox`, `EventDelivery`, `Dispatcher`

One MongoDB or Redis round trip is one action; what runs between two awaits
belongs to the action that ends the first. `rec` is the collection, `proc[w]`
the poller of process `w`: where it stands, the event it claimed, `seen`, the
attempts in its copy of the record, and `taken`, its claims in this batch. Time
is relative: a record has the age of its lock and the wait until its retry.
A process that is started again keeps its slot in `Workers`.

| action | code |
|---|---|
| `InsertMany` | `outbox.repository.ts` `insertMany`, inside a mutation's transaction |
| `BeginBatch`, `PollDeferred`, `EndBatch` | `pollOnce` of `outbox.poller.ts` and the loop in `system-worker.registrar.ts` |
| `Claim` | `claimNext`: filter, sort and update are one atomic operation |
| `Dispatch` | `dispatcher.dispatch` and the catch clause of `processRecord` |
| `MarkDispatched`, `MarkRetry`, `MarkFailedFinal` | the marks, which match status and lock owner; no match is a `SystemInvariantError` |
| `FinalizeInvariantFailure` | the last mark before the crash handler |
| `RecordCrash`, `EnterQuarantine`, `CrashWindowExpires` | the crash handler with the counter of `queue.registry.ts` |
| `Kill`, `Stop`, `ClaimFails`, `MarkFails` | death, SIGTERM between polls, driver errors, applied or not |
| `Tick` | time; `Overrun` counts the ticks that take a lease from a busy worker |

The jitter of the backoff is a hash in the code and any value of its range here.
The lock owner is `WorkerId[w]`, a constant function: `DistinctIds` says that it
is injective, which holds of the processes of one host but not of containers
(see `outbox_ownership`).

`EventDelivery` knows four stages of an event and whether the dispatcher has
ever accepted it. `Outbox!Delivery` maps the record's status to the stage.

### `MutationBridge`

An execution goes through `start`, `mutate`, `bump`, `check`, `commit` and, after
an unknown commit result, `doubt`. Each attempt has its own transaction
`<<request, attempt>>` with the marks it left, among them whether the callback
recorded an audit proof *of this attempt*, called
`markAuthSecurityTruthChanged`, emitted events, or declared a no-op. The callback
is arbitrary: it may leave any combination, forget the audit record, or throw.
`Guarded` requests compare the state of their document first, as the deadline
worker and the lifecycle services do; the others insert.

MongoDB is modelled by what the bridge relies on, and marked external in the
map: a transaction reads the snapshot of its start, writing what was written
since or is being written fails with a transient error, a commit that gets no
answer takes effect or not at any later time (`Decide`). With `Failover`, a
look-up may see a commit that is rolled back afterwards, because `containsAll`
asks for no majority read concern.

### `ActorCache`

The authority of one user is a set of parts in different collections, each with
generations and with times from and until which a generation has effect.
`Auth0ActorResolver.resolve` becomes `ReadVersion`, `ReadCache`, `DropEntry`,
`BuildPipeline`, then one `ReadGrant` and one `ReadTransition` per part in any
order, and `Store`. Every Redis call may fail, which the code answers by carrying
on. The database moves in between (`Mutate`, in one commit with the version,
which is what `MutationBridge` proves as `VersionFollowsTruth`), entries are
evicted, time passes.

### `AuthoritySlot`

`slot[s]` is the record of `authority-slot.ts`: holder, successor, cutover,
release and predecessor release. `HolderAt`, `CanReserve`, `Reserve`, `Release`
and `ScheduleRelease` are its functions. The commands `Apply`, `Renew`,
`Restore`, `Replace`, `Revoke` and `Suspend` do what the services do to the
assignments (`state`, `from`, `until`, `next`, `nextAt`) and to the slots in one
transaction. `Effective`, `Suspended`, `FutureScheduled`, `ReviewBlocked` and
`Retains` are `role-assignment-operational-state.ts`; `Occupants` is the
occupancy that preview and apply share.

Abstractions: every command is one step, because two commands on one slot
conflict in the bridge and one is repeated. Therefore the version of a slot and
its compare-and-set, its lineage and its transition identities are left out. The
end of review authority is a Boolean `overdue` that may change at any time, since
reviews, grace and role edits move it; `AssignmentLifecycle` has what it stands
for.

### `SnapshotTxn`

The callback of a mutation runs in `session.withTransaction`. Whatever it does,
MongoDB gives it snapshot isolation: it reads the database as it was when it
began, and its commit is refused if one of the documents it *writes* was written
since. `db` is what is committed, `snap[c]` the snapshot of client `c`,
`missed[c]` the documents committed by others since. A transaction that no commit
overtakes is one step of the client `Now`; one that is overtaken begins with
`Begin`, and its command is a later step that reads the snapshot (`Seen`) and
writes through `Commit`. `Abort` stands for the refused command, the write
conflict and the dead process; the repetition by the bridge is a new `Begin`.

Documents are named by what MongoDB makes unique: an entry of a member and day, a
roster of a target and month. That two of them cannot be inserted is a conflict
on one document. Where a unique index spans documents that are written apart
(`Fits` of `Organisation`, `Commission`, `Contracts`) it is a guard on what is
committed, not on the snapshot.

A command is one action that reads the snapshot, decides, and writes all its
documents, like the service method it stands for. The modules below say so once
here: of each command the guards are those of the method and of the assertions
it calls, in the order that matters, and the written documents are the calls of
its repositories.

### `KpiPlan`, `KpiActuals` (`modules/kpi/admin/admin.kpi.service.ts`)

`db` has the plan, one row per member and kind of row (the division published
and the one in draft), entries and excuses per member and day.

| action | code |
|---|---|
| `ReplaceDraftAllocations`, `UpdateDraft`, `PublishPlan`, `ArchivePlan` | `replaceKpiAllocations`, `updateKpiDraftCore` with `replaceKpiTargetMetrics`, `publishKpiPlan`, `archiveKpiPlan` |
| `UpsertDraft`, `Submit`, `Review`, `PublishAllocation` | `upsertKpiAllocationDraft`, `submitKpiAllocation`, `transitionAdminAllocationApproval`, `publishKpiAllocation` |
| `CreateActual`, `UpdateActual`, `CorrectActual` | `createOrSetKpiActual`, `updateKpiActualDirect`, `correctKpiActual` |
| `MarkExcuse`, `RemoveExcuse`, `Finalize` | `markKpiActualExcuse`, `removeKpiActualExcuse`, `finalizeKpiPlan` |
| `Leave`, `Tick` | a member leaves the subject; the clock (both external) |

`Stage` and `DirectOpen` are the windows of `kpi-actual-policy.ts`: a handler
goes by a time between the one at which it began (`since`) and the present.
`Divisions` are the exact divisions of the target. Of the metrics one is
modelled, the rules being per metric.

### `EventCalendar` (`modules/event-assignment/`, `talent/`, `studio-resource/`, `platform-account/`)

| action | code |
|---|---|
| `CreateEvent`, `UpdateEventCore`, `RescheduleEvent`, `ReplaceAssignments`, `UpdateAccounts` | the methods of the same names in `admin.event-assignment.service.ts` |
| `PlanEvent`, `ConfirmEvent`, `CompleteEvent`, `CancelEvent`, `ArchiveEvent` | likewise |
| `CreateBooking`, `TransitionBooking` | `createStudioBooking`, `transitionStudioBooking` |
| `MoveResource` | suspension, reactivation, deactivation and archiving of talents, studios and accounts, each with its guards on live use |

`Locked` is the guard document of the studio, which every booking writes: the one
document that stands for a set of others here.

### `Organisation` (`modules/org-unit/`, `modules/employment-profile/`, `modules/platform-account/`)

`CreateUnit`, `RenameUnit`, `MoveUnit`, `ActivateUnit`, `DeactivateUnit` and
`ArchiveUnit` are the operations of `admin.org-unit.service.ts`; `CreateProfile`,
`UpdateProfile`, `AssignUnit`, `LinkUser` and `MoveProfile` those of
`admin.employment-profile.service.ts`; `MoveAccount` the lifecycle of an account
a unit owns. `Underneath`, `Rebased` and `MovedAlong` rewrite the paths of the
descendants a move has read. `WellFormed` is the assertion with which every
operation refuses a unit whose path is not what it should be.

### `Commission` (`modules/revenue-ledger/`, `modules/commission/`)

`EntryStep`, `RuleStep` and `SettlementStep` join the commands on entries
(`CreateEntry` to `ArchiveEntry`), on rules (`CreateRule`, `UpdateRule`,
`MoveRule`) and on settlements (`CreateSettlement`, `UpdateSettlement`,
`ReplaceEntries`, `FinalizeSettlement`, `EndSettlement`). `Evaluated`, `Selected`
and `Gross` are `evaluateRevenueSelection`; `Share` rounds half up, in integers,
as `roundHalfUp` does. Lines are documents of their own; `Fits` is the unique
index over payee and entry.

### `ShiftRequests` (`modules/work-schedule/`)

`CreateShift`, `UpdateShiftCore`, `RescheduleShift`, `ReassignShift` and
`EndShift` are the direct commands of `admin.work-schedule.service.ts`;
`SubmitBatch`, `ApproveCreate`, `ApproveReschedule`, `ApproveAsItIs`,
`ApproveCancel` and `Refuse` those of `admin.work-schedule-request-batch.service.ts`.
`ApplicationFails` aborts the approval and leaves the line in `failed`, from where
`MarkFailed`, a second transaction, records it, or `ForgetFailure`, the death of
the process, does not. `Numbered` takes the next number from the counter of the
UTC day, which every generated code writes.

### `MonthlyRoster` (`modules/work-schedule/`)

`CreateRoster`, `UpdateDraft`, `ArchiveRoster`, `PublishRoster`,
`AddRosterException`, `UpdateRosterException`, `RemoveRosterException` and
`ApplyLine` are the methods of `admin.monthly-roster.service.ts`; `SubmitBatch`
and `Refuse` those of the availability batches; `ChangeCalendar`, `CreateShift`
and `CancelShift` what changes under a roster. `Rows` and `Overlap` are the
preview, `Hit` the element that MongoDB's positional operator picks: one that
matches *some* of the conditions of the filter, not the one meant.

### `AssignmentLifecycle`

`Reason`, `Overdue`, `Effective` and `NextChanges` are
`role-assignment-lifecycle.ts`; `Granted`, `ReviewEnd`, `RoleDeadline` and
`Transitions` the expressions of `user.auth.repository.ts`; `Candidates` the list
of `access-lifecycle.repository.ts`. `ListDue`, `LeaveAlone` and `Materialize`
are the deadline worker. `Apply`, `SetRolePermissions`, `RejectReview`,
`ApproveInPart`, `RenewReview`, `RequestGrace`, `DecideGrace` and
`ScheduleSuccessor` write what these rules read.

### `Contracts` (`modules/contract-registry/`)

`CreateContract`, `EditContract`, `MoveContract`, `ArchiveContract`;
`CreateObligation`, `UpdateObligation`, `Deliver`, `Reject`, `Accept`,
`MoveObligation`; `LinkEvent`, `RemoveLink`: the three contract services, method
by method, the moves of one lifecycle joined where they differ by their states
only.

### `GovernanceRecovery` (`modules/user/`, `modules/role/`)

`CreateUser`, `ActivateUser`, `DisableUser`, `ArchiveUser`, `SetAuthLinkage`,
`UnlinkAuthLinkage`; `CreateRole`, `ActivateRole`, `DeactivateRole`,
`ArchiveRole`, `SetRolePermissions`; `Apply`, `Revoke`, `Suspend`,
`ApproveSuccessor`. An assignment's phase (ahead, in force, over) moves by the
clock, `Begins` and `Ends`. `RecoveryActors` is the query over active users with
the whole recovery surface, `Touch` the write of the role's `updatedAt` that
makes assigning conflict with the role's own commands.

### `BreakGlass` (`modules/role/`)

`ProposeSuccessor`, `DecideSuccessor`, `ActivateSuccessor` hand on the ownership
(`admin.governance-principal.service.ts`); `RequestAccess`, `RequestUrgently`,
`ApproveRequest`, `RejectRequest`, `ReviewActivation` and `EndActivation` are
`admin.break-glass.service.ts`, `MaterializeExpiry` the worker. `InForce` and
`Granted` are the two rules of what is in force, in TypeScript and in MongoDB.
`UserChanges` are the commands on users that make one ineligible or eligible.

### `Records`

The last nine have no document in common, and each is a part of `Records`: a
behaviour is one of one part, which `part` names (rosters and availability lines
are two parts of `MonthlyRoster`, ownership and emergency access of
`BreakGlass`). One run and one set of constants serve all; a property of
`Records` says "if this is the part, then", and joins what the part promises.

## 3. The runs

Deadlock is checked except where the system really stops: in the bridge once all
requests are answered, in the slots once the clock and the assignments are used
up, in the records and the plan once everything is archived or the bounds are
reached.

| run | instance | shows |
|---|---|---|
| `outbox_faults` | 2 workers, 2 events inserted in order, 2 attempts, batches of 2, leases of 1 tick, backoff 1..2, crash threshold 2, 3 faults of any kind | no stranded record, quarantine bound, marks only by the latest claimant, refinement of `EventDelivery`; with fairness: every event is settled, unless the pollers are quarantined or all stay down |
| `outbox_leases` | 3 attempts, batches of 1, leases of 2 ticks, events of one millisecond, 2 faults: slow dispatch and kill | an event is given up only for a cause; a worker crashes itself only after losing its lease |
| `outbox_ownership` | two hosts whose pollers share a process id | **violated**: finding 1 |
| `dispatch_exhaustive` | the real dispatcher table, the constants of the code, no faults | **violated**: finding 2 |
| `bridge_race` | 2 guarded requests, one document, 2 attempts | audit, version, one winner, answers mean what they say |
| `bridge_insert` | 1 guarded request and 1 insert, fail-over, with fairness | every request ends |
| `cache_race` | 2 concurrent requests, 2 parts, one that begins and one that ends at time 1, 1 replacement of each | a trusted entry is the truth; no answer older than its request |
| `slot_moves` | 3 assignments, 2 slots, times 0..2 | slot and assignments agree at every later time; the revoked hold nothing; handovers have no gap |
| `slot_contract` | 2 assignments, 1 slot | **violated**: finding 3 |
| `slot_orphan` | 2 assignments, 1 slot, times 0..3 | **violated**: finding 4 |
| `kpi_plan` | one plan, 2 members, 2 actors, target 2, one slot of actuals with values 1 and 2, one direct edit, one correction, one transaction that others overtake on up to three documents | drafts are checked by another and published whole, late actuals are reviewed, shares exceed the target and a final result parts from the actuals only by a commit that missed another |
| `admin_records` | the parts of `Records`, each with one transaction that is overtaken | 17 properties, one or two per part |

### Why these bounds

* Outbox. A lost lease takes two workers, and an overtaken worker that still
  marks takes one slow fault; a third fault lets a kill or a failed write hit the
  second claimant. Two events are needed for a batch to go on after a settled
  record and for the order of claims to matter. Two attempts distinguish the
  last from the one before; three (`outbox_leases`) also distinguish a stale
  `seen` from the stored count. A crash threshold of two makes the quarantine
  follow a restart. `MaxFaults` also bounds how often a lease may run out under
  a busy worker, so with it used up `Tick` waits for that worker.
* Bridge. Two requests are all it takes for a conflict; two attempts are a first
  one and its repetition, and the last one, after which errors are final.
* Cache. Two requests are a writer of the cache and a reader, or two writers.
  Two parts are what a torn aggregation needs. One replacement per part and one
  tick put each mutation and each deadline before, between and after all reads.
* Slots. Three assignments are a predecessor, its successor, and a third that
  follows the successor or takes the slot again. The ticks leave room for a
  beginning and an end at different times, with a command before, at and after
  each. `Ahead` bounds how far ahead an assignment may begin.
* Plan and records. `Clients = {h1}` is one transaction that is overtaken, beside
  any number of timely ones: two transactions that miss each other are what every
  write skew takes, and the proofs are for any number. In the records one commit
  overtakes the transaction (`Once`), except for contracts, where any number of
  writes to one document may, since an ended contract that is archived takes two.
* Records, part by part. Events: two events, two bookings, one studio, people and
  accounts in the worlds {studio, person}, {two people}, {person, account};
  windows that overlap. Organisation: three units that are never closed, which
  two moves make a ring of, or two with a profile and an account in them.
  Commission: two entries, of 1 and 5 cents, rates of 50 and 70 per cent, for
  which rounding and a change of rate can be told apart; the rate rises. Requests:
  two shifts, one of which is changed after it was made, two lines of one batch,
  windows that overlap and begin on different days. Rosters: two rosters, one
  member, one day, two exceptions, two lines, a holiday or a leave. Lifecycle:
  times 0..3, seven sets of terms, a review window of 2, grace of 1 and 2, at most
  two review cycles. Contracts: one contract, one obligation, two links, two
  actors. Governance: two users and one role, or one user and two roles.
  Ownership: three people, two successors, one request, times 0..2. The action
  constraints of `MCRecords` name the smaller limits, each where it stands.

Symmetry is declared where the instance treats its elements alike: the requests
of `bridge_race` and `cache_race`, the assignments of the slot instances, the
actors of `kpi_plan` and ids of `admin_records`. The liveness runs use none.

### Fairness

* `Outbox!Fairness`: weak fairness of `Tick` and of each `Poll(w)`: time passes,
  and the event loop of a live process runs on, as the loop in the registrar does
  after every error. Nothing is assumed of restarts, of the crash window, of the
  removal of the quarantine (no code removes it) or of faults; `EventsSettle`
  names the two exceptions that follow.
* `MutationBridge!FairSpec`: weak fairness of `Execute(r)`. A commit in doubt need
  never be decided; a process may die.
* The other modules have safety properties only.

## 4. Findings

1. **Lock owners may collide** (`outbox_ownership`, code bug). The owner is
   `outbox.poller-<pid>` (`bootstrap/system-worker.registrar.ts:376`). In
   containers node processes often have the same pid; then a worker whose lease
   was taken over still passes the ownership check of the marks.
2. **The dispatcher is not exhaustive** (`dispatch_exhaustive`, divergence).
   `break-glass.manually-ended` is a member of `DomainEvent` and is emitted, but
   has no branch; its record ends as `FAILED_FINAL`.
3. **Occupancy and reservation disagree** (`slot_contract`, divergence). An
   assignment stored as `ACTIVE` that begins later counts as `INVALID`: the
   preview finds the slot free, apply fails, and the assignment cannot be revoked
   before it begins.
4. **A cleared successor orphans the slot** (`slot_orphan`, divergence). Revoking
   a scheduled successor gives the slot back to the predecessor, whose
   `lifecycle.successorEffectiveAt` stays: at the former cutover the predecessor
   ends all the same, and the slot is reserved for it until its expiry.

### Observations

The properties named `...ForCause` and `...Late` state what the code does *not*
guarantee by naming the cause without which it does. What they name, and what was
noticed beside them:

* **KPI.** Two first drafts over disjoint members both divide the whole target,
  and the division is stuck thereafter. An excuse and an entry for one day are
  possible by overlap (`admin.kpi.service.ts:1906`). Finalization reads outside
  its session (`:3808`). An entry under review is accepted by no operation. Rows
  of `replaceKpiAllocations` keep a division from being drafted once the plan is
  published (`:5453`).
* **Events.** `planEvent` does not check overlaps again after the draft, nor
  `confirmEvent` the studios. Overlaps of people and accounts, and use against
  withdrawal of studios and owners, are write skew. `cancelEvent` leaves
  `studioResourceIds` as they were.
* **Organisation.** Two overlapping moves can put two units above each other; no
  later move or archiving that sees the ring can undo it. Closing a unit and
  filling it are write skew. Names and linked users are unique by the indexes
  alone. The guard on direct reports has nothing to guard.
* **Commission.** Replacing the entries of a draft computes with the rule's
  present rate and leaves `ratePercentSnapshot`. Voiding an entry and finalizing
  its settlement are write skew. Exclusivity rests on the unique index alone.
* **Shift requests.** A batch with cancelled and rejected or failed lines stays
  PENDING. Overlap checks are write skew but for generated codes of one UTC day. A
  request to move a shift to the window it has writes no shift. A manager can
  cancel no line: only its maker may, and the maker may not. A duplicate key is
  retried inside a transaction that is already aborted.
* **Rosters.** A positional `$` with two conditions on the array may hit the
  first active exception instead of the one meant (`monthly-roster.repository.ts:357`).
  Publication and shifts made by hand are kept apart only by the counter of the
  day, and hours before 07:00 local time belong to the UTC day before. Lines over
  several days can never be applied (`admin.monthly-roster.service.ts:1080`), nor
  those whose exception was removed or whose roster was archived. Archiving a
  published roster leaves its shifts active. A holiday or leave under a draft
  blocks its preview until the exception is removed.
* **Assignments.** After a role was made less risky, MongoDB grants what
  TypeScript calls overdue, and the worker never lists it. After it was made
  riskier, TypeScript may end authority that MongoDB still grants; the item then
  stays first in the worker's limited list for good and blocks reviews. A late
  worker finds an expired assignment where it listed an overdue one and suspends
  nothing. A role that is edited between list and decision may be suspended under
  an audit record that says its authority had already ended
  (`admin.access-deadline-worker.service.ts:321`).
* **Contracts.** Contracts expire and end whatever their obligations are, and
  obligations can be worked on only while the contract is active: an unresolved
  obligation keeps an ended contract from being archived for ever. Delivery and
  removal of its evidence, creation of an obligation and archiving, are write
  skew. Acceptance is refused to the last deliverer only, rejection to nobody. No
  worker expires contracts.
* **Governance.** The recovery guards are write skew; revoking, expiry and
  suspension have none. The guard counts active users that are not linked. An
  assignment applied for later cannot be revoked before it begins. Expired and
  superseded assignments keep their stored state and keep their role from being
  deactivated. `approveSuccessor` does not touch the role as apply and revoke do.
  Unlinking makes a disabled account PENDING.
* **Ownership.** An owner's eligibility is only read. A promoted owner keeps the
  end of his window, after which nobody can propose, decide or activate. Requests
  that wait never expire; the requester and the first approver may review.
* **Responsibility** (not modelled). The unique index counts an expired primary
  that is still stored as active (`admin.responsibility.service.ts:453`).

## 5. What is proved

Each theorem holds for every value of the constants that satisfies the modules'
`ASSUME`s, and for any number of events, workers, requests, handlers, members,
units, entries and so on. Additional assumptions are named in the table. Every
invariant and every action property of a passing run is the property of a theorem.

| module | theorem | property | assuming |
|---|---|---|---|
| `OutboxProofs` | `TypeCorrect` | well-formed states | |
| | `SettledForGood` | a settled event stays settled | |
| | `DispatchedAreAcked` | what counts as dispatched was accepted | |
| | `DeliveryIsImplemented` | `DeliveryImplemented` | |
| | `HoldersMark` | `OnlyHolderMarks` | `DistinctIds` |
| | `NoneStranded` | `NoRecordStranded` | `DistinctIds` |
| | `RightfulNeverCrash` | `CrashOnlyIfFenced` | `DistinctIds` |
| | `GivenUpWithCause` | `GivenUpForCause` | `DistinctIds` |
| | `QuarantineBounds` | `QuarantineBoundsClaims` | |
| `MutationBridgeProofs` | `TypeCorrect` | well-formed states | |
| | `ChangesAreAudited` | `CommittedIsAudited` | |
| | `VersionsFollow` | `VersionFollowsTruth` | |
| | `OneChangeWins` | `OneWinner` | |
| | `FailuresAreClean` | an error means that nothing was committed, unless a commit was in doubt | |
| | `SuccessesAreCommitted` | a result means a commit | `~Failover` |
| | `AnswersAreTrue` | `AnswerIsTrue`, both together | `~Failover` |
| | `RepeatedWhenLate` | only commits in doubt take effect and are repeated | |
| `ActorCacheProofs` | `TypeCorrect` | well-formed states | |
| | `CacheIsTruth` | `CurrentEntryIsTruth` | |
| | `AnswersAreFresh` | `NoRevokedAuthority` | |
| `AuthoritySlotProofs` | `TypeCorrect` | well-formed states | |
| | `SlotsForetell` | `SlotForetells` | |
| | `RevokedHaveNone` | `RevokedHoldsNothing` | |
| | `NoGap` | `HandoverHasNoGap` | |
| | `OneAuthority` | two assignments of one slot are never effective together | |
| `KpiProofs` | `KpiType` | documents and snapshots have their types | |
| | `CheckedHolds`, `PublishedHolds`, `VersionHolds` | `CheckedByAnother`, `PublishedWithPlan`, `VersionNamesContent` | |
| | `ReviewHolds`, `OverAllocationHolds`, `FinalPartsHolds` | `LateNeedsReview`, `OverAllocatedLate`, `FinalPartsLate` | |
| `ScheduleProofs` | `CalendarType` | documents and snapshots have their types | |
| | `BookingsAreKept`, `CalendarErrs` | `BookingsKept`, `CalendarErrsForCause` | |
| | `RequestsHold`, `RequestsApplied` | `RequestsKept`, `AppliedToWhatWasSeen` | |
| | `RostersHold`, `DutiesClash` | `RostersKeepLines`, `ClashingDutiesForCause` | |
| `CommerceProofs` | `DeliveryHolds`, `ContractsErrOnlyLate` | `DeliveryKept`, `ContractsErrLate` | |
| | `PaidOnce`, `SettlementsStray` | `PaidAsListed`, `StraysForCause` | |
| `AccessProofs` | `RulesAlwaysAgree`, `TransitionsAlwaysForetell`, `WorkerEndsOnlyEnded` | `RulesAgree`, `TransitionsForetell`, `WorkerEndsWhatEnded` | |
| | `GovernanceErrs` | `GovernanceErrsForCause` | |
| | `OwnershipHolds`, `OwnershipErrs` | `OwnershipKept`, `OwnershipErrsForCause` | |
| | `OrganisationErrs` | `OrganisationErrsLate` | |

The assumptions on constants say what kind of thing a constant is: the sentinels
for "nobody" and "none" are no ids (`RootIsNoUnit`, `NoneIsNoShift`,
`NoOneIsNobody`, `RostersAreTimed`, `KpiPlanAssumption`), times, amounts, rates
and hours are numbers (`LifeIsTimed`, `OwnershipIsTimed`, `CommissionIsCounted`),
and the collections that are summed over are finite. TLC evaluates them in the
runs.

### The arguments: mechanisms

**Outbox, any ids.** That a settled record stays settled needs only that every
claim and every mark writes a record that is not settled; it does not need the
lock owners to differ, so it survives finding 1. For `DispatchedAreAcked` the
invariant `Delivered` adds what the state of a busy worker implies: its event is
committed, and when it is about to mark it dispatched the dispatcher has accepted
it. The refinement follows from the same invariant.

**Outbox, distinct ids.** None of the lease properties is inductive.
`markRetry` decides from the claimed copy and increments the stored record; that
they agree needs `Copies` (the attempts seen by a worker that owns its event are
those stored), which needs `Leases` (the lock names the latest claimant), which
needs `DistinctIds` to tell two claimants apart. `Counted` joins these with
`Retries`, what a worker that wants to retry has seen. That no rightful holder
crashes itself needs `Rightful`: without failing writes the latest claimant
still holding the event owns it. The quarantine bound is `LateClaims`: claims
after the quarantine are among those taken in the current batch.

**Bridge.** `Placed` says for each place of an execution in which states the
transactions of its attempts are; all others build on it. `Contents` says what a
transaction has written by that place (nothing is both change and no-op, version
and truth move together after `bump`, what may commit is acceptable). `Exclusive`
says that of the transactions that move one document out of one state at most
one is open, in doubt or committed: a second one finds it either in its snapshot,
where the guard fails, or outside, where the write conflicts. `OneWinner` is its
part about commits; retries of one request are included, since an abandoned
attempt in doubt still blocks its repetition. `Undoubted` says that without an
unknown commit result only a successful execution has changed anything, and
`Superseded` that an earlier attempt took effect, or still may, only if it was
abandoned in doubt.

**Cache.** `ReadsAreTruth`: what a request has read under the current version is
the truth at the clock it took, and the limit it has collected bounds how long
that stays so. `EntryIsTruth` says the same of an entry of the current version at
every time until it runs out, which makes the passing of time harmless.
`Versions` says that no version is ahead of the database, so that an entry under
an older one is never trusted again. For torn reads only generations are
compared (`NothingOlder`): a part may be newer than the request, never older.

**Slots.** `SlotForetells` is not inductive: what a revocation leaves depends on
the assignments a record names (`SlotNames`: both exist, in this slot, linked as
predecessor and successor), on how long a predecessor gets its slot back
(`PredecessorKept`: `predReleaseAt` covers its claims), and on the links between
assignments (`Linked`: a successor begins when its predecessor ends, and not
after that one's expiry). Each command is a case of its own; `ReleaseCases` says
what a revocation can leave. `NoGap` follows from `Linked` alone.

### The arguments: records

The proofs about transactions have one shape. Decisions rest on a snapshot, so
that an invariant of the database alone is never inductive; it needs

* `SnapshotCurrent`: a document nobody else has committed since a snapshot is
  still what the snapshot shows. It follows from `Begin` and `Commit` alone and is
  proved once per proof module (`Taken`, `CommitTaken`);
* the invariant of the *snapshots* as well, where a command relies on what it
  reads (or, where everything it relies on is also written, of the database only);
* what stays true between a snapshot and the present, if something does: the
  parts called `...Aged` (a settled entry keeps its amount, a numbered code is
  known to the counter, a unit does not come to be absent again).

A commit then writes documents that nobody else has written since: those are as
the snapshot shows, the others keep what they had. For a property of the form "only a commit
that missed another", a timely command is decided on the database itself
(`SeesAll`), and the proof shows that the service's guards suffice there.

**KPI.** `IInv` joins types, `SnapshotCurrent`, `Sane` of the database and of each
open snapshot, and `Aged`. `Sane` ties the rows of a draft to one version and one
snapshot of the members, by which `PublishAllocation` recognizes that what it has
read is whole. For `OverAllocatedLate` a sum is what the community module's
`FoldFunctionOnSet` chooses: equal shares have one and the same sum, and a timely
operation either keeps all shares or divides the target, so that nothing needs
to be said about finiteness.

**Events.** The studio's guard document and the event stand for the bookings
below them (`GuardsHold`): whoever writes a booking also writes these, so that of
two overlapping transactions one is refused. Nothing stands for people and
accounts, which is why `CalendarErrsForCause` has exceptions.

**Requests.** The batch document stands for its lines and the counter of a day
for the shifts it numbered (`RequestsAged`); the rest follows from each command's
guards on documents it writes.

**Rosters.** Whatever a command writes it knows as it is (`WrittenKnown`), so that
the invariant is one of the database. `Fits` and `RowsAre` relate the shifts of a
published roster to its exceptions, `HitKeeps` says what the positional update can
do to the array, `LineStands` that an approved line is in one place. The proof
found that a line's day must be one of the rostered month, a check of the code
(`admin.monthly-roster.service.ts:3259`) that the first model had left out.

**Contracts.** A delivery writes the obligation and only reads the links, hence
`DeliveryKept` speaks of the links it named, and `ContractsErrLate` of those that
are removed. `LinksAged`: a link once made stays with its obligation, so that a
snapshot knows which obligation the removal of a link concerns. Who ended a
contract wrote it, so that a timely command sees that nothing can be resolved any
more.

**Commission.** `OwedOnce`, the unique index, is inductive by itself, but what it
means in money takes an argument: each settlement pays for its entries no more
than the payee's shares at the highest rate (`SettlementWithin`, `ShareGrows`),
settlements of one payee have disjoint entries, and sums over disjoint sets add up
(`TotalOfFamily`). The lemmas on sums are proved from the definition of the community
module's fold: over a finite set there is exactly one value that adds up in some
order, and the order is irrelevant. The induction behind it takes the smallest
counterexample (`WFMin`), which is first-order.

**Assignments.** That both rules agree needs that the risk on record was recorded
together with the review (`LifeInv`); then `ReviewEndsAgree` compares the two
computations of the end case by case. The exceptions in the properties are the
role edits that break that.

**Governance.** `GovInv` ties what is held to what a transaction has seen held
(`HeldAsSeen`): assignments are written by commands that touch the role.

**Ownership.** `OwnInv`: one principal is the primary owner, replaced ones form a
chain (`ReplacedBy`) whose links carry the approval of another; requests carry the
consents their state implies (`AccessOK`); no snapshot's clock is ahead.

**Organisation.** `OrgInv` says of database and snapshots that a path ends in the
unit's parent and leads through units that exist. That a timely move keeps a
sound tree is an argument about the rewritten subtree (`Rebase`, `Below`,
`BelowNested`, `MoveKeepsTree`, `MoveKeepsOpen`). Two statements had to change
on the way: a ring of two units *can* be undone, by a transaction that began before
the ring was complete, so that `RingsStayStep` excepts late commits; and a tree must
be sound in its archived units too, because a unit of an unsound part could be
activated again and then moved by a timely command.

### Only model-checked

`EventsSettle` and `EveryRequestAnswered` are liveness properties under fairness,
for which the installed provers have no rule; they stay with TLC. So do the four
violations, which are behaviours of particular instances.

Induction over data is out of the provers' reach where it takes an operator as a
parameter. The sums of `Commission` are reached without it, as said above; no
other theorem needs one, since the path of a unit is cut and joined as a whole.

## 6. Not modelled

* The drain of a graceful shutdown and its timeout (a `Kill` here), http
  admission, job queues.
* Order between events of one aggregate: the outbox gives none once a retry
  waits; no consumer in the repository relies on it.
* Access requests with their approvals, role templates and assignment rules;
  responsibilities; talent groups and their memberships; talent KPI; platform
  earnings; transfer of accounts; work patterns and the lifecycle of calendars.
* Reconciliation tools for slots and outbox; manual operator steps.
* The contents of audit records, events, permissions and scopes.
* Clock differences between processes: leases and deadlines use one clock.
* The read surfaces, which are most of the repository's lines.

## 7. Plan

In this order; each module with its properties and their proofs.

1. Access requests: approval, review and the lead into the commands of
   `AuthoritySlot`; separation of requester and approver, one application per
   approved request.
2. Platform earnings of the revenue ledger, and the transfer of accounts.
3. Responsibilities and talent groups, whose memberships the plan of a group and
   the roster of a target read.
4. A composition of `MutationBridge` and `Outbox`: events enter the outbox with
   their commit and only then; a commit, decided late or not, is an
   `Outbox!InsertMany` of the events of its attempt.
5. Queue admission under quarantine, and the drain at shutdown with its timeout.
