----------------------------- MODULE ActorCache -----------------------------
(***************************************************************************)
(* Auth0ActorResolver: an HTTP request gets its actor from a snapshot in   *)
(* Redis if that bears the current auth security version and has not run   *)
(* out, and otherwise from the database, leaving a new snapshot behind     *)
(* under the version read at the start.  The requests of this module all   *)
(* belong to one user, so there is one cache key.                          *)
(*                                                                         *)
(* The authority of the user is a set of parts (role assignments, roles,   *)
(* break-glass activations) in several collections; From and Until are the *)
(* times between which a generation of a part has effect.  A change of any *)
(* parts moves the version in the same commit (MutationBridge).  The       *)
(* aggregation reads each part twice, for what it grants and for its next  *)
(* transition, both against the clock taken when the pipeline was built,   *)
(* and without a snapshot that would keep these reads together.            *)
(***************************************************************************)
EXTENDS Naturals

CONSTANTS
  Requests,      \* slots of concurrent HTTP requests; a slot is used again
  Parts,         \* what the user's authority is made of
  MaxGen,        \* bound on the generations of a part
  MaxTime,       \* bound on the clock
  From, Until,   \* [Parts -> [0..MaxGen -> times]]
  None

Never == MaxTime + 1
Gens == 0..MaxGen
Times == 0..Never

ASSUME ActorCacheAssumption ==
  /\ MaxGen \in Nat /\ MaxTime \in Nat
  /\ From \in [Parts -> [Gens -> Times]]
  /\ Until \in [Parts -> [Gens -> Times]]
  /\ None \notin Nat

VARIABLES
  gen,       \* the generation of each part in the database
  version,   \* the auth security version
  now,
  cver,      \* the entry in Redis: its version, None when there is no entry,
  cgrants,   \*   the generation of each part it grants, or None,
  cuntil,    \*   and authorizationValidUntil, Never when undefined
  at,        \* where each request is
  ver,       \* the version it read; None when the read failed
  clock,     \* "now" of its pipeline
  toGrant,   \* parts whose grants it has not read yet
  toLimit,   \* parts whose next transition it has not read yet
  grants,    \* what it has read, in the end its answer
  limit,     \* the earliest transition it has read
  start      \* history: the generations when it read the version

db == <<gen, version>>
entry == <<cver, cgrants, cuntil>>
build == <<clock, toGrant, toLimit, grants, limit>>
vars == <<db, now, entry, at, ver, build, start>>

Locations == {"idle", "cache", "drop", "build", "read", "done"}
Nothing == [p \in Parts |-> None]

Init ==
  /\ gen = [p \in Parts |-> 0]
  /\ version = 0
  /\ now = 0
  /\ cver = None /\ cgrants = Nothing /\ cuntil = Never
  /\ at = [r \in Requests |-> "idle"]
  /\ ver = [r \in Requests |-> None]
  /\ clock = [r \in Requests |-> 0]
  /\ toGrant = [r \in Requests |-> {}]
  /\ toLimit = [r \in Requests |-> {}]
  /\ grants = [r \in Requests |-> Nothing]
  /\ limit = [r \in Requests |-> Never]
  /\ start = [r \in Requests |-> gen]

-----------------------------------------------------------------------------
(* What a part grants at time t, and when that next changes.               *)

GrantAt(p, t) ==
  IF From[p][gen[p]] <= t /\ t < Until[p][gen[p]] THEN gen[p] ELSE None

NextTransition(p, t) ==
  LET from == From[p][gen[p]]
      until == Until[p][gen[p]]
  IN  IF from > t /\ (from <= until \/ until <= t) THEN from
      ELSE IF until > t THEN until ELSE Never

Goto(r, l) == at' = [at EXCEPT ![r] = l]

\* The request is answered: all that remains of its locals is the answer.
Answer(r, granted) ==
  /\ Goto(r, "done")
  /\ grants' = [grants EXCEPT ![r] = granted]
  /\ ver' = [ver EXCEPT ![r] = None]
  /\ clock' = [clock EXCEPT ![r] = 0]
  /\ limit' = [limit EXCEPT ![r] = Never]
  /\ UNCHANGED <<toGrant, toLimit>>

-----------------------------------------------------------------------------
(* Auth0ActorResolver.resolve.                                             *)

\* A request begins; the version is read, or cannot be.
ReadVersion(r) ==
  /\ at[r] \in {"idle", "done"}
  /\ start' = [start EXCEPT ![r] = gen]
  /\ grants' = [grants EXCEPT ![r] = Nothing]
  /\ \/ ver' = [ver EXCEPT ![r] = version] /\ Goto(r, "cache")
     \/ ver' = [ver EXCEPT ![r] = None] /\ Goto(r, "build")
  /\ UNCHANGED <<db, now, entry, clock, toGrant, toLimit, limit>>

\* Faulty variant: the version of an entry is not compared.
TrustedAnyVersion(v) == cver # None /\ now < cuntil

Trusted(v) == cver = v /\ now < cuntil

\* The entry is the answer, there is none or no reply, or it is not trusted.
ReadCache(r) ==
  /\ at[r] = "cache"
  /\ \/ Trusted(ver[r]) /\ Answer(r, cgrants)
     \/ Goto(r, "build") /\ UNCHANGED <<ver, build>>
     \/ cver # None /\ ~Trusted(ver[r]) /\ Goto(r, "drop") /\ UNCHANGED <<ver, build>>
  /\ UNCHANGED <<db, now, entry, start>>

\* Faulty variant: the end of an absent entry is null, not undefined.
EmptyNull == cver' = None /\ cgrants' = Nothing /\ cuntil' = None

Empty == cver' = None /\ cgrants' = Nothing /\ cuntil' = Never

\* The key is deleted, whatever it holds by now, or that fails.
DropEntry(r) ==
  /\ at[r] = "drop"
  /\ Empty \/ UNCHANGED entry
  /\ Goto(r, "build")
  /\ UNCHANGED <<db, now, ver, build, start>>

BuildPipeline(r) ==
  /\ at[r] = "build"
  /\ clock' = [clock EXCEPT ![r] = now]
  /\ toGrant' = [toGrant EXCEPT ![r] = Parts]
  /\ toLimit' = [toLimit EXCEPT ![r] = Parts]
  /\ Goto(r, "read")
  /\ UNCHANGED <<db, now, entry, ver, grants, limit, start>>

ReadGrant(r, p) ==
  /\ at[r] = "read" /\ p \in toGrant[r]
  /\ toGrant' = [toGrant EXCEPT ![r] = @ \ {p}]
  /\ grants' = [grants EXCEPT ![r] = [grants[r] EXCEPT ![p] = GrantAt(p, clock[r])]]
  /\ UNCHANGED <<db, now, entry, at, ver, clock, toLimit, limit, start>>

ReadTransition(r, p) ==
  /\ at[r] = "read" /\ p \in toLimit[r]
  /\ toLimit' = [toLimit EXCEPT ![r] = @ \ {p}]
  /\ limit' = [limit EXCEPT ![r] = IF NextTransition(p, clock[r]) < @
                                   THEN NextTransition(p, clock[r]) ELSE @]
  /\ UNCHANGED <<db, now, entry, at, ver, clock, toGrant, grants, start>>

\* Faulty variant: the entry gets the version of the moment it is stored.
StoreReread(r) ==
  /\ at[r] = "read" /\ toGrant[r] = {} /\ toLimit[r] = {}
  /\ cver' = version /\ cgrants' = grants[r] /\ cuntil' = limit[r]
  /\ Answer(r, grants[r])
  /\ UNCHANGED <<db, now, start>>

\* The snapshot is stored under the version read at the start, if that was
\* read and Redis takes it, and is the answer.
Store(r) ==
  /\ at[r] = "read" /\ toGrant[r] = {} /\ toLimit[r] = {}
  /\ \/ ver[r] # None /\ cver' = ver[r] /\ cgrants' = grants[r] /\ cuntil' = limit[r]
     \/ UNCHANGED entry
  /\ Answer(r, grants[r])
  /\ UNCHANGED <<db, now, start>>

-----------------------------------------------------------------------------
(* The environment.                                                        *)

\* An authoritative mutation commits.
Mutate ==
  /\ \E S \in SUBSET Parts :
       /\ S # {}
       /\ \A p \in S : gen[p] < MaxGen
       /\ gen' = [p \in Parts |-> IF p \in S THEN gen[p] + 1 ELSE gen[p]]
  /\ version' = version + 1
  /\ UNCHANGED <<now, entry, at, ver, build, start>>

\* The time to live of the entry ends, or Redis evicts it.
Evict ==
  /\ cver # None
  /\ Empty
  /\ UNCHANGED <<db, now, at, ver, build, start>>

Tick ==
  /\ now < MaxTime
  /\ now' = now + 1
  /\ UNCHANGED <<db, entry, at, ver, build, start>>

Resolve(r) ==
  \/ ReadVersion(r) \/ ReadCache(r) \/ DropEntry(r) \/ BuildPipeline(r)
  \/ \E p \in Parts : ReadGrant(r, p) \/ ReadTransition(r, p)
  \/ Store(r)

Next == (\E r \in Requests : Resolve(r)) \/ Mutate \/ Evict \/ Tick

Spec == Init /\ [][Next]_vars

-----------------------------------------------------------------------------
\* The database, the entry and every request are well formed.
TypeOK ==
  /\ gen \in [Parts -> Gens]
  /\ version \in Nat
  /\ now \in 0..MaxTime
  /\ cver \in Nat \cup {None}
  /\ cgrants \in [Parts -> Gens \cup {None}]
  /\ cuntil \in Times
  /\ at \in [Requests -> Locations]
  /\ ver \in [Requests -> Nat \cup {None}]
  /\ clock \in [Requests -> 0..MaxTime]
  /\ toGrant \in [Requests -> SUBSET Parts]
  /\ toLimit \in [Requests -> SUBSET Parts]
  /\ grants \in [Requests -> [Parts -> Gens \cup {None}]]
  /\ limit \in [Requests -> Times]
  /\ start \in [Requests -> [Parts -> Gens]]

\* "Cached envelopes are trusted only when that DB version matches": an entry
\* that a request would trust if it began now grants exactly what the
\* database grants now, whatever ran while the entry was made and although
\* nobody invalidates entries when a part begins or ends.
CurrentEntryIsTruth ==
  Trusted(version) => \A p \in Parts : cgrants[p] = GrantAt(p, now)

\* A request never acts on a generation of a part that had been replaced
\* before the request began, whether its answer came from the cache or from
\* reads that a mutation tore apart.
NoRevokedAuthority ==
  \A r \in Requests : at[r] = "done" =>
    \A p \in Parts : grants[r][p] # None => grants[r][p] >= start[r][p]
=============================================================================
