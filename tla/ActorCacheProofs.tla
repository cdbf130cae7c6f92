-------------------------- MODULE ActorCacheProofs --------------------------
(***************************************************************************)
(* The two invariants of ActorCache for any number of requests and parts   *)
(* and any life spans of the parts.                                        *)
(***************************************************************************)
EXTENDS ActorCache, TLAPS

-----------------------------------------------------------------------------
(* Type correctness.                                                       *)

\* What a part grants, and when that changes, is of the right kind.
LEMMA GrantType ==
  ASSUME TypeOK, NEW p \in Parts, NEW t \in 0..MaxTime
  PROVE  /\ GrantAt(p, t) \in Gens \cup {None}
         /\ NextTransition(p, t) \in Times
<1>1. gen[p] \in Gens
  BY DEF TypeOK
<1>2. From[p][gen[p]] \in Times /\ Until[p][gen[p]] \in Times
  BY <1>1, ActorCacheAssumption
<1>3. GrantAt(p, t) \in Gens \cup {None}
  BY <1>1 DEF GrantAt
<1>4. NextTransition(p, t) \in Times
  BY <1>2, ActorCacheAssumption DEF NextTransition, Times, Never
<1> QED
  BY <1>3, <1>4

\* The initial state is well formed.
LEMMA InitType == Init => TypeOK
<1> SUFFICES ASSUME Init PROVE TypeOK
  OBVIOUS
<1>1. 0 \in Gens /\ 0 \in 0..MaxTime /\ Never \in Times
  BY ActorCacheAssumption DEF Gens, Never, Times
<1>2. Nothing \in [Parts -> Gens \cup {None}]
  BY DEF Nothing
<1> QED
  BY <1>1, <1>2 DEF Init, TypeOK, Locations

\* Answering keeps the requests well formed.
LEMMA AnswerType ==
  ASSUME TypeOK, NEW r \in Requests,
         NEW granted \in [Parts -> Gens \cup {None}],
         Answer(r, granted), UNCHANGED <<gen, version, now, start>>,
         cver' \in Nat \cup {None}, cgrants' \in [Parts -> Gens \cup {None}],
         cuntil' \in Times
  PROVE  TypeOK'
<1>1. 0 \in 0..MaxTime /\ Never \in Times
  BY ActorCacheAssumption DEF Never, Times
<1> QED
  BY <1>1 DEF TypeOK, Answer, Goto, Locations

\* Every step of a request keeps the state well formed.
LEMMA ResolveType ==
  ASSUME TypeOK, NEW r \in Requests, Resolve(r)
  PROVE  TypeOK'
<1> USE DEF db, entry, build
<1>0. /\ 0 \in 0..MaxTime /\ Never \in Times
      /\ Nothing \in [Parts -> Gens \cup {None}]
  BY ActorCacheAssumption DEF Never, Times, Nothing
<1>1. CASE ReadVersion(r)
  BY <1>0, <1>1 DEF TypeOK, ReadVersion, Goto, Locations
<1>2. CASE ReadCache(r)
  <2>1. CASE Trusted(ver[r]) /\ Answer(r, cgrants) /\ UNCHANGED <<db, now, entry, start>>
    <3>1. cgrants \in [Parts -> Gens \cup {None}]
      BY DEF TypeOK
    <3> QED
      BY <2>1, <3>1, AnswerType DEF TypeOK
  <2>2. CASE UNCHANGED <<db, now, entry, ver, build, start>> /\ Goto(r, "build")
    BY <2>2 DEF TypeOK, Goto, Locations
  <2>3. CASE UNCHANGED <<db, now, entry, ver, build, start>> /\ Goto(r, "drop")
    BY <2>3 DEF TypeOK, Goto, Locations
  <2> QED
    BY <1>2, <2>1, <2>2, <2>3 DEF ReadCache
<1>3. CASE DropEntry(r)
  BY <1>0, <1>3 DEF TypeOK, DropEntry, Empty, Goto, Locations
<1>4. CASE BuildPipeline(r)
  BY <1>4 DEF TypeOK, BuildPipeline, Goto, Locations
<1>5. CASE \E p \in Parts : ReadGrant(r, p)
  <2> PICK p \in Parts : ReadGrant(r, p)
    BY <1>5
  <2>1. clock[r] \in 0..MaxTime
    BY DEF TypeOK
  <2>2. GrantAt(p, clock[r]) \in Gens \cup {None}
    BY <2>1, GrantType
  <2>3. grants' \in [Requests -> [Parts -> Gens \cup {None}]]
    BY <2>2 DEF TypeOK, ReadGrant
  <2> QED
    BY <2>3 DEF TypeOK, ReadGrant
<1>6. CASE \E p \in Parts : ReadTransition(r, p)
  <2> PICK p \in Parts : ReadTransition(r, p)
    BY <1>6
  <2>1. clock[r] \in 0..MaxTime
    BY DEF TypeOK
  <2>2. NextTransition(p, clock[r]) \in Times
    BY <2>1, GrantType
  <2>3. limit' \in [Requests -> Times]
    BY <2>2 DEF TypeOK, ReadTransition
  <2> QED
    BY <2>3 DEF TypeOK, ReadTransition
<1>7. CASE Store(r)
  <2>1. /\ grants[r] \in [Parts -> Gens \cup {None}]
        /\ limit[r] \in Times /\ ver[r] \in Nat \cup {None}
    BY DEF TypeOK
  <2> QED
    BY <1>7, <2>1, AnswerType DEF TypeOK, Store
<1> QED
  BY <1>1, <1>2, <1>3, <1>4, <1>5, <1>6, <1>7 DEF Resolve

\* Every step keeps the state well formed.
LEMMA NextType == TypeOK /\ [Next]_vars => TypeOK'
<1> SUFFICES ASSUME TypeOK, [Next]_vars PROVE TypeOK'
  OBVIOUS
<1> USE DEF db, entry, build
<1>1. CASE \E r \in Requests : Resolve(r)
  BY <1>1, ResolveType
<1>2. CASE Mutate
  <2>1. gen' \in [Parts -> Gens]
    BY <1>2, ActorCacheAssumption DEF Mutate, TypeOK, Gens
  <2>2. version' \in Nat
    BY <1>2 DEF Mutate, TypeOK
  <2> QED
    BY <1>2, <2>1, <2>2 DEF Mutate, TypeOK
<1>3. CASE Evict
  <2>1. Never \in Times /\ Nothing \in [Parts -> Gens \cup {None}]
    BY ActorCacheAssumption DEF Never, Times, Nothing
  <2> QED
    BY <1>3, <2>1 DEF Evict, Empty, TypeOK
<1>4. CASE Tick
  <2>1. now' \in 0..MaxTime
    BY <1>4, ActorCacheAssumption DEF Tick, TypeOK
  <2> QED
    BY <1>4, <2>1 DEF Tick, TypeOK
<1>5. CASE UNCHANGED vars
  BY <1>5 DEF vars, TypeOK
<1> QED
  BY <1>1, <1>2, <1>3, <1>4, <1>5 DEF Next

\* The database, the entry and every request are always well formed.
THEOREM TypeCorrect == Spec => []TypeOK
<1>1. TypeOK /\ [Next]_vars => TypeOK'
  BY NextType
<1> QED
  BY InitType, <1>1, PTL DEF Spec

-----------------------------------------------------------------------------
(* The inductive invariant.                                                *)

\* A version number is never ahead of the database, and the request that
\* read the current one has seen no generation but the current ones.
Versions ==
  /\ cver \in Nat => cver <= version
  /\ \A r \in Requests : ver[r] \in Nat => ver[r] <= version
  /\ \A r \in Requests : ver[r] = version => start[r] = gen
  /\ \A q, r \in Requests : ver[r] \in Nat /\ ver[q] = ver[r] => start[q] = start[r]

\* No clock of a pipeline is ahead of the time.
Clocks == \A r \in Requests : clock[r] <= now

\* While the version stands, what has been read is what there is: of the
\* parts read so far, the grants as of the clock and a bound until which
\* they stay so.
ReadsAreTruth ==
  \A r \in Requests : at[r] = "read" /\ ver[r] = version =>
    \A p \in Parts :
      /\ p \notin toGrant[r] => grants[r][p] = GrantAt(p, clock[r])
      /\ p \notin toLimit[r] => limit[r] <= NextTransition(p, clock[r])

\* The same of an entry of the current version, until it runs out.
EntryIsTruth ==
  cver = version => \A p \in Parts :
    /\ cgrants[p] \in {None, gen[p]}
    /\ \A t \in Nat : now <= t /\ t < cuntil => cgrants[p] = GrantAt(p, t)

\* Neither the reads of a request nor an entry of its version grant a
\* generation older than the request; where there is no entry, no grants are.
NothingOlder ==
  /\ cver = None => cgrants = Nothing
  /\ \A r \in Requests, p \in Parts :
       /\ start[r][p] <= gen[p]
       /\ grants[r][p] # None => start[r][p] <= grants[r][p]
       /\ ver[r] \in Nat /\ cver = ver[r] /\ cgrants[p] # None
            => start[r][p] <= cgrants[p]

IInv ==
  /\ TypeOK
  /\ Versions
  /\ Clocks
  /\ ReadsAreTruth
  /\ EntryIsTruth
  /\ NothingOlder

\* Between two transitions of a part, what it grants does not change.
LEMMA NoTransition ==
  ASSUME TypeOK, NEW p \in Parts, NEW c \in Nat, NEW t \in Nat,
         c <= t, t < NextTransition(p, c), t <= MaxTime
  PROVE  GrantAt(p, t) = GrantAt(p, c)
<1>1. gen[p] \in Gens
  BY DEF TypeOK
<1>2. From[p][gen[p]] \in Nat /\ Until[p][gen[p]] \in Nat
  BY <1>1, ActorCacheAssumption DEF Times, Never
<1> QED
  BY <1>2, ActorCacheAssumption DEF GrantAt, NextTransition, Never

\* The invariant holds initially.
LEMMA InitInv == Init => IInv
<1> SUFFICES ASSUME Init PROVE IInv
  OBVIOUS
<1>1. TypeOK
  BY InitType
<1>2. None \notin Nat
  BY ActorCacheAssumption
<1>3. Versions
  BY <1>2 DEF Init, Versions
<1>4. Clocks
  <2>1. \A r \in Requests : clock[r] = now
    BY DEF Init
  <2>2. now \in Nat
    BY DEF Init
  <2>3. now <= now
    BY <2>2
  <2> QED
    BY <2>1, <2>3 DEF Clocks
<1>5. ReadsAreTruth
  BY DEF Init, ReadsAreTruth
<1>6. EntryIsTruth
  BY <1>2 DEF Init, EntryIsTruth
<1>7. NothingOlder
  BY <1>2 DEF Init, NothingOlder, Nothing
<1> QED
  BY <1>1, <1>3, <1>4, <1>5, <1>6, <1>7 DEF IInv

\* A request that begins has seen the present generations.
LEMMA ReadVersionInv ==
  ASSUME IInv, TypeOK', NEW r \in Requests, ReadVersion(r)
  PROVE  IInv'
<1> USE DEF db, entry, build
<1>1. None \notin Nat /\ version \in Nat
  BY ActorCacheAssumption DEF IInv, TypeOK
<1>2. /\ start' = [start EXCEPT ![r] = gen]
      /\ ver' \in {[ver EXCEPT ![r] = version], [ver EXCEPT ![r] = None]}
  BY DEF ReadVersion
<1>3. Versions'
  <2>1. (cver \in Nat => cver <= version)'
    BY DEF IInv, Versions, ReadVersion
  <2>2. \A q \in Requests :
          \/ q = r /\ start'[q] = gen /\ ver'[q] \in {version, None}
          \/ q # r /\ start'[q] = start[q] /\ ver'[q] = ver[q]
    BY <1>2 DEF IInv, TypeOK
  <2>3. \A q \in Requests : ver'[q] \in Nat => ver'[q] <= version
    BY <1>1, <2>2 DEF IInv, Versions
  <2>4. \A q \in Requests : ver'[q] = version => start'[q] = gen
    BY <2>2 DEF IInv, Versions
  <2>5. \A o, q \in Requests :
          ver'[q] \in Nat /\ ver'[o] = ver'[q] => start'[o] = start'[q]
    BY <1>1, <2>2, <2>4 DEF IInv, Versions
  <2> QED
    BY <2>1, <2>3, <2>4, <2>5 DEF Versions, ReadVersion
<1>4. Clocks'
  BY DEF IInv, Clocks, ReadVersion
<1>5. ReadsAreTruth'
  BY <1>1 DEF IInv, TypeOK, ReadsAreTruth, ReadVersion, Goto, GrantAt, NextTransition
<1>6. EntryIsTruth'
  BY DEF IInv, EntryIsTruth, ReadVersion, GrantAt
<1>7. NothingOlder'
  <2>0. cver' = None => cgrants' = Nothing
    BY DEF IInv, NothingOlder, ReadVersion
  <2> SUFFICES ASSUME NEW q \in Requests, NEW p \in Parts
               PROVE  /\ start'[q][p] <= gen[p]
                      /\ grants'[q][p] # None => start'[q][p] <= grants'[q][p]
                      /\ ver'[q] \in Nat /\ cver = ver'[q] /\ cgrants[p] # None
                           => start'[q][p] <= cgrants[p]
    BY <2>0 DEF NothingOlder, ReadVersion
  <2>1. CASE q = r
    <3>1. start'[q] = gen /\ grants'[q] = Nothing /\ ver'[q] \in {version, None}
      BY <2>1 DEF IInv, TypeOK, ReadVersion
    <3>2. gen[p] \in Nat
      BY ActorCacheAssumption DEF IInv, TypeOK, Gens
    <3> QED
      BY <1>1, <3>1, <3>2 DEF IInv, EntryIsTruth, Nothing
  <2>2. CASE q # r
    BY <2>2 DEF IInv, TypeOK, NothingOlder, ReadVersion
  <2> QED
    BY <2>1, <2>2
<1> QED
  BY <1>3, <1>4, <1>5, <1>6, <1>7 DEF IInv

\* An answer that is not older than its request keeps the invariant, if what
\* is left in the cache does.
LEMMA AnswerInv ==
  ASSUME IInv, TypeOK', NEW r \in Requests, NEW granted, Answer(r, granted),
         UNCHANGED <<gen, version, now, start>>,
         \A p \in Parts : granted[p] # None => start[r][p] <= granted[p],
         cver' \in Nat => cver' <= version,
         cver' = None => cgrants' = Nothing,
         EntryIsTruth',
         \A q \in Requests, p \in Parts :
           ver[q] \in Nat /\ cver' = ver[q] /\ cgrants'[p] # None
             => start[q][p] <= cgrants'[p]
  PROVE  IInv'
<1>1. None \notin Nat /\ version \in Nat
  BY ActorCacheAssumption DEF IInv, TypeOK
<1>2. \A q \in Requests :
        \/ q = r /\ ver'[q] = None /\ clock'[q] = 0 /\ grants'[q] = granted
                 /\ at'[q] = "done"
        \/ q # r /\ ver'[q] = ver[q] /\ clock'[q] = clock[q] /\ limit'[q] = limit[q]
                 /\ grants'[q] = grants[q] /\ at'[q] = at[q]
  BY DEF IInv, TypeOK, Answer, Goto
<1>3. Versions'
  <2>1. \A q \in Requests : ver'[q] \in Nat => ver'[q] <= version
    BY <1>1, <1>2 DEF IInv, Versions
  <2>2. \A q \in Requests : ver'[q] = version => start[q] = gen
    BY <1>1, <1>2 DEF IInv, Versions
  <2>3. \A o, q \in Requests :
          ver'[q] \in Nat /\ ver'[o] = ver'[q] => start[o] = start[q]
    BY <1>1, <1>2 DEF IInv, Versions
  <2> QED
    BY <2>1, <2>2, <2>3 DEF Versions
<1>4. Clocks'
  <2>1. now \in Nat
    BY ActorCacheAssumption DEF IInv, TypeOK
  <2>2. \A q \in Requests : clock'[q] <= now
    BY <1>2, <2>1 DEF IInv, Clocks
  <2> QED
    BY <2>2 DEF Clocks
<1>5. ReadsAreTruth'
  BY <1>2 DEF IInv, ReadsAreTruth, GrantAt, NextTransition, Answer
<1>6. NothingOlder'
  BY <1>1, <1>2 DEF IInv, NothingOlder
<1> QED
  BY <1>3, <1>4, <1>5, <1>6 DEF IInv

\* An entry of the version that the request read is not older than the request.
LEMMA ReadCacheInv ==
  ASSUME IInv, TypeOK', NEW r \in Requests, ReadCache(r)
  PROVE  IInv'
<1> USE DEF db, entry, build
<1>1. None \notin Nat /\ ver[r] \in Nat \cup {None}
  BY ActorCacheAssumption DEF IInv, TypeOK
<1>2. CASE Trusted(ver[r]) /\ Answer(r, cgrants) /\ UNCHANGED <<db, now, entry, start>>
  <2>1. \A p \in Parts : cgrants[p] # None => start[r][p] <= cgrants[p]
    <3>1. CASE ver[r] \in Nat
      BY <1>2, <3>1 DEF IInv, NothingOlder, Trusted
    <3>2. CASE ver[r] = None
      BY <1>2, <3>2 DEF IInv, NothingOlder, Trusted, Nothing
    <3> QED
      BY <1>1, <3>1, <3>2
  <2>2. EntryIsTruth'
    BY <1>2 DEF IInv, EntryIsTruth, GrantAt
  <2>3. /\ (cver \in Nat => cver <= version)'
        /\ cver' = None => cgrants' = Nothing
    BY <1>2 DEF IInv, Versions, NothingOlder
  <2>4. \A q \in Requests, p \in Parts :
          ver[q] \in Nat /\ cver' = ver[q] /\ cgrants'[p] # None
            => start[q][p] <= cgrants'[p]
    BY <1>2 DEF IInv, NothingOlder
  <2> QED
    BY <1>2, <2>1, <2>2, <2>3, <2>4, AnswerInv
<1>3. CASE UNCHANGED <<db, now, entry, ver, build, start>> /\ at'[r] # "read"
           /\ \A q \in Requests : q # r => at'[q] = at[q]
  BY <1>3 DEF IInv, Versions, Clocks, ReadsAreTruth, EntryIsTruth, NothingOlder,
              GrantAt, NextTransition
<1> QED
  BY <1>2, <1>3 DEF ReadCache, Goto, IInv, TypeOK

\* An absent entry is no wrong entry.
LEMMA EmptyEntry ==
  ASSUME IInv, TypeOK', Empty, UNCHANGED <<db, now, ver, build, start>>,
         \A q \in Requests : at'[q] = "read" => at[q] = "read"
  PROVE  IInv'
<1> USE DEF db, build
<1>1. None \notin Nat /\ version \in Nat
  BY ActorCacheAssumption DEF IInv, TypeOK
<1>2. Versions' /\ Clocks'
  BY <1>1 DEF IInv, Versions, Clocks, Empty
<1>3. ReadsAreTruth'
  BY DEF IInv, ReadsAreTruth, GrantAt, NextTransition
<1>4. EntryIsTruth'
  BY <1>1 DEF Empty, EntryIsTruth
<1>5. NothingOlder'
  BY <1>1 DEF IInv, NothingOlder, Empty
<1> QED
  BY <1>2, <1>3, <1>4, <1>5 DEF IInv

\* Deleting the entry, whichever it is, keeps the invariant.
LEMMA DropEntryInv ==
  ASSUME IInv, TypeOK', NEW r \in Requests, DropEntry(r)
  PROVE  IInv'
<1> USE DEF db, entry, build
<1>1. \A q \in Requests : at'[q] = "read" => at[q] = "read"
  BY DEF DropEntry, Goto, IInv, TypeOK
<1>2. CASE Empty
  BY <1>1, <1>2, EmptyEntry DEF DropEntry
<1>3. CASE UNCHANGED entry
  BY <1>1, <1>3 DEF DropEntry, IInv, Versions, Clocks, ReadsAreTruth, EntryIsTruth,
                    NothingOlder, GrantAt, NextTransition
<1> QED
  BY <1>2, <1>3 DEF DropEntry

\* A pipeline that has read nothing yet keeps the invariant.
LEMMA BuildPipelineInv ==
  ASSUME IInv, TypeOK', NEW r \in Requests, BuildPipeline(r)
  PROVE  IInv'
<1> USE DEF db, entry, build
<1>1. Versions' /\ EntryIsTruth' /\ NothingOlder'
  BY DEF BuildPipeline, IInv, Versions, EntryIsTruth, NothingOlder, GrantAt
<1>2. \A q \in Requests :
        \/ q = r /\ clock'[q] = now /\ toGrant'[q] = Parts /\ toLimit'[q] = Parts
        \/ /\ q # r /\ clock'[q] = clock[q] /\ at'[q] = at[q]
           /\ toGrant'[q] = toGrant[q] /\ toLimit'[q] = toLimit[q]
  BY DEF BuildPipeline, Goto, IInv, TypeOK
<1>3. Clocks'
  <2>1. now \in Nat /\ now' = now
    BY ActorCacheAssumption DEF IInv, TypeOK, BuildPipeline
  <2>2. \A q \in Requests : clock'[q] <= now
    BY <1>2, <2>1 DEF IInv, Clocks
  <2> QED
    BY <2>1, <2>2 DEF Clocks
<1>4. ReadsAreTruth'
  BY <1>2 DEF BuildPipeline, IInv, ReadsAreTruth, GrantAt, NextTransition
<1> QED
  BY <1>1, <1>3, <1>4 DEF IInv

\* What a part grants now is not older than the request.
LEMMA ReadGrantInv ==
  ASSUME IInv, TypeOK', NEW r \in Requests, NEW p \in Parts, ReadGrant(r, p)
  PROVE  IInv'
<1> USE DEF db, entry
<1>1. Versions' /\ EntryIsTruth' /\ Clocks'
  BY DEF ReadGrant, IInv, Versions, EntryIsTruth, Clocks, GrantAt
<1>2. \A q \in Requests, o \in Parts :
        \/ q = r /\ o = p /\ grants'[q][o] = GrantAt(p, clock[r])
        \/ (q # r \/ o # p) /\ grants'[q][o] = grants[q][o]
  BY DEF ReadGrant, IInv, TypeOK
<1>3. \A q \in Requests, o \in Parts :
        (q # r \/ o # p) /\ o \notin toGrant'[q] => o \notin toGrant[q]
  BY DEF ReadGrant, IInv, TypeOK
<1>4. ReadsAreTruth'
  BY <1>2, <1>3 DEF ReadGrant, IInv, ReadsAreTruth, GrantAt, NextTransition
<1>5. NothingOlder'
  BY <1>2 DEF ReadGrant, IInv, NothingOlder, GrantAt
<1> QED
  BY <1>1, <1>4, <1>5 DEF IInv

\* The bound of a request covers the transition it has just read.
LEMMA ReadTransitionInv ==
  ASSUME IInv, TypeOK', NEW r \in Requests, NEW p \in Parts, ReadTransition(r, p)
  PROVE  IInv'
<1> USE DEF db, entry
<1>1. Versions' /\ EntryIsTruth' /\ Clocks' /\ NothingOlder'
  BY DEF ReadTransition, IInv, Versions, EntryIsTruth, Clocks, NothingOlder, GrantAt
<1>2. \A o \in Parts : NextTransition(o, clock[r]) \in Nat
  BY GrantType, ActorCacheAssumption DEF IInv, TypeOK, Times, Never
<1>3. limit[r] \in Nat
  BY ActorCacheAssumption DEF IInv, TypeOK, Times, Never
<1>4. limit'[r] <= limit[r] /\ limit'[r] <= NextTransition(p, clock[r]) /\ limit'[r] \in Nat
  BY <1>2, <1>3 DEF ReadTransition, IInv, TypeOK
<1>5. \A q \in Requests :
        q # r => limit'[q] = limit[q] /\ toLimit'[q] = toLimit[q]
  BY DEF ReadTransition, IInv, TypeOK
<1>6. \A o \in Parts : o \notin toLimit'[r] => o = p \/ o \notin toLimit[r]
  BY DEF ReadTransition, IInv, TypeOK
<1>7. ReadsAreTruth'
  <2> SUFFICES ASSUME NEW q \in Requests, at[q] = "read", ver[q] = version, NEW o \in Parts
               PROVE  /\ o \notin toGrant[q] => grants[q][o] = GrantAt(o, clock[q])
                      /\ o \notin toLimit'[q] => limit'[q] <= NextTransition(o, clock[q])
    BY DEF ReadsAreTruth, ReadTransition, GrantAt, NextTransition
  <2>1. o \notin toGrant[q] => grants[q][o] = GrantAt(o, clock[q])
    BY DEF IInv, ReadsAreTruth
  <2>2. CASE q # r
    BY <1>5, <2>1, <2>2 DEF IInv, ReadsAreTruth
  <2>3. CASE q = r
    <3>1. o \notin toLimit[r] => limit[r] <= NextTransition(o, clock[r])
      BY <2>3 DEF IInv, ReadsAreTruth
    <3> QED
      BY <1>2, <1>3, <1>4, <1>6, <2>1, <2>3, <3>1
  <2> QED
    BY <2>2, <2>3
<1> QED
  BY <1>1, <1>7 DEF IInv

\* What a request stores under the version it read at the start is the truth
\* of that version, if it is still the current one.
LEMMA StoreInv ==
  ASSUME IInv, TypeOK', NEW r \in Requests, Store(r)
  PROVE  IInv'
<1> USE DEF db
<1>1. /\ None \notin Nat /\ version \in Nat /\ now \in Nat /\ MaxTime \in Nat
      /\ clock[r] \in Nat /\ limit[r] \in 0..(MaxTime + 1)
  BY ActorCacheAssumption DEF IInv, TypeOK, Times, Never
<1>2. \A p \in Parts : grants[r][p] # None => start[r][p] <= grants[r][p]
  BY DEF IInv, NothingOlder
<1>3. CASE /\ ver[r] # None
           /\ cver' = ver[r] /\ cgrants' = grants[r] /\ cuntil' = limit[r]
  <2>1. EntryIsTruth'
    <3> SUFFICES ASSUME ver[r] = version, NEW p \in Parts
                 PROVE  /\ grants[r][p] \in {None, gen[p]}
                        /\ \A t \in Nat : now <= t /\ t < limit[r]
                             => grants[r][p] = GrantAt(p, t)
      BY <1>3 DEF EntryIsTruth, Store, GrantAt
    <3>1. /\ grants[r][p] = GrantAt(p, clock[r])
          /\ limit[r] <= NextTransition(p, clock[r])
      BY DEF Store, IInv, ReadsAreTruth
    <3>2. NextTransition(p, clock[r]) \in Nat
      BY GrantType, ActorCacheAssumption DEF IInv, TypeOK, Times, Never
    <3>3. clock[r] <= now
      BY DEF IInv, Clocks
    <3>4. ASSUME NEW t \in Nat, now <= t, t < limit[r]
          PROVE  grants[r][p] = GrantAt(p, t)
      <4>1. clock[r] <= t /\ t < NextTransition(p, clock[r]) /\ t <= MaxTime
        BY <1>1, <3>1, <3>2, <3>3, <3>4
      <4> QED
        BY <1>1, <3>1, <4>1, NoTransition DEF IInv
    <3> QED
      BY <3>1, <3>4 DEF GrantAt
  <2>2. \A q \in Requests, p \in Parts :
          ver[q] \in Nat /\ cver' = ver[q] /\ cgrants'[p] # None
            => start[q][p] <= cgrants'[p]
    BY <1>2, <1>3 DEF IInv, Versions
  <2>3. cver' \in Nat => cver' <= version
    BY <1>3 DEF IInv, Versions
  <2> QED
    BY <1>2, <1>3, <2>1, <2>2, <2>3, AnswerInv DEF Store
<1>4. CASE UNCHANGED entry
  <2>1. EntryIsTruth'
    BY <1>4 DEF entry, Store, IInv, EntryIsTruth, GrantAt
  <2>2. \A q \in Requests, p \in Parts :
          ver[q] \in Nat /\ cver' = ver[q] /\ cgrants'[p] # None
            => start[q][p] <= cgrants'[p]
    BY <1>4 DEF entry, IInv, NothingOlder
  <2>3. (cver' \in Nat => cver' <= version) /\ (cver' = None => cgrants' = Nothing)
    BY <1>4 DEF entry, IInv, Versions, NothingOlder
  <2> QED
    BY <1>2, <1>4, <2>1, <2>2, <2>3, AnswerInv DEF Store
<1> QED
  BY <1>3, <1>4 DEF Store

\* A mutation leaves every version in use behind.
LEMMA MutateInv ==
  ASSUME IInv, TypeOK', Mutate
  PROVE  IInv'
<1> USE DEF db, entry, build
<1>1. /\ None \notin Nat /\ version \in Nat /\ version' = version + 1
      /\ cver \in Nat \cup {None} /\ \A r \in Requests : ver[r] \in Nat \cup {None}
  BY ActorCacheAssumption DEF IInv, TypeOK, Mutate
<1>2. cver # version' /\ \A r \in Requests : ver[r] # version'
  BY <1>1 DEF IInv, Versions
<1>3. \A p \in Parts : gen[p] \in Nat /\ gen'[p] \in Nat /\ gen[p] <= gen'[p]
  BY ActorCacheAssumption DEF IInv, TypeOK, Gens, Mutate
<1>4. \A r \in Requests, p \in Parts : start[r][p] \in Nat
  BY ActorCacheAssumption DEF IInv, TypeOK, Gens
<1>5. Versions'
  BY <1>1, <1>2 DEF IInv, Versions, Mutate
<1>6. Clocks'
  BY DEF IInv, Clocks, Mutate
<1>7. ReadsAreTruth' /\ EntryIsTruth'
  BY <1>2 DEF ReadsAreTruth, EntryIsTruth, Mutate
<1>8. NothingOlder'
  BY <1>3, <1>4 DEF IInv, NothingOlder, Mutate
<1> QED
  BY <1>5, <1>6, <1>7, <1>8 DEF IInv

\* Time takes nothing from the invariant but moments that have passed.
LEMMA TickInv ==
  ASSUME IInv, TypeOK', Tick
  PROVE  IInv'
<1> USE DEF db, entry, build
<1>1. now \in Nat /\ now' = now + 1 /\ \A r \in Requests : clock[r] \in Nat
  BY ActorCacheAssumption DEF IInv, TypeOK, Tick
<1>2. Versions' /\ ReadsAreTruth' /\ NothingOlder'
  BY DEF IInv, Versions, ReadsAreTruth, NothingOlder, Tick, GrantAt, NextTransition
<1>3. Clocks'
  <2>1. \A r \in Requests : clock[r] <= now + 1
    BY <1>1 DEF IInv, Clocks
  <2> QED
    BY <1>1, <2>1 DEF Clocks, Tick
<1>4. EntryIsTruth'
  BY <1>1 DEF IInv, EntryIsTruth, Tick, GrantAt
<1> QED
  BY <1>2, <1>3, <1>4 DEF IInv

\* Every step keeps the invariant.
LEMMA NextInv == IInv /\ [Next]_vars => IInv'
<1> SUFFICES ASSUME IInv, [Next]_vars PROVE IInv'
  OBVIOUS
<1>1. TypeOK'
  BY NextType DEF IInv
<1>2. CASE \E r \in Requests : Resolve(r)
  BY <1>1, <1>2, ReadVersionInv, ReadCacheInv, DropEntryInv, BuildPipelineInv,
     ReadGrantInv, ReadTransitionInv, StoreInv DEF Resolve
<1>3. CASE Mutate
  BY <1>1, <1>3, MutateInv
<1>4. CASE Evict
  BY <1>1, <1>4, EmptyEntry DEF Evict
<1>5. CASE Tick
  BY <1>1, <1>5, TickInv
<1>6. CASE UNCHANGED vars
  BY <1>6 DEF vars, db, entry, build, IInv, TypeOK, Versions, Clocks, ReadsAreTruth,
              EntryIsTruth, NothingOlder, GrantAt, NextTransition
<1> QED
  BY <1>2, <1>3, <1>4, <1>5, <1>6 DEF Next

\* An entry of the current version grants what the database grants.
LEMMA InvGivesTruth == IInv => CurrentEntryIsTruth
<1> SUFFICES ASSUME IInv, cver = version, now < cuntil, NEW p \in Parts
             PROVE  cgrants[p] = GrantAt(p, now)
  BY DEF CurrentEntryIsTruth, Trusted
<1>1. now \in Nat /\ now <= now
  BY ActorCacheAssumption DEF IInv, TypeOK
<1> QED
  BY <1>1 DEF IInv, EntryIsTruth

\* No answer is older than its request.
LEMMA InvGivesNoRevoked == IInv => NoRevokedAuthority
<1> SUFFICES ASSUME IInv, NEW r \in Requests, NEW p \in Parts, grants[r][p] # None
             PROVE  grants[r][p] >= start[r][p]
  BY DEF NoRevokedAuthority
<1>1. start[r][p] <= grants[r][p]
  BY DEF IInv, NothingOlder
<1>2. start[r][p] \in Nat /\ grants[r][p] \in Nat
  BY ActorCacheAssumption DEF IInv, TypeOK, Gens
<1> QED
  BY <1>1, <1>2

\* An entry that a request would trust if it began now grants exactly what
\* the database grants now: for any requests, parts and life spans.
THEOREM CacheIsTruth == Spec => []CurrentEntryIsTruth
<1>1. IInv /\ [Next]_vars => IInv'
  BY NextInv
<1> QED
  BY InitInv, <1>1, InvGivesTruth, PTL DEF Spec

\* No request acts on a generation that was replaced before it began.
THEOREM AnswersAreFresh == Spec => []NoRevokedAuthority
<1>1. IInv /\ [Next]_vars => IInv'
  BY NextInv
<1> QED
  BY InitInv, <1>1, InvGivesNoRevoked, PTL DEF Spec
=============================================================================
