------------------------------ MODULE SchemaCache ---------------------------
(***************************************************************************)
(* The GraphQL schemas of one replica (GraphQL/Caches/SchemaContext.cs):   *)
(* a cache per tenant, one semaphore for all builds, and invalidations     *)
(* that the broadcast events of a tenant bring                             *)
(* (Consumers/TenantManagementConsumer.cs).                                *)
(*                                                                         *)
(* A schema is known by the version of the CK model it was built from.  A  *)
(* build reads the model in many calls; the version is the one of the      *)
(* oldest part it read.  The CK model, its events and the MemoryCache are  *)
(* external; the cache is modelled as the calls of SchemaContext need it.  *)
(***************************************************************************)
EXTENDS Integers, FiniteSets

CONSTANTS
  Request,     \* GraphQL requests that run at the same time; each serves many
  Tenant,
  CacheLimit,  \* SizeLimit of the cache; every schema has size 1
  MaxVersion,  \* bound: versions of a tenant's model
  None         \* no schema; nobody

ASSUME LimitAssumption == CacheLimit \in Nat /\ MaxVersion \in Nat
ASSUME NoneAssumption == None \notin Nat /\ None \notin Request

VARIABLES
  pc,        \* pc[r]: the next step of r
  asks,      \* asks[r]: the tenant r asks about
  result,    \* result[r]: the schema r found or built
  cache,     \* cache[t]: the cached schema of t
  holder,    \* the request that holds the semaphore
  model,     \* model[t]: version of the CK model of t
  events,    \* events the replica has not consumed: <<tenant, version>>
  known,     \* known[t]: newest version an invalidation has made visible (history)
  since,     \* since[r]: known of its tenant when r began (history)
  lost       \* lost[t]: an invalidation came after the last build had read (history)

vars == <<pc, asks, result, cache, holder, model, events, known, since, lost>>
replica == <<pc, asks, result, cache, holder>>
environment == <<model, events>>
history == <<known, since, lost>>

Version == 0 .. MaxVersion

PC == {"idle", "lookup", "wait", "check", "populate", "store", "release"}

Schema == Version \cup {None}

TypeOK ==
  /\ pc \in [Request -> PC]
  /\ asks \in [Request -> Tenant]
  /\ result \in [Request -> Schema]
  /\ cache \in [Tenant -> Schema]
  /\ holder \in Request \cup {None}
  /\ model \in [Tenant -> Version]
  /\ events \subseteq Tenant \X Version
  /\ known \in [Tenant -> Version]
  /\ since \in [Request -> Version]
  /\ lost \in [Tenant -> BOOLEAN]

Init ==
  /\ pc = [r \in Request |-> "idle"]
  /\ asks \in [Request -> Tenant]
  /\ result = [r \in Request |-> None]
  /\ cache = [t \in Tenant |-> None]
  /\ holder = None
  /\ model = [t \in Tenant |-> 0]
  /\ events = {}
  /\ known = [t \in Tenant |-> 0]
  /\ since = [r \in Request |-> 0]
  /\ lost = [t \in Tenant |-> FALSE]

At(r, place) == pc[r] = place
Goto(r, place) == pc' = [pc EXCEPT ![r] = place]
Cached(r) == cache[asks[r]]

-----------------------------------------------------------------------------
(***************************************************************************)
(* GetOrCreateAsync.                                                       *)
(***************************************************************************)

Begin(r) ==
  /\ At(r, "idle")
  /\ Goto(r, "lookup")
  /\ \E t \in Tenant :
       /\ asks' = [asks EXCEPT ![r] = t]
       /\ since' = [since EXCEPT ![r] = known[t]]
  /\ result' = [result EXCEPT ![r] = None]
  /\ UNCHANGED <<cache, holder, environment, known, lost>>

\* The first TryGetValue, outside the semaphore.
Lookup(r) ==
  /\ At(r, "lookup")
  /\ result' = [result EXCEPT ![r] = Cached(r)]
  /\ Goto(r, IF Cached(r) = None THEN "wait" ELSE "idle")
  /\ UNCHANGED <<asks, cache, holder, environment, history>>

Enter(r) ==
  /\ At(r, "wait")
  /\ holder = None
  /\ holder' = r
  /\ Goto(r, "check")
  /\ UNCHANGED <<asks, result, cache, environment, history>>

\* The variant that builds without looking again.
CheckNothing(r) ==
  /\ At(r, "check")
  /\ Goto(r, "populate")
  /\ UNCHANGED <<asks, result, cache, holder, environment, history>>

\* GetOrCreateAsync of the cache looks again: the schema may have been built by
\* the request that held the semaphore before.
CheckAgain(r) ==
  /\ At(r, "check")
  /\ result' = [result EXCEPT ![r] = Cached(r)]
  /\ Goto(r, IF Cached(r) = None THEN "populate" ELSE "release")
  /\ UNCHANGED <<asks, cache, holder, environment, history>>

\* The factory reads the model, unless the tenant cannot be read.
Populate(r) ==
  /\ At(r, "populate")
  /\ \/ /\ result' = [result EXCEPT ![r] = model[asks[r]]]
        /\ lost' = [lost EXCEPT ![asks[r]] = FALSE]
        /\ Goto(r, "store")
     \/ /\ Goto(r, "release")
        /\ UNCHANGED <<result, lost>>
  /\ UNCHANGED <<asks, cache, holder, environment, known, since>>

\* The cache takes no entry beyond its limit.
Room(t) == Cardinality({u \in Tenant \ {t} : cache[u] # None}) < CacheLimit

\* The schema is stored when there is room; the request gets it all the same.
\* An invalid schema is not cached and fails the request.
Store(r) ==
  /\ At(r, "store")
  /\ \/ /\ cache' = IF Room(asks[r]) THEN [cache EXCEPT ![asks[r]] = result[r]] ELSE cache
        /\ UNCHANGED result
     \/ /\ result' = [result EXCEPT ![r] = None]
        /\ UNCHANGED cache
  /\ Goto(r, "release")
  /\ UNCHANGED <<asks, holder, environment, history>>

\* The variant that keeps the semaphore when there is no schema to return.
ReleaseWithSchema(r) ==
  /\ At(r, "release")
  /\ holder' = IF result[r] = None THEN holder ELSE None
  /\ Goto(r, "idle")
  /\ UNCHANGED <<asks, result, cache, environment, history>>

\* The request ends, with its schema or with SchemaCreationFailed.
Release(r) ==
  /\ At(r, "release")
  /\ holder' = None
  /\ Goto(r, "idle")
  /\ UNCHANGED <<asks, result, cache, environment, history>>

-----------------------------------------------------------------------------
(***************************************************************************)
(* TenantManagementConsumer and ClearCache.                                *)
(***************************************************************************)

\* The variant that counts the versions.
Together(a, b) == a + b

Larger(a, b) == IF a < b THEN b ELSE a

\* A build of t has read the model and not stored its schema.
Building(t) == \E r \in Request : asks[r] = t /\ At(r, "store")

\* It read an older one, which goes into the cache after the invalidation.
Overlapped(t, v) == \E r \in Request : asks[r] = t /\ At(r, "store") /\ result[r] < v

\* The variant that invalidates only while nothing is being built.
InvalidateIdle(t, v) ==
  /\ <<t, v>> \in events
  /\ events' = events \ {<<t, v>>}
  /\ cache' = IF holder = None THEN [cache EXCEPT ![t] = None] ELSE cache
  /\ known' = [known EXCEPT ![t] = IF Overlapped(t, v) THEN @ ELSE Larger(@, v)]
  /\ lost' = [lost EXCEPT ![t] = Overlapped(t, v) \/ (@ /\ Building(t))]
  /\ UNCHANGED <<pc, asks, result, holder, model, since>>

\* PosUpdateTenant and PreDeleteTenant, in any order.
Invalidate(t, v) ==
  /\ <<t, v>> \in events
  /\ events' = events \ {<<t, v>>}
  /\ cache' = [cache EXCEPT ![t] = None]
  /\ known' = [known EXCEPT ![t] = IF Overlapped(t, v) THEN @ ELSE Larger(@, v)]
  /\ lost' = [lost EXCEPT ![t] = Overlapped(t, v) \/ (@ /\ Building(t))]
  /\ UNCHANGED <<pc, asks, result, holder, model, since>>

\* ClearCache publishes a PosUpdateTenant, and a delete a PreDeleteTenant,
\* without a change of the model.
Announce(t) ==
  /\ events' = events \cup {<<t, model[t]>>}
  /\ UNCHANGED <<replica, model, history>>

-----------------------------------------------------------------------------
(***************************************************************************)
(* Around them (external).                                                 *)
(***************************************************************************)

\* The CK model changes; from then on the event of the change is on its way.
Change(t) ==
  /\ model[t] < MaxVersion
  /\ model' = [model EXCEPT ![t] = @ + 1]
  /\ events' = events \cup {<<t, model'[t]>>}
  /\ UNCHANGED <<replica, history>>

\* The sliding expiration has passed, or the cache is compacted.
Evict(t) ==
  /\ cache[t] # None
  /\ cache' = [cache EXCEPT ![t] = None]
  /\ UNCHANGED <<pc, asks, result, holder, environment, history>>

-----------------------------------------------------------------------------
RequestStep(r) ==
  Lookup(r) \/ Enter(r) \/ CheckAgain(r) \/ Populate(r) \/ Store(r) \/ Release(r)

Next ==
  \/ \E r \in Request : Begin(r) \/ RequestStep(r)
  \/ \E t \in Tenant : Announce(t) \/ Change(t) \/ Evict(t)
  \/ \E t \in Tenant, v \in Version : Invalidate(t, v)

Spec == Init /\ [][Next]_vars

\* A request goes on, and a waiter of the semaphore gets it at some time.
Fairness ==
  /\ \A r \in Request : WF_vars(Lookup(r) \/ CheckAgain(r) \/ Populate(r) \/ Store(r) \/ Release(r))
  /\ \A r \in Request : SF_vars(Enter(r))

FairSpec == Spec /\ Fairness

-----------------------------------------------------------------------------
(***************************************************************************)
(* Properties.                                                             *)
(***************************************************************************)

\* GetOrCreateAsync: only a tenant without a cached schema is built, and no
\* schema is built twice at the same time, though the first lookup holds nothing.
BuildsOnce ==
  \A r \in Request :
    At(r, "populate") \/ At(r, "store") =>
      Cached(r) = None /\ \A q \in Request \ {r} : ~At(q, "populate") /\ ~At(q, "store")

\* Invalidate: a request that begins after an invalidation was handled gets a
\* schema no older than it, unless a build had read the model before: events in
\* any order, evictions and lookups at any time do not bring an older one back.
AnswersKnown ==
  \A r \in Request : result[r] # None => since[r] <= result[r]

\* An invalidation of a schema s of t was lost, or a newer event is on its way.
Announced(t, s) == lost[t] \/ \E v \in Version : <<t, v>> \in events /\ s < v

\* A cached schema that is older than its model has a newer event on its way, or
\* the invalidation came while it was being built.
StaleIsAnnounced ==
  \A t \in Tenant : cache[t] # None /\ cache[t] < model[t] => Announced(t, cache[t])

\* The semaphore is released however a build ends: every request is answered.
RequestEnds == \A r \in Request : At(r, "lookup") ~> At(r, "idle")

-----------------------------------------------------------------------------
(***************************************************************************)
(* The inductive invariant behind the properties (see SchemaCacheProofs).  *)
(***************************************************************************)

\* The semaphore is held by the request that stands behind it.
HolderInv ==
  \A r \in Request :
    pc[r] \in {"check", "populate", "store", "release"} <=> holder = r

\* No event, and so no invalidation, is ahead of the model.
KnownInv ==
  /\ \A t \in Tenant, v \in Version : <<t, v>> \in events => v <= model[t]
  /\ \A t \in Tenant : known[t] <= model[t]
  /\ \A r \in Request : since[r] <= known[asks[r]]

\* What is cached is as new as the invalidations that were not lost.
CachedInv ==
  \A t \in Tenant : cache[t] # None => known[t] <= cache[t] /\ cache[t] <= model[t]

\* So is what is about to be stored.
BuiltInv ==
  \A r \in Request :
    At(r, "store") =>
      /\ result[r] # None
      /\ known[asks[r]] <= result[r]
      /\ result[r] <= model[asks[r]]
      /\ result[r] < model[asks[r]] => Announced(asks[r], result[r])

IInv ==
  TypeOK /\ HolderInv /\ BuildsOnce /\ KnownInv /\ CachedInv /\ BuiltInv /\ AnswersKnown
    /\ StaleIsAnnounced
=============================================================================
