# Verification of the asset repository services

TLA+ modules, TLC configurations and TLAPS proofs for `octo-asset-repo-services`,
the service that gives tenants of the OctoMesh platform their CK models, runtime
entities, files and methods over GraphQL and REST. Paths below are relative to
`src/src/AssetRepositoryServices/`.

The project models the parts of the service that *coordinate*: requests that run
at the same time in one replica, replicas that share nothing but MongoDB, and
transactions, leases and records that outlive the process that wrote them.

## 1. The system

### Components, their state and their operations

| Component | State | Operations | Module |
|---|---|---|---|
| Sibling-name lock (`Services/Files/FileSystemNameLocks.cs`, `FileSystemNameLeaseStore.cs`) | per replica: `_slots` (semaphore + user count per name), per session: `Holds.Keys`, `Holds.Leased`; in the tenant database: one lease document per name | `AcquireAsync`, `ReleaseAsync`, `TryAcquireAsync`, `ReleaseAsync` of the store, TTL index | `NameLocks`, `SiblingLocks` |
| File uploads (`FilesController.cs`, `Services/Files/FileSystemService.cs`) | the entries and parent associations of the tenant | upload into a folder, by path (with folder creation), new content by id | `FileNames` |
| File system rules of generic mutations (`FileSystemMutationGuard.cs`, `OctoSessionListener.cs`, `RtEntityMutationGeneric.cs`) | the same | create, rename, move, delete inside one mutation transaction | `FileNames` |
| CK method gateway (`GraphQL/Methods/CkMethodGateway.cs`) | audit events | `InvokeAsync` | `MethodCalls` |
| Method idempotency store (`Services/Methods/MongoMethodIdempotencyStore.cs`) | one record per key in the tenant database; `_owned` per replica | `ClaimAsync`, `CompleteAsync`, `ReleaseAsync`, sweep, TTL index | `MethodCalls` |
| Tenant lifecycle, scratch markers (`TenantsController.cs`, `ScratchTenantMarkerStore.cs`) | per tenant id: registration, child row of the parent, lifecycle record, scratch marker, retry rows, database | `Post`, `Attach`, `Detach`, `Delete`, `ReRunSetup`; `SetAsync`, `DeleteAsync`, `DeleteIfMatchesAsync` | `TenantLifecycle` |
| Schema cache (`GraphQL/Caches/SchemaContext.cs`, `GraphTypesCache.cs`, `TenantManagementConsumer.cs`) | per replica: one schema per tenant, one semaphore | `GetOrCreateAsync`, `Invalidate` | `SchemaCache` |
| CK model health sweep (`Observability/*.cs`) | exported snapshots, `_reportedFaults`, the time of the last sweep | the sweep, its clean-up, `SetTenantFaults`, `SetTenantUnreachable`, `Forget` | `HealthSweep` |
| CK model library status (`Services/CkModelLibraryStatusService.cs`) | none | installed versions, import set of a blueprint, System compatibility | `CkImports` |
| CK import and upgrade guards (`CkImportDependencyResolver.cs`, `CkDependentRequirementGuard.cs`, `ModelsController.cs`) | none; the installed models of the tenant change through the job | dependency tree, import set, guard, import from a catalog | `CkGuard` (the guard and the job), `CkImports` (the rest) |
| GridFS orphan sweep (`Services/Files/OrphanSweep`) | none of its own | enumerates tenants, calls the sweep engine | not modelled, see section 7 |
| Blueprints, queries, types, guards, secrets, stream data, start-up, DTOs | none of their own, or another repository's | | not modelled, see section 7 |

### How they interact

A REST upload opens two sessions: its own (data permissions, transaction) and an
*unfiltered* one that reads what is committed. It takes the lock of the name,
checks it with the unfiltered session, writes in its own, commits, and gives the
lock back. A GraphQL mutation does the same over several fields with one
transaction that `OctoSessionListener` starts before the first field and ends
after the last; `FileSystemMutationGuard` takes the locks on the way. The lock
serialises requests of a replica by a semaphore and replicas by a lease. Deletes
and the checks for folder cycles use no lock.

A method call passes the gateway, then the invocation pipeline (a library of
another repository) whose audit filter records it and whose idempotency filter
calls the store before and after the method.

A tenant request of `TenantsController` reads and writes half a dozen stores one
after another; setups of the tenant run in every service of the platform, and a
settle sweep completes the deletes. Changes of a CK model reach the replicas as
broadcast events, which remove the tenant's schema from the cache; the next request
builds it. An import of CK models goes through a dialog (which computes the import
set), the guards of the endpoint, and a job of another service; the same import set
is used to judge blueprints. The health sweep reads the resulting library status of
every tenant that opted in.

### What is hard

* every `await` and every lock block is a place where other requests run: a
  waiter gives up while the owner leaves, a failing call gives its names back
  one by one;
* a lock that is also a lease: it expires unrenewed, is compared with clocks,
  and an acknowledgement may be lost;
* snapshots: the transaction of a mutation may be older than the lock it takes;
* two documents per entry (the entry and its association) that two requests
  write without a conflict;
* a record that outlives its writer: expiry, takeover, a late completion, the TTL
  monitor between two steps, clocks that differ, a replica that dies;
* a delete over stores that no transaction spans, of which every step may be the
  last, with setups in flight that make what was dropped again;
* a build that takes seconds against an invalidation that takes none;
* a loop over tenants that change, vanish and fail while it runs;
* a decision that is carried out later, after what it was based on has changed.

`PROJECT.json` lists these hazards at their lines with the property that would
catch each.

### What makes the components correct

* lock: a name has one owner per replica and, among transactions that can still
  commit, one across replicas; nothing stays behind; nobody waits forever;
* files: sibling names are unique, the folders form a tree, nothing lives in a
  folder that is gone, only a rename changes a name (section 6: not always);
* methods: a key runs its method once per lifetime; a stored result stands until
  it expires and is the result of the call that owned the claim; one audit event
  per call;
* tenants: a registered tenant has its database, a deleted one leaves nothing that
  no tombstone will clear, a scratch marker belongs to the create that wrote it,
  another parent's tenant of the same id is left alone (section 6: not by `ReRunSetup`);
* schema cache: after an invalidation nobody gets the older model, every request is
  answered;
* sweep: what is exported is what was found, of a tenant that opted in, and a sweep
  that does not complete does not look alive;
* imports: the import set only raises versions and leaves nothing out; the guard
  protects what depends on a model.

## 2. Modules

```
SiblingLocks            what the lock promises (abstract)         CkGuard    what an import owes
  ^            ^                                                    ^       the upgrade guard
  | implements | INSTANCE                                           | EXTENDS, implements
NameLocks    FileNames    MethodCalls    TenantLifecycle    SchemaCache    HealthSweep    CkImports
```

Each module of the second row has an `MC...` module with the values of its constants for
TLC, and all but `CkImports`, which is recursive, a `...Proofs` module with theorems;
what is proved of `CkImports` is proved of `CkGuard`. `FileNames` has two:
`FileNamesInv` states the inductive invariants and the classes of requests for which
names stay unique and folders stay trees, `FileNamesProofs` proves what holds for any
requests and, at its end, the tree of folders, `UniqueNamesProofs`, on top of it, the
names. The components of the second row share no state: a tenant that changes is an
action of the environment in `SchemaCache` and `HealthSweep`.

`FileNames` is built on the *abstract* lock; that it uses the lock as `SiblingLocks`
allows and that `NameLocks` implements `SiblingLocks` are both proved, so the two need
not be explored together.

### NameLocks and SiblingLocks

One session is one request. `pc[s]` says at which `await` it stands; each stretch
of code between two awaits is one action. `users` and `sem` are `_slots` per
replica, `holds` and `leased` are `Holds.Keys` and `Holds.Leased`, `batch` the
local list `acquired` (or the copy of the keys that `ReleaseAsync` makes), `cur`
the loop variable, `lease` the document of a name with its age, `tx` and `txAge`
the MongoDB transaction. `leaked` is a history variable: slots nobody will give
back.

| Code | Actions |
|---|---|
| `AcquireAsync` | `Acquire`, `Enter`, `TakeSlot`, `GiveUpSlot`, `AcquireReturns`; its catch block: `Fail`, then `Drop`/`DropLeased`, ..., `DropEnds` |
| `AcquireLeaseAsync`, `TryAcquireAsync` | `LeaseTake`, `LeaseGiveUp`, `LeaseAckLost` |
| `ReleaseAsync` | `Release`, `Drop` or `DropLeased`, `LeaseRelease` or `LeaseReleaseThrows`, `Exit`, `DropEnds` |
| session, transaction | `StartTransaction`, `FirstOperation`, `EndTransaction`, `Throw`, `TxLimitAbort` |
| environment | `Tick`, `TtlRemove`, `Crash` |

A session whose transaction was not started when it acquires a name passes no
tenant id (`FilesController.cs:317`) and takes no lease (`UsesLeases`). A poll for
a lease is one action that is enabled when the lease is free; the deadline may
pass at any time, so `LeaseGiveUp` is always possible.

*Timing.* The code promises that `LeaseDuration` (2 minutes) "must outlast the
longest session transaction" (60 seconds on the server). The age of a lease counts
from the moment its expiry is computed, the age of a transaction from its first
operation. The upsert comes later than the former, so a lease may be written with an
age already (`LeasesOf`). `LimitAssumption` states what the promise needs:
`StartLimit + TxLimit <= LeaseLimit`, where `StartLimit` bounds the time from
computing the expiry of a lease to the first operation of the transaction. `Tick` respects `StartLimit` and `TxLimit` (the server aborts in
time). An upload whose first write is slower than a minute is outside the assumption.

`SiblingLocks` has three variables: who owns a name in its replica, who across
replicas, and which transactions can still commit. The mapping takes `owned` from
`Has` (what a session owns and what it leaked), `shared` from `leased`, `open` from
`CanCommit`.

### FileNames

`tree` is the committed tree; `view[s]`, `begun[s]`, `touched[s]` and `stale[s]` are
the transaction of `s`: its snapshot with its own writes, whether MongoDB has
opened it, the documents it wrote, and the documents others committed since its
snapshot. `pc`, `place`, `name`, `target` are the local variables of the handler.
A request is a sequence of changes (one for an upload, one per field for a mutation)
that address entries by the ids of entries that are there from the start: the server
makes the ids of new ones (`NewNode`), and no request can name one before its answer.

| Code | Actions |
|---|---|
| `UploadIntoFolderById`, `ReplaceById`, `UploadByPath` | `PutIntoFolder`, `PutById`, `HoldFirstMissing`, `Hold`, `BeginPath` |
| `ResolveFolderAsync`, `CreateFolderAsync` | `Walk`, `WalkFails`, `CheckFolder`, `InsertFolder` |
| `UploadAsync`, `ReplaceContentAsync` | `CheckUpload`, `Insert`, `Replace` |
| `OctoSessionListener` | `BeginMutation`, `NextChange`, `Commit`, `Finish` |
| `BeforeCreateAsync`, `CheckExistingEntriesAsync` | `Create`, `Update`, `Visible`, `NotBelowItself`, `CheckName` |
| `ExpandDeleteAsync`, `ResolveDelete` | `Delete`, `Erase` |
| lock | `GrantName`, `ShareName`, `LockFails`, `ReleaseName` |
| MongoDB | `Snapshot`, `WriteFails`, `SessionFails`, `TxLimitAbort`; `Crash` |

*The engine and MongoDB are external.* From how the code uses them, and from the
tests (`FilesControllerTests.cs:187-215`: parallel uploads of different names into
one folder all succeed), the model takes: inserts of new documents never conflict;
an update, a replacement or a delete conflicts with an open transaction that wrote
the document and with a commit after its own snapshot; an entry and its parent
association are separate documents, so a rename and a move of the same entry do not
conflict (`CreateUpdateInfo` returns no entity update for a move without
attributes, `RtMutationBase.cs:399-411`); the engine refuses a parent, an entry or
an association that is missing in the snapshot.

*Abstractions.* A walk of several reads is one atomic read. What it finds is stated as a
set: `Above` is the least set with the entry and the parents of its members, `Below` the
least one with an entry and the children of its members; the walks of the code, which
follow associations until there is nothing new, end there. Names are spelled in one case. A field that fails ends its request (the errors make the listener abort).
The lease store is present.

### MethodCalls

The records of different keys share nothing (the counter `_claims` only decides
when a sweep runs, which is a nondeterministic choice in `BeginClaim`), so the
module has one key. `record` is its document, `owned[r]` the entry of the key in
`_owned` of replica `r`, `now[c]` the time the claim has read. `since`, `at`, `ran`
and `late` are history variables.

| Code | Actions |
|---|---|
| `InvokeAsync` | `Refuse`, `LoadTarget`, `BeginClaim` (the dispatch), `Return` |
| `ClaimAsync` | `BeginClaim`, `Insert`, `TakeOver`, `Read`, `Remember`, `ClaimFails` |
| pipeline (external) | `RunMethod`, the choices in `Settle`, the event of `Return` |
| `CompleteAsync`, `ReleaseAsync` | `Settle` (the entry of `_owned` is taken out), `Complete`, `Release`, `SettleFails` |
| environment | `Tick`, `TtlRemove`, `Crash` |

*External.* The pipeline claims the key before the method, completes or burns the
claim after it, and releases it when the method was not started; its audit filter
records each call it sees; the dispatcher does not throw for a failing call
(`CkMethodGateway.cs:112`). *Timing.* A claim ends within `OpTimeout` (its 10 second
timer); clocks of replicas and database differ by at most `MaxSkew`.

### TenantLifecycle

One tenant id as one parent sees it. `reg` is who registered it on the platform (a
request of this parent, an earlier one, another parent, or no one), `row` the child
row of the parent, `life` the lifecycle record, `marker` who wrote the scratch
marker, `db` the database with what became of its tenant, `retries` the retry rows,
`late` whether setups of a deleted tenant are still in flight. A request is a
sequence of round trips to these stores; `pc[r]` is the next one. `mixed` is a
history variable: the requests that ran at the same time as another.

| Code | Actions |
|---|---|
| `Post`, `Attach` | `Begin`, `CheckNotDeleting`, `CheckRegistered`, `WriteMarker` or `ReadMarker`/`DropMarker`, `Make`, `Register` or `RegisterFails` |
| the `finally` of `Post` | `CompareMarker`, `TakeBackMarker` |
| `Delete` | `ProbeChild`, `RemoveStaleRow`, `CheckNotCreating`, `CheckCapabilities`, `MarkDeleting`, `Unlink` or `UnlinkFails`, `DropDatabase`, `ReadMarker`/`DropMarker`, `ClearRetries`, `EnsureDeleting` |
| `Detach` | `ProbeChild`, `CheckCapabilities`, `Unlink` or `UnlinkFails`, `ReadMarker`/`DropMarker` |
| `ReRunSetup` | `Requeue` |
| exceptions, lost answers | `Throw`, the second disjuncts of `WriteMarker`, `Register`, `Unlink`; `Crash` |
| platform (external) | `SetupEnds`, `Resurrect`, `LateEnds`, `Settle` |

*External.* The engine checks both namespaces, creates the database inside the
session and drops it again when the create fails inside it; MongoDB refuses a second
uncommitted insert of the same id. The settle sweep does what the comments at
`TenantsController.cs:984-993` and `:1010-1014` say; its period outlasts setups in
flight and the requests that were past their checks (`PeriodOver`). `Tracked` says
whether the tenant has a lifecycle record, `RequeueRespects` whether the requeue of
the platform leaves a tombstone alone; both are open in this repository.

### SchemaCache

`cache` maps tenants to schemas, a schema being the version of the CK model it was
built from; `holder` has the semaphore; `events` are the invalidations on their way,
delivered in any order. `known`, `since` and `lost` are history variables: the newest
version an invalidation has made visible, what it was when a request began, and
whether one came during a build that had read an older model.

| Code | Actions |
|---|---|
| `GetOrCreateAsync` | `Begin`, `Lookup`, `Enter`, `CheckAgain`, `Populate`, `Store`, `Release` |
| `Invalidate`, the consumers | `Invalidate` |
| `ClearCache` of the tenants | `Announce` |
| environment | `Change` (a model and its event), `Evict` |

### HealthSweep

`mode[t]` and `status[t]` are what registry, opt-in and library of a tenant answer at
the moment; they change between any two steps. The database of a *silent* tenant
neither answers nor fails: the sweep asks for the opt-in (`Ask`) or reads, and stands
there until the tenant changes. The timeout per tenant does not help: it begins after the
opt-in is read (`CkModelObservabilitySweepService.cs:134`), and its token reaches the
catalogs only, not the reads of the database (`CkModelLibraryStatusService.cs:145-149`).
A timeout of the catalogs is a tenant that cannot be read. `observed`, `reported` and `exported`
are the local set `observed`, the keys of `_reportedFaults` and the published
snapshots, `age` the ticks since `RecordSweepCompleted`. `steady` is a history
variable: the tenants that have not changed since the sweep looked at them. A library
stands for all libraries of a tenant, which are judged one by one.

| Code | Actions |
|---|---|
| `ExecuteAsync` | `Wake`, `ListFails`, `Stop` |
| `SweepAsync` | `List`, `Ask`, `OptInUnreadable`, `OptedOut`, `OptedIn`, `Complete` |
| `SweepTenantAsync` | `TenantRead`, `TenantUnreachable` |
| `CkModelHealthEvaluator`, `CkModelObservabilityMetrics` | `Evaluate`, `Faults`, `Unreachable`, `IsFresh` |
| environment | `Tick`, `Change` |

### CkImports

`CkGuard` has the state, the upgrade guard (`Blockers`) and the job; its dialog may offer
anything, and its endpoint may be sent any list of published models: `GuardSpec` is what
the guard has to cope with. `CkImports` extends it with the dialog that the code has and
the lists it leads to. The algorithms are operators with the names of the methods they
model: `Tree`, `RootTree`, `Collect`, `ImportSet` (dialog), `UpdateSet` (blueprints),
`Compatible` (System models). Around them runs the life of an import:
`ResolveDependencies` (the dialog), `Import` (the checks of the endpoint, for the
models of the dialog or one model alone, forced or not), `ImportNext` (the job takes
one model after another, or fails) and `OtherImport` (somebody else). `Withdrawn` models
are installed in tenants but published in no catalog: they keep what they require of others, which the
guard reads from the tenant, and the resolver cannot load them. A dialog whose tree
needs a model that is not published is answered with an error (`Loads`, `ResolveFails`);
the blueprint's memo goes on without it. `broken` are models that the tenant has in the state
ResolveFailed: no map of versions has them, and whether the engine's
`IsCkModelExistingAsync`, which the dialog asks, takes one for existing is left open; the
blueprint looks into its snapshot of the models that resolve. A version is a
number whose tens are the major version; a dependency has its pin and the interval of
versions it accepts. `kept` and `calm` are history variables: what was satisfied when
the guard judged, and whether nothing else changed the models since.

The operators of `CkImports` are recursive, as the code is; `CkGuard` has none of them.
The range syntax of other repositories
is taken as an interval. A job never leaves a model in the state ResolveFailed: whether
one resolves is decided in the engine.

## 3. Runs

| Run | Shows | Bounds |
|---|---|---|
| `NameLocks` | slot accounting, exclusion in the process, nothing left behind, no circle of waits, and the refinement of `SiblingLocks` | 2 requests of one replica, 2 names, 1 call each for any set of names, lease limit 1 |
| `NameLocksLeases` | `LeaseExclusion` with expiry, takeover, lost acknowledgements, TTL monitor, crash | 3 requests on 2 replicas, 1 name, lease limit 2, a lease up to 1 tick old when written |
| `NameLocksCalls` | liveness: every request ends even if two requests with two calls wait for each other | 2 requests, 2 names, 2 calls, no leases |
| `FileNames` | unique names among uploads with replacement and copies, creates, renames, deletes and a folder creation, with stale snapshots | 3 requests on one replica, one folder, 6 kinds of requests |
| `FileNamesMoves` | the inductive invariants behind unique names and behind the tree of folders, for moves of folders next to an upload, a rename, a delete and new content | 3 requests on 2 replicas, 5 entries, 5 kinds of requests |
| `FileNamesNewFolder` | violation: `UniqueNames`, see section 6 | 2 requests on 2 replicas |
| `MethodCalls` | one run per lifetime, results that stand, claims that can be settled, one audit event | 3 calls on 2 replicas, clocks 1 apart, lifetime 3, 2 rounds per claim, time 0..3 |
| `TenantLifecycle` | databases, markers and tombstones fit the registration; another parent's tenant is left alone but for `ReRunSetup`; every delete is completed | 2 requests of any 6 operations, from every state of the id an earlier request may have left |
| `SchemaCache` | one build at a time, no schema older than a handled invalidation, stale schemas are announced, every request is answered | 2 requests at a time, 2 tenants, room for 1 schema, 2 versions |
| `HealthSweep` | the export is what was found, through sweeps, failures and clean-ups; fresh only while sweeps complete; a stable tenant is exported for good if no database hangs for good | 2 tenants with 6 modes and 2 libraries, staleness window 1 |
| `CkImports` | the import set only raises and misses nothing, nothing of it escapes the judgement of a blueprint, the guard protects dependents, and `CkImports` implements `CkGuard` (`GuardSpec`) | 128 catalogs of 3 models and System, 72 tenants with or without a model that does not resolve, 4 sets of roots, any number of imports |
| `CkImportsOrder` | violation: `DependenciesFirst`, see section 6 | 1 catalog of 4 models |

*Why the bounds are enough.* A conflict over a name takes two requests, a handover
while somebody waits takes three; two names suffice for an order to be wrong. A
lease that lives a tick or two expires under its owner. In `MethodCalls` the lifetime is 3
(one more than a claim and the difference of the clocks together, see section 5)
and the clock of the second replica is one ahead, so a record expires within the
time bound for one replica and still lives for the other; three calls give a first
one, a retry that takes over, and one that comes in between. The proofs of
section 5 remove these bounds for the lock and the calls.

Two tenant requests give every pair of operations, at the same time or one after the
other, and the initial states stand for those before them: a stale row, a marker that
outlived its tenant, a delete that died before or after its commit. Two requests and
two tenants with room for one schema give a second builder, a build behind another
tenant's, and a schema that finds no room; two versions give an older and a newer one.
Two tenants give the sweep one that changes while the other is read, and a clean-up of
one while the other is exported. The catalogs combine classic and ranged dependencies,
transitive pins, another major version, a version that never was published, one that is withdrawn but installed, one that
does not resolve, and System, over three models with a diamond (A needs B and C, B needs C). The proofs of section 5
hold for any numbers of requests, tenants and versions, those of `FileNames` for any
numbers of requests, replicas, entries and names, that of `CkGuard` for any catalogs and
tenants.

In the passing runs of `FileNames` the requests are chosen so that the combinations
of section 6 do not occur: in `Names` nothing moves, nobody asks for the name of a
copy, and no folder is deleted; `Moves` satisfies `Steady` and `OneMover`, the classes of
section 5 (TLC checks that it does). This is a restriction of the *inputs*; every action
of the module is explored; section 6 names the inputs that were left out.
`FileNamesMoves` checks `IInv`, which contains `TypeOK`, and `FolderInv` as invariants of
the reachable states; that they are inductive is what the proofs show.

*Symmetry* is used for requests of one replica in invariant runs only.
*Deadlock* is checked everywhere except in `TenantLifecycle`, which really may stop:
its requests have been answered and nothing is left for the sweep. In `NameLocks`,
`FileNames` and `MethodCalls` that state is an explicit stutter (`Finished`); in the
other modules the environment never ends.

Every property of a passing run has a mutant in the module itself ("Faulty variant
of ..."), a plausible bug of that code which the run finds.

## 4. Fairness

* `NameLocksCalls`: weak fairness of the steps of each session. The thread pool runs
  every continuation, `SemaphoreSlim.WaitAsync` has a timeout, and a handler that
  began comes to its end.
* `TenantLifecycle`: weak fairness of the steps of a request that has begun (which
  include its failure and the death of its replica), of the end of setups in flight,
  and of the settle sweep, which runs in a loop. No request has to begin, and no
  setup has to succeed.
* `SchemaCache`: weak fairness of the steps of a request, strong fairness of `Enter`:
  `SemaphoreSlim` serves its waiters in the order they came, and a holder does not
  keep it. The wait has no timeout, so weak fairness would not do: between two
  builds of others the semaphore is free for a moment only.
* `HealthSweep`: weak fairness of the steps that the service takes by itself (`OwnStep`;
  the loop survives every exception) and of time. Nothing is assumed of the registry and
  of the databases. `StableIsExported` assumes in the property itself, as
  `DatabasesAnswer`, that the registry can be read now and then, that a database which is
  not silent again and again answers or fails in the end, and that none is silent for
  good: nothing in this service makes it so. `FreshIsSwept` needs none of this.

Nothing is assumed about crashes, the TTL monitor, the arrival of events, or changes
of tenants and models.

## 5. Proofs

### NameLocksProofs

For any finite set of requests, any replicas, keys, calls and limits that satisfy
the assumptions, TLAPS checks: type correctness, `SlotAccounting`,
`InProcessExclusion`, `LeaseExclusion`, `NothingLeftBehind` (if the store does not
throw), `WaitsAreOrdered` (one call per request), and the refinement `PromiseKept`.

None of the properties is inductive. `IInv` adds

* `PlaceInv`: what `pc` says about the local variables (the key at hand is neither
  held nor in the batch, the batch is empty in the handler, ...);
* `ClaimInv`: a claimed lease belongs to a name whose slot was not given back;
* `SemInv`: whoever has a name has its semaphore, and nobody else of the replica has;
* `LeaseInv`: while a transaction can commit, its leases are its own and no older
  than `StartLimit` plus the age of the transaction: this is where `LimitAssumption`
  is used, an expired lease is then never one of a live transaction;
* `LeakInv`, `OrderInv`: only a throwing store leaks; keys are taken in order.

The effect of every action on the slots is first classified (`SlotSteps`: a step
keeps the slots, enters, takes, leaves, exits, leaks, or crashes), and
`SlotAccounting` and `SemInv` are proved over these few cases; the other conjuncts
go action by action. The refinement proof maps each class to a step of
`SiblingLocks` or a stutter.

### FileNamesProofs

For any requests, replicas, names, bounds and initial tree that satisfy the assumptions
in `FileNames` (bounds are numbers; new entries have ids of their own; the initial tree
has entries with unique names, its folders form trees and hold all there is; a request is one upload or one or more fields), TLAPS
checks `Invariance`, the part `GInv` of the inductive invariant that does not depend on
what is requested:

* `TypeOK` (theorem `Types`) and `LocalInv`: what `pc` says of the change at hand, of
  the key, and of what is left of the request;
* `LockInv` (`OneOwner`): a name belongs to one request of a replica, and to one open
  transaction across replicas;
* `TouchedInv`, `NewInv`, `ViewInv` (`SnapshotWrites`): open transactions have written
  different documents; an entry is new to everybody but its creator until the creator
  has ended; what a transaction sees is still committed unless the difference is recorded
  as a conflict in `stale`, and what it has written it has written on top of what is
  committed. Without the first, a commit (`Merged`) would not be the effect of one
  transaction; without the last, an update could bring back an entry that was deleted.

`UsesLocks` is the refinement: every behaviour of `FileNames` is one of `SiblingLocks`.

The actions are not treated one by one in each part. `Shape` says what a step
of a request may do to the shared state (stay, start, take a snapshot, lock, write,
commit, abort, release, end), `LocalStep` what the handlers do to its own; the
conjuncts over shared state are proved over the shapes.

### FileNamesProofs: the tree of folders

`FoldersStayTrees`: folders never get below themselves (`NoFolderCycle`), for requests of
the class `OneMover`. The walk over the ancestors takes no lock, so what it has found may
be out of date when the transaction commits; `OneMover` says when that does not matter. A
folder is *fixed* if neither it nor anything above it is moved by a request. Files, and
folders that go to fixed folders, may move as they like; among the moves that lead
elsewhere, all are moves of one and the same folder. Two such folders can be moved into
each other (`Crossing`, section 6), and the property fails. `Steady` is not needed.

`NoFolderCycle` says that no set of entries contains the parents of all its members. It
is not inductive: a handler that has done its walk is not a cycle yet. `FolderInv`, proved
invariant by `FolderInvariance`, adds

* `PlainOK`, of the committed tree and of what each transaction sees: files stay files
  and hold nothing, and fixed folders keep their parents;
* `NewFoldersOK`: before its creator has committed, nobody else puts anything into a new
  folder, and the new folders of a transaction form a tree of their own;
* `GoingOK`, `GoneOK`: where the handler is about to move an entry, and where the
  transaction has moved it, it may go (`MayGo`) by what is *committed*: some request moves
  it there, and the place is fixed, or a file is moved, or the entry is not above the place.

The crux is that `MayGo` of one request survives the commit of another (`CommitMayGo`): the
commit would have to get the entry above the place, so it would have to move some folder
to a place that is not fixed; by `OneMover` this is the entry itself, and the entry was not
above its new place when that commit came. `CommitAcyclic` then shows that a commit makes no
loop: cut at the entries that the transaction has moved, a loop would be a way of committed
folders from the new place of one of them up to the next, and by `OneMover` there is
only one. Sets that are closed under "parent" take the place of induction along the tree
(`AboveClosed`, `AboveWithin`, `WayOut`), so the proofs need none.

### UniqueNamesProofs

`NamesStayUnique`: for requests that are `Steady`, no two committed entries of a folder
have the same name, whatever crashes, times out or aborts. `SteadyInvariance` is the
inductive invariant, `IInv` of `FileNamesInv`: `GInv`, `UniqueNames`, and

* `OwnedOK`: what a request owns in its replica it has across the replicas, too;
* `TargetOK`: what the handler has read of the entry it is about to change is still so;
  `WrittenOK`: an open transaction renames only entries that steady requests rename, to
  the one name they give, and moves only others;
* `CheckedOK`: a name that was found free still is;
* `ClaimOK`: whatever an open transaction has put into a new place, it has the name of
  the place across the replicas, and nothing else is there;
* `OriginOK`: each new place comes from one field, so no two of them are the same.

The argument is a handover. Who commits an entry to a new place has the name across the
replicas (`CommitClaim`), so nobody else has; whatever others are about to put there, or
have found free there, is therefore elsewhere (`CommitChildren`, `OthersSteady`), and
the names stay unique (`CommitUnique`). The check in the *unfiltered* session is what
makes a step of the handler establish `CheckedOK`: with a check in the session of the
mutation (`CheckNameInSession`) TLC finds it broken.

`Steady` says which requests the argument needs, and for each of its conditions there
are requests without it for which the code breaks (section 6): no `keepBoth` (the free name is not locked)
and no `createFolders` (the lock has no lease, and is not taken for a folder that is there
when the request begins); two fields of a mutation do not lead to
the same place (the check does not see the first one); an entry that is renamed is not
moved (rename and move write different documents), is not renamed to different names and
not overwritten with new content (an update that finds its name given takes no lock, and
new content writes the name it read). Everything else is allowed: any numbers of uploads
in the modes `fail` and `replace`, creates, moves of entries that nobody renames, renames,
deletes, several fields per mutation, and all of them at the same time. The requests
of the run `FileNamesMoves` are such a set.

### MethodCallsProofs

For any finite set of calls, any replicas whose clocks are at most `MaxSkew` apart,
and any lifetime, operation timeout and number of attempts, TLAPS checks: type
correctness, `OneRunPerLifetime`, `ResponseOfFirst`, `AuditedOnce`, `ResultStands`,
and, if `OpTimeout + MaxSkew < Ttl`, `InFlightRemembered`. A claim may take 10 seconds;
the lifetime is the setting `Methods:Idempotency:Ttl`, 24 hours by default, but any
positive value is accepted. Below the bound the property fails: two calls of a replica
may then remember their claims in the other order than they wrote them, which leaves an
expiry in `_owned` that is older than the one of the record, and the sweep of a third
call forgets a live claim.

`OneRunPerLifetime` speaks of methods that ran; it is not inductive, because a claim
is won well before the method starts. `IInv` adds

* `Won`, the calls that hold or held the claim, and `ApartInv`, the property over them;
* `GuardInv`: as long as the lifetime of a winner lasts, the record is still the
  winner's, or every clock already agrees that it is over. This is why a second
  claim can only be written late (`WritesLate`);
* `ClockInv`: the time a claim compares with was read after it began and is at most
  `MaxSkew` ahead;
* `PlaceInv`, `RecordInv`: what `pc` says of `ran` and `events`, and who owns a record.

`MemoryInv` is the strengthening of `InFlightRemembered` and is kept apart, as it needs
the inequality. `Insert` and `TakeOver` are first reduced to two cases, `Writes` and
`PassesOn` (`ClaimSteps`); every conjunct is then proved action by action.

### TenantLifecycleProofs

For any number of requests, with or without a lifecycle record: type correctness,
`RegisteredHasDatabase`, `MarkerOfOwner`, `LeftoverIsTombstoned` and
`OtherTenantUntouched` (requests leave the registration, database, marker, lifecycle
record and retry rows of another parent's tenant as they are, except that `ReRunSetup`
restarts its setup). `IInv` adds

* `PlaceInv`, `MixedInv`: what `pc` says of the operation; two requests that run are
  both mixed, so one that is not mixed runs alone;
* `InsertInv`: one uncommitted insert of the id at most, and only while the id is free;
* `DatabaseInv`: a delete that is about to drop meets the database it has unlinked,
  and nobody has registered one in between; without this a drop could hit a new
  tenant's database;
* `ChildInv`, `OtherInv`: how far a request comes when the id is another parent's;
* `RecordInv`: the tombstone stands from the mark to the end of the delete;
* `MarkerInv`: who creates the tenant alone finds no marker but its own.

`MixedStep` and `AloneStep` come first: they say how a step changes who runs
and who is mixed, and are what every other part needs of the history.

### SchemaCacheProofs

For any requests, tenants, limit and number of versions: type correctness,
`BuildsOnce`, `AnswersKnown`, `StaleIsAnnounced`. `IInv` adds `HolderInv` (who stands
behind the semaphore holds it), `KnownInv` (no invalidation is ahead of the model),
`CachedInv` (what is cached is no older than the invalidations that were not lost) and
`BuiltInv` (nor is what is about to be stored: this is where an invalidation during a
build has to be excepted).

### HealthSweepProofs

For any tenants, libraries and window: type correctness, `SteadyIsExported`,
`FaultsAreObserved`. `IInv` adds `ReadInv` (a tenant is at hand exactly while it is asked or
read, and who is being read has opted in unless it has changed), `SteadyInv` (a steady tenant has been observed in this sweep or will be),
`ReportedInv` (the clean-up finds the tenant of every exported fault, although it looks
into `_reportedFaults` only) and `ObservedInv` (between sweeps the faults are observed).

### CkGuardProofs

For any catalogs, tenants and names, and for any list of published models that is sent to
be imported, whatever the dialog showed: types (`GuardTypes`) and
`SatisfiedStaySatisfied` (`GuardProtectsDependents`): what a dependent required and had when
the guard judged, it still has while the job runs, when it has ended, and when it failed
halfway, unless the import was forced over a blocker or others import meanwhile. TLC shows that
`CkImports` implements `GuardSpec`, so this is about the imports of the code as well.

The property is not inductive, as the job still has models to import. `IInv` adds that each
of these requirements admits what is installed *and* every model of the rest of the job
(`Promised`), which is what `Blockers` finds out for the whole list at once; that a job that
runs has something left; and that nothing is owed while a dialog is open. The guard looks only
at models that replace an installed one: a requirement that is satisfied is about a model
that is installed, so these are all that matter to it.

### Only model-checked

The liveness properties (`RequestEnds`, `TombstoneSettles`, `FreshIsSwept`,
`StableIsExported`): liveness and `ENABLED` are out of the prover's reach. The
operators of the dialog and of the blueprints in `CkImports` (`OffersRaise`,
`NothingIsMissing`, `BlueprintAgrees`), and that it implements `CkGuard`: they are
recursive, and what they compute takes an induction over the tree of dependencies.
`NoFolderCycle` for requests outside `OneMover` that still do not cross.
`UniqueNames` for the requests of the run `FileNames`, which are not `Steady`: folder
creation within one replica, `keepBoth` of one name, replacements next to one rename.

## 6. Where code and documentation disagree

Two runs show a statement of the code's own comments to be wrong:

* **`FileNamesNewFolder`** the lock for the first missing folder is taken without
  the tenant id, so it does not reach other replicas, which can create the same folder.
* **`CkImportsOrder`** the import set has its models "dependencies first", but a model
  that is needed twice keeps the place where it was first collected and takes its
  highest version, whose dependencies come later. The batch job imports in that order.

The following came up while modelling and are kept out of the passing runs, by their
inputs or by an exception in the property:

* *Files.* The operators at the end of `MCFileNames` are values of `Request` for the
  configuration `FileNames` (without symmetry) that lead to a violation:
  `KeepBoth` (the free name is not locked), `Vanishing` (the folder of a path is there
  when two uploads begin, so neither locks its name, and deleted before they walk the
  path: both create it, `FilesController.cs:308-319`), `RenameAndMove`
  (different documents, stale name), `UnchangedName` (an update with the same name
  takes no lock), `Restored` (the same after a replacement; with four requests),
  `OldName` (new content writes back the name the document had when it was read, before
  the transaction, `FileSystemService.cs:370`), `Twice` (two fields of one mutation) of
  `UniqueNames`, and `Crossing` (two folders move into each other; the check locks
  nothing) of `NoFolderCycle`. One more is about a property the module does not state: a
  delete does not see entries that appear after its walk, so an upload leaves an entry
  whose folder is gone (`FileSystemMutationGuard.cs:229`).
* *Leases.* `FileSystemNameLeaseStore.ReleaseAsync` "never throws" but swallows two
  exception types only; another one ends the release loop, and the names after it stay
  locked in the replica. `NameLocks` has the step (`LeaseReleaseThrows`), and
  `NothingLeftBehind` needs `StoreThrows = FALSE`.
* *Scratch markers.* `DeleteIfMatchesAsync` "must never remove a marker that a parallel
  request wrote" (`ScratchTenantMarkerStore.cs:21-23`), but reads, compares and deletes
  by key. Two parallel creates can leave the tenant with the wrong marker or none;
  `MarkerOfOwner` is about requests that ran alone.
* *Attach and delete.* An attach that looked for the tombstone before a delete wrote it
  can register the database that the delete drops (`AttachAlone`).
* *Legacy tenants.* `MarkDeleting` skips a tenant without lifecycle record, so until
  `EnsureDeleting` nothing marks its delete; `LeftoverIsTombstoned` needs `Tracked`.
* *Another parent's tenant.* The lifecycle store is platform-global, so `GetLifecycle`
  asks for the child first (`TenantsController.cs:1032-1035`). `ReRunSetup` does not
  (`:1092-1096`): it takes the id of any tenant and resets its record to *creating*.
  `OtherTenantUntouched` names this step (`Requeue`) as its exception.
* *Schemas.* An invalidation during a build has no effect on the schema that is being
  built: it is cached afterwards and stays until the next event or a day without use
  (`lost` in `SchemaCache`).
* *Sweep.* The clean-up shall drop "tenants that vanished from the registry"
  (`CkModelObservabilitySweepService.cs:168-169`), but goes over `_reportedFaults`, from
  which an unreachable tenant has been removed: its gauge stays. `FaultsAreObserved`
  speaks of faults for this reason.
* *A tenant that hangs.* One tenant "must not hang the sweep", hence "per-tenant timeout"
  (`CkModelObservabilitySweepService.cs:20-27`). The timeout reaches the catalogs, as the
  comment's example has it, but no read of a tenant's database, and the read of the opt-in
  is not under it: a database that never answers stalls the sweep for all tenants.
  Without the last part of `DatabasesAnswer`, `StableIsExported` fails; the heartbeat
  gets old, as `FreshIsSwept` says.
* *Blueprint and dialog.* A blueprint is judged with "the same set the import dialog" judges
  (`CkModelLibraryStatusService.cs:56-60`), from a snapshot with "the same answers the import
  dialog gets from the tenant" (`:402-406`). But if a dependency is in no catalog, the
  dialog fails (`ModelsController.cs:974-976`) and the blueprint is judged without what it
  needs (`CkModelLibraryStatusService.cs:603-614`); if the tenant has a model that does
  not resolve, the two may take different models for installed; and the blueprint keeps
  a root that the dialog leaves out. `BlueprintAgrees` claims the same set only where none
  of this is the case, and otherwise that nothing the dialog offers escapes the judgement.
  For the same reason `NothingIsMissing` accepts a model that does not resolve.
* *Imports.* A branch with an incompatible dependency is not left out when the
  dependency was followed before, below another parent with the same requirement
  (`CkImportDependencyResolver.cs:139`); `CheckSystemCompatibilityAsync` checks a
  dependency once, whatever the next parent requires of it; the upgrade guard judges
  only models that replace an installed one, so a new model of the set is not compared
  with the requirements of those that stay. `NothingIsMissing` and
  `SatisfiedStaySatisfied` are stated with these in mind.

## 7. Not modelled

*Other repositories.* Blueprint installation, subscriptions and stream data are
endpoints over engines of other repositories. The GridFS orphan sweep enumerates the
tenants and formats a report; which file is an orphan, and what an upload during the
sweep means, is decided in the sweep engine.

*No state.* Queries, types, mapping, DTOs and request rules keep no state; access
control, secrets and permission guards are stateless checks outside the scope.

*Parts of modelled components.* Well-known names of roots, protected roots,
`MaxDeleteEntries`, GridFS bytes and ZIP downloads (files); `Clear`, the recomputation of
display names and the reading endpoints (tenants); status rows, highest allowed version,
import from a file and the engine's own guard (CK models).

*Web assets.* `wwwroot` holds minified bundles, the build output of
vendored and third-party code whose sources are not here. They are served
as static files and take no part in what is modelled.

## 8. What could come next

* unique names for more requests than the steady ones: folder creation within one
  replica where no folder is deleted, and replacements of files that are renamed once only;
* a wider class than `OneMover`: several folders that move below folders that move, in an
  order that does not cross;
* well-known names of roots, which are compared without a lock
  (`FileSystemMutationGuard.cs:463`);
* the operators of `CkImports` as recursive functions over bounded depth, to prove
  lemmas about them;
* several parents and several ids in `TenantLifecycle`, once the engine's namespace
  checks can be taken from its source.
