--------------------------- MODULE TenantLifecycle --------------------------
(***************************************************************************)
(* The life of one child tenant id: create, attach, detach, delete and     *)
(* re-run of its setup (TenantApi/v1/Controllers/TenantsController.cs)     *)
(* with the scratch marker (Services/ScratchTenantMarkerStore.cs).         *)
(*                                                                         *)
(* The registration, the child row of the parent, the lifecycle record,    *)
(* the marker, the retry rows and the database of the id are separate      *)
(* documents; no transaction spans two of the stores.  A request is a      *)
(* sequence of round trips to them, and every round trip is one action.    *)
(* The engine, the services that set a tenant up and the settle sweep that *)
(* completes a delete belong to other repositories: they are modelled as   *)
(* the comments and calls of the controller describe them.  Every request  *)
(* about the id gives the same database name.                              *)
(***************************************************************************)
EXTENDS Naturals

CONSTANTS
  Request,        \* requests about the tenant id, numbered as they arrive
  Old,            \* the registration of an earlier request of this parent
  Other,          \* a registration of the id under another parent
  NoOne,          \* no registration; no marker
  Offered,        \* the operations the requests may ask for
  Tracked,        \* FALSE: a legacy tenant, without a lifecycle record
  RequeueRespects \* TRUE: RequeueForReconcileAsync leaves a tombstone alone

Adding == {"create", "scratch", "attach"}
Removing == {"detach", "delete"}
Operation == Adding \cup Removing \cup {"rerun"}

ASSUME RequestAssumption == Request \subseteq Nat
ASSUME OwnerAssumption ==
  /\ Old \notin Request /\ Other \notin Request /\ NoOne \notin Request
  /\ Old # Other /\ Old # NoOne /\ Other # NoOne
ASSUME OfferAssumption ==
  Offered \subseteq Operation /\ Tracked \in BOOLEAN /\ RequeueRespects \in BOOLEAN

VARIABLES
  pc,        \* pc[r]: the next round trip of r
  op,        \* op[r]: what r was asked to do
  reg,       \* the request that registered the tenant id on the platform
  row,       \* the parent has a child row with the tenant id
  life,      \* state of the lifecycle record; "none" when there is none
  marker,    \* the request that wrote the scratch marker
  db,        \* the database: see Database
  retries,   \* there are setup-retry rows of the tenant
  late,      \* setups of the deleted tenant are still in flight
  mixed      \* requests that ran at the same time as another (history)

vars == <<pc, op, reg, row, life, marker, db, retries, late, mixed>>
stores == <<reg, row, life, marker, db, retries, late>>

\* "made": by a create that has not committed; "left": its tenant was deleted;
\* "shell": made again by a late setup; "kept": its tenant was detached;
\* "orphan": its create did not commit.
Database == {"none", "made", "live", "left", "shell", "kept", "orphan"}

Lifecycle == {"none", "creating", "active", "failed", "deleting"}

PC == {"idle", "lifecycle", "registered", "set", "readMarker", "dropMarker", "make",
       "commit", "compare", "takeBack", "probe", "stale", "capabilities", "mark",
       "unlink", "drop", "retries", "restamp", "requeue", "done"}

\* The registrations that are children of this parent.
Ours == Request \cup {Old}

Running == {r \in Request : pc[r] \notin {"idle", "done"}}

\* A database that stands in the way of its own name after a delete.
Leftover == {"left", "shell"}

TypeOK ==
  /\ pc \in [Request -> PC]
  /\ op \in [Request -> Operation]
  /\ reg \in Ours \cup {Other, NoOne}
  /\ row \in BOOLEAN
  /\ life \in Lifecycle
  /\ marker \in Ours \cup {Other, NoOne}
  /\ db \in Database
  /\ retries \in BOOLEAN
  /\ late \in BOOLEAN
  /\ mixed \subseteq Request

\* The id is free (its name may belong to a detached database), registered by
\* this parent, or registered by another one; a row may be stale and a marker
\* may have outlived its tenant.  An earlier delete may have died before or
\* after its commit and left its tombstone.
Init ==
  /\ pc = [r \in Request |-> "idle"]
  /\ op = [r \in Request |-> "rerun"]
  /\ \/ /\ reg = NoOne /\ row \in BOOLEAN /\ marker \in {NoOne, Old}
        /\ \/ life = "none" /\ db \in {"none", "kept"} /\ retries = FALSE /\ late = FALSE
           \/ /\ Tracked /\ life = "deleting" /\ db \in Leftover \cup {"none"}
              /\ retries \in BOOLEAN /\ late \in BOOLEAN
     \/ /\ reg = Old /\ row = TRUE /\ db = "live" /\ marker \in {NoOne, Old}
        /\ life \in (IF Tracked THEN Lifecycle \ {"none"} ELSE {"none"})
        /\ retries = FALSE /\ late = FALSE
     \/ /\ reg = Other /\ row \in BOOLEAN /\ db = "live" /\ marker \in {NoOne, Other}
        /\ life \in {"creating", "active", "failed"} /\ retries \in BOOLEAN
        /\ late = FALSE
  /\ mixed = {}

At(r, place) == pc[r] = place
Goto(r, place) == pc' = [pc EXCEPT ![r] = place]

-----------------------------------------------------------------------------
(***************************************************************************)
(* Start of a request.                                                     *)
(***************************************************************************)

FirstStep(o) ==
  IF o \in Adding THEN "lifecycle"
  ELSE IF o \in Removing THEN "probe" ELSE "requeue"

Begin(r) ==
  /\ At(r, "idle")
  /\ \A q \in Request : q < r => ~At(q, "idle")
  /\ \E o \in Offered :
       /\ op' = [op EXCEPT ![r] = o]
       /\ Goto(r, FirstStep(o))
  /\ mixed' = IF Running = {} THEN mixed ELSE mixed \cup Running \cup {r}
  /\ UNCHANGED stores

-----------------------------------------------------------------------------
(***************************************************************************)
(* Post and Attach.                                                        *)
(***************************************************************************)

\* A tombstone refuses the request.
CheckNotDeleting(r) ==
  /\ At(r, "lifecycle")
  /\ op[r] \in Adding
  /\ Goto(r, IF life = "deleting" THEN "done" ELSE "registered")
  /\ UNCHANGED <<op, stores, mixed>>

\* The variant that forgets about markers in Attach.
AfterCheckPostOnly(r) ==
  IF op[r] = "attach" THEN "make"
  ELSE IF reg # NoOne THEN IF op[r] = "scratch" THEN "done" ELSE "make"
  ELSE IF op[r] = "scratch" THEN "set" ELSE "readMarker"

\* The marker of a tenant that exists is not touched; a scratch create of a
\* taken id is refused, the others go on to the conflict of the engine.
AfterCheck(r) ==
  IF reg # NoOne THEN IF op[r] = "scratch" THEN "done" ELSE "make"
  ELSE IF op[r] = "scratch" THEN "set" ELSE "readMarker"

CheckRegistered(r) ==
  /\ At(r, "registered")
  /\ Goto(r, AfterCheck(r))
  /\ UNCHANGED <<op, stores, mixed>>

\* The marker is written before the tenant exists.  When the answer is lost the
\* request fails and does not know that it wrote one.
WriteMarker(r) ==
  /\ At(r, "set")
  /\ marker' = r
  /\ \/ Goto(r, "make")
     \/ Goto(r, "done")
  /\ UNCHANGED <<op, reg, row, life, db, retries, late, mixed>>

\* Where a request of the controller goes when its create has failed.
Failed(r) == IF op[r] = "scratch" THEN "compare" ELSE "done"

\* No other transaction holds an insert of the tenant id: MongoDB refuses the
\* second one with a write conflict.
NoInsertOpen == \A r \in Request : ~At(r, "commit")

IdFree == reg = NoOne /\ NoInsertOpen

\* The engine's check of both namespaces and, for a create, the new database.
\* The rows it inserts are those of the session's transaction.
Make(r) ==
  /\ At(r, "make")
  /\ \/ /\ op[r] # "attach" /\ IdFree /\ db = "none"
        /\ db' = "made"
        /\ Goto(r, "commit")
     \/ /\ op[r] = "attach" /\ IdFree /\ db # "none"
        /\ Goto(r, "commit")
        /\ UNCHANGED db
     \/ /\ Goto(r, Failed(r))
        /\ UNCHANGED db
  /\ UNCHANGED <<op, reg, row, life, marker, retries, late, mixed>>

\* The variant that calls the new state otherwise.
LifeOfNewRenamed == IF Tracked /\ life # "deleting" THEN "new" ELSE life

\* What the registration of a tenant starts: the setup that owns the lifecycle
\* record, which leaves a tombstone alone.
LifeOfNew == IF Tracked /\ life # "deleting" THEN "creating" ELSE life

\* The commit registers the tenant.  Its answer may be lost.
Register(r) ==
  /\ At(r, "commit")
  /\ reg' = r
  /\ row' = TRUE
  /\ life' = LifeOfNew
  /\ db' = IF db = "none" THEN "none" ELSE "live"
  /\ \/ Goto(r, "done")
     \/ Goto(r, Failed(r))
  /\ UNCHANGED <<op, marker, retries, late, mixed>>

\* The transaction is aborted.  The engine drops the database of a create that
\* fails inside the engine; a commit that fails afterwards leaves it.
AbandonMade(r) == IF At(r, "commit") /\ op[r] # "attach" /\ db = "made" THEN "orphan" ELSE db

RegisterFails(r) ==
  /\ At(r, "commit")
  /\ db' = AbandonMade(r)
  /\ Goto(r, Failed(r))
  /\ UNCHANGED <<op, reg, row, life, marker, retries, late, mixed>>

-----------------------------------------------------------------------------
(***************************************************************************)
(* ScratchTenantMarkerStore: DeleteAsync and DeleteIfMatchesAsync.  Both   *)
(* read the marker and delete it by its key in a second round trip.        *)
(***************************************************************************)

AfterMarker(r) ==
  IF op[r] \in Adding THEN "make"
  ELSE IF op[r] = "delete" THEN "retries" ELSE "done"

ReadMarker(r) ==
  /\ At(r, "readMarker")
  /\ Goto(r, IF marker = NoOne THEN AfterMarker(r) ELSE "dropMarker")
  /\ UNCHANGED <<op, stores, mixed>>

\* The engine throws when the marker is gone; Post and Attach fail then, and
\* RemoveScratchMarkerAsync logs it.
DropMarker(r) ==
  /\ At(r, "dropMarker")
  /\ marker' = NoOne
  /\ Goto(r, IF marker = NoOne /\ op[r] \in Adding THEN "done" ELSE AfterMarker(r))
  /\ UNCHANGED <<op, reg, row, life, db, retries, late, mixed>>

CompareMarker(r) ==
  /\ At(r, "compare")
  /\ Goto(r, IF marker = r THEN "takeBack" ELSE "done")
  /\ UNCHANGED <<op, stores, mixed>>

TakeBackMarker(r) ==
  /\ At(r, "takeBack")
  /\ marker' = NoOne
  /\ Goto(r, "done")
  /\ UNCHANGED <<op, reg, row, life, db, retries, late, mixed>>

-----------------------------------------------------------------------------
(***************************************************************************)
(* Detach and Delete.                                                      *)
(***************************************************************************)

\* Both answer 404 unless the tenant is a child.
ProbeChild(r) ==
  /\ At(r, "probe")
  /\ Goto(r, IF ~row THEN "done"
             ELSE IF op[r] = "delete" THEN "stale" ELSE "capabilities")
  /\ UNCHANGED <<op, stores, mixed>>

\* The variant that never finds a stale row.
NeverStale == FALSE

\* Delete: a row whose tenant is not registered as this parent's child goes
\* alone, and the request ends.
Stale == row /\ reg \notin Ours

RemoveStaleRow(r) ==
  /\ At(r, "stale")
  /\ row' = IF Stale THEN FALSE ELSE row
  /\ Goto(r, IF Stale THEN "done" ELSE "lifecycle")
  /\ UNCHANGED <<op, reg, life, marker, db, retries, late, mixed>>

CheckNotCreating(r) ==
  /\ At(r, "lifecycle")
  /\ op[r] = "delete"
  /\ Goto(r, IF life = "creating" THEN "done" ELSE "capabilities")
  /\ UNCHANGED <<op, stores, mixed>>

\* A capability is enabled, or the state cannot be read (the child is gone).
CheckCapabilities(r) ==
  /\ At(r, "capabilities")
  /\ \/ Goto(r, "done")
     \/ row /\ Goto(r, IF op[r] = "delete" THEN "mark" ELSE "unlink")
  /\ UNCHANGED <<op, stores, mixed>>

\* The variant that leaves the tombstone to the end of the delete.
MarkDeletingLater(r) ==
  /\ At(r, "mark")
  /\ Goto(r, "unlink")
  /\ UNCHANGED <<op, stores, mixed>>

\* The tombstone; a tenant without a lifecycle record gets none.
MarkDeleting(r) ==
  /\ At(r, "mark")
  /\ life' = IF life = "none" THEN "none" ELSE "deleting"
  /\ Goto(r, "unlink")
  /\ UNCHANGED <<op, reg, row, marker, db, retries, late, mixed>>

AfterUnlink(r) == IF op[r] = "delete" THEN "drop" ELSE "readMarker"

\* The variant that drops the database inside the transaction.
UnlinkAndDrop(r) ==
  /\ At(r, "unlink")
  /\ reg \in Ours
  /\ db' = IF op[r] = "delete" THEN "none" ELSE "kept"
  /\ \/ /\ reg' = NoOne /\ row' = FALSE
        /\ Goto(r, AfterUnlink(r))
     \/ /\ Goto(r, "done")
        /\ UNCHANGED <<reg, row>>
  /\ UNCHANGED <<op, life, marker, retries, late, mixed>>

\* The metadata of the tenant are deleted and committed; setups that run for it
\* elsewhere may go on.  The answer of the commit may be lost.
Unlink(r) ==
  /\ At(r, "unlink")
  /\ reg \in Ours
  /\ reg' = NoOne
  /\ row' = FALSE
  /\ db' = IF db = "none" THEN "none"
           ELSE IF op[r] = "delete" THEN "left" ELSE "kept"
  /\ late' \in (IF op[r] = "delete" THEN {late, TRUE} ELSE {late})
  /\ \/ Goto(r, AfterUnlink(r))
     \/ Goto(r, "done")
  /\ UNCHANGED <<op, life, marker, retries, mixed>>

\* The tenant is gone, or the transaction failed: the tombstone stays.
UnlinkFails(r) ==
  /\ At(r, "unlink")
  /\ Goto(r, "done")
  /\ UNCHANGED <<op, stores, mixed>>

DropDatabase(r) ==
  /\ At(r, "drop")
  /\ db' = "none"
  /\ Goto(r, "readMarker")
  /\ UNCHANGED <<op, reg, row, life, marker, retries, late, mixed>>

ClearRetries(r) ==
  /\ At(r, "retries")
  /\ retries' = FALSE
  /\ Goto(r, "restamp")
  /\ UNCHANGED <<op, reg, row, life, marker, db, late, mixed>>

EnsureDeleting(r) ==
  /\ At(r, "restamp")
  /\ life' = "deleting"
  /\ Goto(r, "done")
  /\ UNCHANGED <<op, reg, row, marker, db, retries, late, mixed>>

-----------------------------------------------------------------------------
(***************************************************************************)
(* ReRunSetup.                                                             *)
(***************************************************************************)

Requeue(r) ==
  /\ At(r, "requeue")
  /\ life' = IF life = "none" \/ (life = "deleting" /\ RequeueRespects) THEN life
             ELSE "creating"
  /\ Goto(r, "done")
  /\ UNCHANGED <<op, reg, row, marker, db, retries, late, mixed>>

-----------------------------------------------------------------------------
(***************************************************************************)
(* Failures: a round trip throws, or the replica of the request dies.      *)
(***************************************************************************)

BestEffort(r) ==
  op[r] \in Removing /\ (At(r, "readMarker") \/ At(r, "dropMarker"))

AfterThrow(r) ==
  IF At(r, "retries") THEN "restamp"
  ELSE IF BestEffort(r) THEN AfterMarker(r) ELSE "done"

\* The exception of a round trip that had no effect.  Make and RegisterFails
\* include their own.
Throw(r) ==
  /\ r \in Running
  /\ ~At(r, "make") /\ ~At(r, "commit")
  /\ Goto(r, AfterThrow(r))
  /\ UNCHANGED <<op, stores, mixed>>

\* The replica dies; the transaction of the request is aborted.
Crash(r) ==
  /\ r \in Running
  /\ db' = AbandonMade(r)
  /\ Goto(r, "done")
  /\ UNCHANGED <<op, reg, row, life, marker, retries, late, mixed>>

-----------------------------------------------------------------------------
(***************************************************************************)
(* The services around the controller (external).                          *)
(***************************************************************************)

\* The setup of a tenant ends, or the reconciler gives it up.
SetupEnds ==
  /\ life = "creating"
  /\ life' \in {"active", "failed"}
  /\ retries' \in BOOLEAN
  /\ UNCHANGED <<pc, op, reg, row, marker, db, late, mixed>>

\* A setup in flight, or a retry of one, makes the dropped database again.
Resurrect ==
  /\ late \/ retries
  /\ reg = NoOne
  /\ db = "none"
  /\ db' = "shell"
  /\ retries' \in {retries, late}
  /\ UNCHANGED <<pc, op, reg, row, life, marker, late, mixed>>

LateEnds ==
  /\ late
  /\ late' = FALSE
  /\ UNCHANGED <<pc, op, reg, row, life, marker, db, retries, mixed>>

\* The settle period of a tombstone outlasts the setups in flight and the
\* requests that had passed their checks when it was written.
PeriodOver ==
  /\ ~late
  /\ \A r \in Request :
       \/ At(r, "idle") \/ At(r, "done") \/ At(r, "probe") \/ At(r, "stale")
       \/ At(r, "lifecycle") \/ At(r, "capabilities") \/ At(r, "requeue")

\* The settle sweep rolls the tombstone back when the tenant is registered and
\* completes the delete otherwise.
Settle ==
  /\ life = "deleting"
  /\ PeriodOver
  /\ \/ /\ reg # NoOne
        /\ life' = "active"
        /\ UNCHANGED <<db, retries>>
     \/ /\ reg = NoOne
        /\ life' = "none"
        /\ db' = "none"
        /\ retries' = FALSE
  /\ UNCHANGED <<pc, op, reg, row, marker, late, mixed>>

-----------------------------------------------------------------------------
AddStep(r) ==
  \/ CheckNotDeleting(r) \/ CheckRegistered(r) \/ WriteMarker(r) \/ Make(r)
  \/ Register(r) \/ RegisterFails(r) \/ CompareMarker(r) \/ TakeBackMarker(r)

RemoveStep(r) ==
  \/ ProbeChild(r) \/ RemoveStaleRow(r) \/ CheckNotCreating(r) \/ CheckCapabilities(r)
  \/ MarkDeleting(r) \/ Unlink(r) \/ UnlinkFails(r) \/ DropDatabase(r)
  \/ ClearRetries(r) \/ EnsureDeleting(r)

RequestStep(r) ==
  \/ AddStep(r) \/ RemoveStep(r) \/ ReadMarker(r) \/ DropMarker(r) \/ Requeue(r)
  \/ Throw(r) \/ Crash(r)

Next ==
  \/ \E r \in Request : Begin(r) \/ RequestStep(r)
  \/ SetupEnds \/ Resurrect \/ LateEnds \/ Settle

Spec == Init /\ [][Next]_vars

\* A request that has begun goes on, setups in flight end, and the sweep runs.
Fairness ==
  /\ \A r \in Request : WF_vars(RequestStep(r))
  /\ WF_vars(LateEnds)
  /\ WF_vars(Settle)

FairSpec == Spec /\ Fairness

-----------------------------------------------------------------------------
(***************************************************************************)
(* Properties.                                                             *)
(***************************************************************************)

\* An attach that looked for the tombstone before a delete wrote it can register
\* the database that the delete then drops; the two properties about databases
\* are stated for attaches that ran alone.
AttachAlone == \A r \in mixed : op[r] # "attach"

\* A registered tenant has its database, whatever creates, detaches, deletes and
\* crashes come together: the metadata are deleted and committed before the
\* drop, and a create needs the name to be free.
RegisteredHasDatabase == AttachAlone /\ reg # NoOne => db = "live"

\* Post and Attach: "a stale marker of a tenant that is gone must not hand its
\* creator the new one": whoever registered the tenant alone finds no marker but
\* its own, whatever crashed or failed before and comes after.
MarkerOfOwner ==
  reg \in Ours \ mixed =>
    marker \in {NoOne, IF reg = Old \/ op[reg] = "scratch" THEN reg ELSE NoOne}

\* Delete: a database whose tenant is gone stands under a tombstone, so the
\* settle sweep will complete the delete wherever it failed.
LeftoverIsTombstoned ==
  Tracked /\ RequeueRespects /\ AttachAlone /\ reg = NoOne /\ db \in Leftover =>
    life = "deleting"

\* Requests about a tenant that has the same id under another parent leave it
\* alone: its registration, database and marker stay, and its lifecycle record and
\* retry rows change only as its own setup ends.  The exception is ReRunSetup,
\* which asks for no child: it starts the setup of the other tenant again.
OtherTenantUntouched ==
  [][reg = Other =>
       /\ UNCHANGED <<reg, db, marker>>
       /\ \/ UNCHANGED <<life, retries>>
          \/ SetupEnds
          \/ \E r \in Request : Requeue(r)]_vars

\* Delete: "until then a re-create of the tenant id answers a retryable 409":
\* wherever a delete stopped, the tombstone is lifted and the name is free again.
TombstoneSettles ==
  Tracked /\ RequeueRespects /\ (life = "deleting" \/ db \in Leftover) ~>
    ~AttachAlone \/ (life # "deleting" /\ db \notin Leftover)

-----------------------------------------------------------------------------
(***************************************************************************)
(* The inductive invariant behind the properties (see                      *)
(* TenantLifecycleProofs).                                                 *)
(***************************************************************************)

\* Who runs at the same time as another is mixed; who has not begun is not.
MixedInv ==
  /\ \A r, q \in Running : r # q => r \in mixed /\ q \in mixed
  /\ \A r \in mixed : ~At(r, "idle")

\* The places of the operations.
PlaceInv ==
  \A r \in Request :
    /\ pc[r] \in {"set", "compare", "takeBack"} => op[r] = "scratch"
    /\ pc[r] \in {"registered", "make", "commit"} => op[r] \in Adding
    /\ pc[r] \in {"stale", "mark", "drop", "retries", "restamp"} => op[r] = "delete"
    /\ pc[r] \in {"probe", "capabilities", "unlink"} => op[r] \in Removing
    /\ pc[r] \in {"readMarker", "dropMarker"} => op[r] # "scratch"

\* One insert of the id is open at most, and only while the id is free.
InsertInv ==
  /\ \A r \in Request :
       At(r, "commit") => reg = NoOne /\ \A q \in Request \ {r} : ~At(q, "commit")
  /\ reg \in Request => ~At(reg, "idle")

\* A drop meets the database its request left, an insert the one it needs.
DatabaseInv ==
  AttachAlone =>
    \A r \in Request :
      /\ At(r, "drop") =>
           /\ reg = NoOne /\ db = "left"
           /\ \A q \in Request \ {r} : ~At(q, "drop") /\ ~At(q, "commit")
      /\ At(r, "commit") => db # "none" /\ (op[r] # "attach" => db = "made")

\* A delete that has passed its checks is about a tenant of this parent.
ChildInv ==
  \A r \in Request :
    op[r] = "delete" /\ pc[r] \in {"lifecycle", "capabilities"} /\ row => reg \in Ours

\* A registered tenant has a record.  The tombstone of a delete stands from its
\* mark on; without one nothing of a deleted tenant is in flight.
RecordInv ==
  Tracked /\ RequeueRespects =>
    /\ reg # NoOne => life # "none"
    /\ \A r \in Request :
         /\ At(r, "mark") => life # "none"
         /\ At(r, "unlink") /\ op[r] = "delete" => life = "deleting"
    /\ reg = NoOne /\ life = "none" => ~late /\ ~retries
    /\ AttachAlone /\ reg = NoOne /\ life \notin {"none", "deleting"} => db = "kept"

\* Who creates the tenant alone finds no marker but its own; nobody is about to
\* write one when the tenant is there.
MarkerInv ==
  /\ \A r \in Request \ mixed :
       pc[r] \in {"make", "commit"} /\ reg = NoOne =>
         marker \in {NoOne, IF op[r] = "scratch" THEN r ELSE NoOne}
  /\ reg \in Ours \ mixed => \A q \in Request : ~At(q, "set")

\* How far requests of this parent come with a tenant of another.
OtherInv ==
  reg = Other =>
    /\ life # "deleting"
    /\ \A r \in Request :
         /\ pc[r] \in {"idle", "done", "lifecycle", "registered", "make", "probe", "stale",
                        "capabilities", "unlink", "requeue"}
         /\ op[r] = "scratch" => ~At(r, "make")
         /\ op[r] = "delete" => ~At(r, "unlink")

IInv ==
  TypeOK /\ MixedInv /\ PlaceInv /\ InsertInv /\ DatabaseInv /\ ChildInv /\ RecordInv
    /\ MarkerInv /\ OtherInv /\ RegisteredHasDatabase /\ MarkerOfOwner /\ LeftoverIsTombstoned
=============================================================================
