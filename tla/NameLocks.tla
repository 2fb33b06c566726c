----------------------------- MODULE NameLocks ------------------------------
(***************************************************************************)
(* The sibling-name lock of the platform file system:                      *)
(* Services/Files/FileSystemNameLocks.cs (slots and semaphores of one      *)
(* replica, the keys a session holds) and                                  *)
(* Services/Files/FileSystemNameLeaseStore.cs (the MongoDB lease per key   *)
(* that serialises the replicas).                                          *)
(*                                                                         *)
(* A session is one request.  It calls AcquireAsync zero or more times,    *)
(* commits or aborts its transaction, and calls ReleaseAsync.  Every await *)
(* and every lock block of the code is a point where another session may   *)
(* run, so each stretch between two of them is one action.                 *)
(***************************************************************************)
EXTENDS Naturals, FiniteSets

CONSTANTS
  Session,     \* requests; the lease owner id (a new GUID) is one per session
  ReplicaOf,   \* the replica (process) that serves a session
  Key,         \* lock keys; their order as numbers is the ordinal order
  Nobody,      \* owner of a lease document that does not exist
  NoKey,       \* no key is being taken or given back
  StartLimit,  \* ticks from computing an expiry to the request's first write
  TxLimit,     \* ticks after which MongoDB aborts an open transaction
  LeaseLimit,  \* ticks a lease lives (LeaseDuration)
  MaxCalls,    \* bound: AcquireAsync calls of one session
  LeaseStore,  \* FALSE: no admin credentials, the store hands out no leases
  StoreThrows  \* TRUE: deleting a lease may throw what the store lets through

ASSUME KeyAssumption == Key \subseteq Nat /\ NoKey \notin Key
ASSUME SessionAssumption == IsFiniteSet(Session) /\ Nobody \notin Session
ASSUME FlagAssumption == LeaseStore \in BOOLEAN /\ StoreThrows \in BOOLEAN

\* IFileSystemNameLeaseStore.LeaseDuration "must outlast the longest session
\* transaction": 2 minutes against the 60 seconds of MongoDB.  A transaction
\* that reaches the server only after its lease was taken needs the difference.
ASSUME LimitAssumption ==
  /\ StartLimit \in Nat
  /\ TxLimit \in Nat
  /\ LeaseLimit \in Nat
  /\ MaxCalls \in Nat
  /\ StartLimit + TxLimit <= LeaseLimit

VARIABLES
  pc,        \* pc[s]: where the request of s stands
  calls,     \* calls[s]: AcquireAsync calls made so far
  todo,      \* todo[s]: keys of the running call not looked at yet
  batch,     \* batch[s]: keys this call took; later, those to give back
  closing,   \* closing[s]: they are given back by ReleaseAsync, not by a catch
  cur,       \* cur[s]: the key being taken or given back
  holds,     \* holds[s]: Holds.Keys
  leased,    \* leased[s]: the keys of Holds.Leased
  leaked,    \* leaked[s]: keys whose slot s left behind (history variable)
  users,     \* users[r][k]: Slot.Users; 0 when the slot is not in _slots
  sem,       \* sem[r][k]: the semaphore of the slot can be taken
  lease,     \* lease[k]: the lease document of k
  tx,        \* tx[s]: the transaction of s
  txAge      \* txAge[s]: ticks since MongoDB opened it

callVars == <<calls, todo, batch, closing, cur>>
holdVars == <<holds, leased, leaked>>
slotVars == <<users, sem>>
txVars == <<tx, txAge>>
vars == <<pc, callVars, holdVars, slotVars, lease, txVars>>

Replica == {ReplicaOf[s] : s \in Session}

NoLease == [owner |-> Nobody, age |-> 0]

PC == {"work", "pick", "wait", "lease", "drop", "unlease", "exit", "ending", "done"}

TypeOK ==
  /\ pc \in [Session -> PC]
  /\ calls \in [Session -> 0..MaxCalls]
  /\ todo \in [Session -> SUBSET Key]
  /\ batch \in [Session -> SUBSET Key]
  /\ closing \in [Session -> BOOLEAN]
  /\ cur \in [Session -> Key \cup {NoKey}]
  /\ holds \in [Session -> SUBSET Key]
  /\ leased \in [Session -> SUBSET Key]
  /\ leaked \in [Session -> SUBSET Key]
  /\ users \in [Replica -> [Key -> Nat]]
  /\ sem \in [Replica -> [Key -> BOOLEAN]]
  /\ lease \in [Key -> [owner : Session \cup {Nobody}, age : 0..(LeaseLimit + 1)]]
  /\ tx \in [Session -> {"none", "started", "open", "over"}]
  /\ txAge \in [Session -> 0..TxLimit]

Init ==
  /\ pc = [s \in Session |-> "work"]
  /\ calls = [s \in Session |-> 0]
  /\ todo = [s \in Session |-> {}]
  /\ batch = [s \in Session |-> {}]
  /\ closing = [s \in Session |-> FALSE]
  /\ cur = [s \in Session |-> NoKey]
  /\ holds = [s \in Session |-> {}]
  /\ leased = [s \in Session |-> {}]
  /\ leaked = [s \in Session |-> {}]
  /\ users = [r \in Replica |-> [k \in Key |-> 0]]
  /\ sem = [r \in Replica |-> [k \in Key |-> TRUE]]
  /\ lease = [k \in Key |-> NoLease]
  /\ tx = [s \in Session |-> "none"]
  /\ txAge = [s \in Session |-> 0]

Goto(s, label) == pc' = [pc EXCEPT ![s] = label]

\* The transaction of s can still commit.
CanCommit(s) == tx[s] \in {"started", "open"}

\* The transaction of s has ended; its age is of no further use.
EndTx(s) ==
  /\ tx' = [tx EXCEPT ![s] = "over"]
  /\ txAge' = [txAge EXCEPT ![s] = 0]

-----------------------------------------------------------------------------
(***************************************************************************)
(* The request around the lock: FilesController and OctoSessionListener.   *)
(***************************************************************************)

StartTransaction(s) ==
  /\ pc[s] = "work"
  /\ tx[s] = "none"
  /\ tx' = [tx EXCEPT ![s] = "started"]
  /\ UNCHANGED <<pc, callVars, holdVars, slotVars, lease, txAge>>

\* MongoDB opens the transaction with the first operation of the session, which
\* a GraphQL mutation runs before the lock and an upload after it.
FirstOperation(s) ==
  /\ pc[s] = "work"
  /\ tx[s] = "started"
  /\ tx' = [tx EXCEPT ![s] = "open"]
  /\ UNCHANGED <<pc, callVars, holdVars, slotVars, lease, txAge>>

\* Keys the session already holds are skipped.
Acquire(s, keys) ==
  /\ pc[s] = "work"
  /\ calls[s] < MaxCalls
  /\ calls' = [calls EXCEPT ![s] = @ + 1]
  /\ todo' = [todo EXCEPT ![s] = keys \ holds[s]]
  /\ Goto(s, "pick")
  /\ UNCHANGED <<batch, closing, cur, holdVars, slotVars, lease, txVars>>

\* Commit, or abort (a mutation with errors): the names are released after it.
EndTransaction(s) ==
  /\ pc[s] = "work"
  /\ CanCommit(s)
  /\ EndTx(s)
  /\ Goto(s, "ending")
  /\ UNCHANGED <<callVars, holdVars, slotVars, lease>>

\* A REST request leaves by an exception: the names are released first, the
\* transaction is aborted when the session is disposed.
Throw(s) ==
  /\ pc[s] = "work"
  /\ Goto(s, "ending")
  /\ UNCHANGED <<callVars, holdVars, slotVars, lease, txVars>>

-----------------------------------------------------------------------------
(***************************************************************************)
(* AcquireAsync: the loop over the sorted keys.                            *)
(***************************************************************************)

\* A call made inside the transaction passes the tenant id (StoreAsync,
\* LockNameAsync), the one made before it does not (createFolders).
UsesLeases(s) == tx[s] # "none"

\* Faulty variant of Enter: only the session that creates the slot is counted.
EnterUncounted(s, k) ==
  LET r == ReplicaOf[s]
  IN /\ pc[s] = "pick"
     /\ k \in todo[s]
     /\ \A j \in todo[s] : k <= j
     /\ users' = [users EXCEPT ![r][k] = 1]
     /\ sem' = [sem EXCEPT ![r][k] = @ \/ users[r][k] = 0]
     /\ todo' = [todo EXCEPT ![s] = @ \ {k}]
     /\ cur' = [cur EXCEPT ![s] = k]
     /\ Goto(s, "wait")
     /\ UNCHANGED <<calls, batch, closing, holdVars, lease, txVars>>

\* Faulty variant of Enter: the keys are taken in the order they are given in.
EnterUnsorted(s, k) ==
  LET r == ReplicaOf[s]
  IN /\ pc[s] = "pick"
     /\ k \in todo[s]
     /\ users' = [users EXCEPT ![r][k] = @ + 1]
     /\ sem' = [sem EXCEPT ![r][k] = @ \/ users[r][k] = 0]
     /\ todo' = [todo EXCEPT ![s] = @ \ {k}]
     /\ cur' = [cur EXCEPT ![s] = k]
     /\ Goto(s, "wait")
     /\ UNCHANGED <<calls, batch, closing, holdVars, lease, txVars>>

\* Faulty variant of Enter: a new slot replaces the one that is there.
EnterFresh(s, k) ==
  LET r == ReplicaOf[s]
  IN /\ pc[s] = "pick"
     /\ k \in todo[s]
     /\ \A j \in todo[s] : k <= j
     /\ users' = [users EXCEPT ![r][k] = @ + 1]
     /\ sem' = [sem EXCEPT ![r][k] = TRUE]
     /\ todo' = [todo EXCEPT ![s] = @ \ {k}]
     /\ cur' = [cur EXCEPT ![s] = k]
     /\ Goto(s, "wait")
     /\ UNCHANGED <<calls, batch, closing, holdVars, lease, txVars>>

\* Enter, for the first of the keys in their order: the slot is created when
\* nobody uses the key, and counts one user more.
Enter(s, k) ==
  LET r == ReplicaOf[s]
  IN /\ pc[s] = "pick"
     /\ k \in todo[s]
     /\ \A j \in todo[s] : k <= j
     /\ users' = [users EXCEPT ![r][k] = @ + 1]
     /\ sem' = [sem EXCEPT ![r][k] = @ \/ users[r][k] = 0]
     /\ todo' = [todo EXCEPT ![s] = @ \ {k}]
     /\ cur' = [cur EXCEPT ![s] = k]
     /\ Goto(s, "wait")
     /\ UNCHANGED <<calls, batch, closing, holdVars, lease, txVars>>

\* The key enters Holds.Keys and the keys this call has taken.
Taken(s) ==
  /\ holds' = [holds EXCEPT ![s] = @ \cup {cur[s]}]
  /\ batch' = [batch EXCEPT ![s] = @ \cup {cur[s]}]
  /\ cur' = [cur EXCEPT ![s] = NoKey]
  /\ Goto(s, "pick")

TakeSlot(s) ==
  /\ pc[s] = "wait"
  /\ sem[ReplicaOf[s]][cur[s]]
  /\ sem' = [sem EXCEPT ![ReplicaOf[s]][cur[s]] = FALSE]
  /\ \/ /\ UsesLeases(s)
        /\ Goto(s, "lease")
        /\ UNCHANGED <<holds, batch, cur>>
     \/ /\ ~UsesLeases(s)
        /\ Taken(s)
  /\ UNCHANGED <<calls, todo, closing, leased, leaked, users, lease, txVars>>

\* The call throws; the catch block gives back the keys it has taken.
Fail(s) ==
  /\ todo' = [todo EXCEPT ![s] = {}]
  /\ cur' = [cur EXCEPT ![s] = NoKey]
  /\ Goto(s, "drop")
  /\ UNCHANGED <<calls, batch, closing>>

\* Leave: one user less; a slot without users is removed from _slots.
LeaveSlot(s, k) == users' = [users EXCEPT ![ReplicaOf[s]][k] = @ - 1]

\* Exit: Semaphore.Release, then Leave.  They are separate lock blocks without
\* an await between them; what others do meanwhile commutes with Leave.
ExitSlot(s, k) ==
  /\ sem' = [sem EXCEPT ![ReplicaOf[s]][k] = TRUE]
  /\ LeaveSlot(s, k)

\* Faulty variant of GiveUpSlot: a wait has no deadline.
NeverGiveUpSlot(s) ==
  /\ FALSE
  /\ UNCHANGED vars

\* Faulty variant of GiveUpSlot: the slot is not left.
GiveUpSlotOnly(s) ==
  /\ pc[s] = "wait"
  /\ ~sem[ReplicaOf[s]][cur[s]]
  /\ Fail(s)
  /\ UNCHANGED <<holdVars, slotVars, lease, txVars>>

\* The deadline passes while another session has the semaphore: Leave, Busy.
GiveUpSlot(s) ==
  /\ pc[s] = "wait"
  /\ ~sem[ReplicaOf[s]][cur[s]]
  /\ LeaveSlot(s, cur[s])
  /\ Fail(s)
  /\ UNCHANGED <<holdVars, sem, lease, txVars>>

\* Faulty variant of Expired: a lease is taken over one tick early.
ExpiredEarly(k) == lease[k].age >= LeaseLimit

\* The filter of TryAcquireAsync and the unique _id of its upsert: the lease
\* can be taken when there is no document, or when the one there has expired.
Expired(k) == lease[k].age > LeaseLimit
LeaseFree(k) == lease[k].owner = Nobody \/ Expired(k)

\* The document of the upsert.  expiresAt is computed before the server carries
\* it out: the lease may have an age already, within what StartLimit bounds.
LeasesOf(s) == [owner : {s}, age : 0..StartLimit]

LeaseTake(s) ==
  /\ pc[s] = "lease"
  /\ \/ /\ LeaseStore
        /\ LeaseFree(cur[s])
        /\ \E l \in LeasesOf(s) : lease' = [lease EXCEPT ![cur[s]] = l]
     \/ /\ ~LeaseStore
        /\ UNCHANGED lease
  /\ leased' = [leased EXCEPT ![s] = @ \cup {cur[s]}]
  /\ Taken(s)
  /\ UNCHANGED <<calls, todo, closing, leaked, slotVars, txVars>>

\* The deadline passes while another owner has the lease, or the store throws.
LeaseGiveUp(s) ==
  /\ pc[s] = "lease"
  /\ LeaseStore
  /\ ExitSlot(s, cur[s])
  /\ Fail(s)
  /\ UNCHANGED <<holdVars, lease, txVars>>

\* The deadline cancels the upsert after the server has carried it out.
LeaseAckLost(s) ==
  /\ pc[s] = "lease"
  /\ LeaseStore
  /\ LeaseFree(cur[s])
  /\ \E l \in LeasesOf(s) : lease' = [lease EXCEPT ![cur[s]] = l]
  /\ ExitSlot(s, cur[s])
  /\ Fail(s)
  /\ UNCHANGED <<holdVars, txVars>>

AcquireReturns(s) ==
  /\ pc[s] = "pick"
  /\ todo[s] = {}
  /\ batch' = [batch EXCEPT ![s] = {}]
  /\ Goto(s, "work")
  /\ UNCHANGED <<calls, todo, closing, cur, holdVars, slotVars, lease, txVars>>

-----------------------------------------------------------------------------
(***************************************************************************)
(* ReleaseAsync, and the catch block of AcquireAsync, which gives back the *)
(* keys of its own call the same way.                                      *)
(***************************************************************************)

\* Faulty variant of Release: only the names with a lease are given back.
ReleaseLeasedOnly(s) ==
  /\ pc[s] = "ending"
  /\ batch' = [batch EXCEPT ![s] = holds[s] \cap leased[s]]
  /\ holds' = [holds EXCEPT ![s] = {}]
  /\ closing' = [closing EXCEPT ![s] = TRUE]
  /\ calls' = [calls EXCEPT ![s] = 0]
  /\ Goto(s, "drop")
  /\ UNCHANGED <<todo, cur, leased, leaked, slotVars, lease, txVars>>

\* The calls of the request are over; their count is of no further use.
Release(s) ==
  /\ pc[s] = "ending"
  /\ batch' = [batch EXCEPT ![s] = holds[s]]
  /\ holds' = [holds EXCEPT ![s] = {}]
  /\ closing' = [closing EXCEPT ![s] = TRUE]
  /\ calls' = [calls EXCEPT ![s] = 0]
  /\ Goto(s, "drop")
  /\ UNCHANGED <<todo, cur, leased, leaked, slotVars, lease, txVars>>

\* Faulty variant of Drop: the slot is given back before the lease.
DropSlotFirst(s, k) ==
  /\ pc[s] = "drop"
  /\ k \in batch[s]
  /\ batch' = [batch EXCEPT ![s] = @ \ {k}]
  /\ holds' = [holds EXCEPT ![s] = @ \ {k}]
  /\ ExitSlot(s, k)
  /\ UNCHANGED <<pc, calls, todo, closing, cur, leased, leaked, lease, txVars>>

\* A key without a lease: nothing is awaited before Exit.
Drop(s, k) ==
  /\ pc[s] = "drop"
  /\ k \in batch[s] \ leased[s]
  /\ batch' = [batch EXCEPT ![s] = @ \ {k}]
  /\ holds' = [holds EXCEPT ![s] = @ \ {k}]
  /\ ExitSlot(s, k)
  /\ UNCHANGED <<pc, calls, todo, closing, cur, leased, leaked, lease, txVars>>

\* A key with a lease: Holds.Leased forgets it before the document is deleted.
DropLeased(s, k) ==
  /\ pc[s] = "drop"
  /\ k \in batch[s] \cap leased[s]
  /\ batch' = [batch EXCEPT ![s] = @ \ {k}]
  /\ holds' = [holds EXCEPT ![s] = @ \ {k}]
  /\ leased' = [leased EXCEPT ![s] = @ \ {k}]
  /\ cur' = [cur EXCEPT ![s] = k]
  /\ Goto(s, "unlease")
  /\ UNCHANGED <<calls, todo, closing, leaked, slotVars, lease, txVars>>

\* deleteOne by _id and owner.  The document stays when it is another owner's,
\* when the store is unavailable, and when the delete fails and the store
\* swallows the failure.
LeaseRelease(s) ==
  /\ pc[s] = "unlease"
  /\ \/ lease[cur[s]].owner = s /\ lease' = [lease EXCEPT ![cur[s]] = NoLease]
     \/ UNCHANGED lease
  /\ Goto(s, "exit")
  /\ UNCHANGED <<callVars, holdVars, slotVars, txVars>>

Exit(s) ==
  /\ pc[s] = "exit"
  /\ ExitSlot(s, cur[s])
  /\ cur' = [cur EXCEPT ![s] = NoKey]
  /\ Goto(s, "drop")
  /\ UNCHANGED <<calls, todo, batch, closing, holdVars, lease, txVars>>

\* The loop is over: back to the handler; or the request is answered, and
\* disposing its session aborts a transaction that is still open.
LoopEnds(s) ==
  \/ closing[s] /\ Goto(s, "done") /\ EndTx(s)
  \/ ~closing[s] /\ Goto(s, "work") /\ UNCHANGED txVars

DropEnds(s) ==
  /\ pc[s] = "drop"
  /\ batch[s] = {}
  /\ LoopEnds(s)
  /\ UNCHANGED <<callVars, holdVars, slotVars, lease>>

\* The store swallows MongoException and InvalidOperationException only; any
\* other exception leaves the loop.  The slot of the key stays, and so do the
\* slots of the remaining keys that Holds.Keys no longer names.
LeaseReleaseThrows(s) ==
  /\ StoreThrows
  /\ pc[s] = "unlease"
  /\ leaked' = [leaked EXCEPT ![s] = @ \cup {cur[s]} \cup (batch[s] \ holds[s])]
  /\ batch' = [batch EXCEPT ![s] = {}]
  /\ cur' = [cur EXCEPT ![s] = NoKey]
  /\ LoopEnds(s)
  /\ UNCHANGED <<calls, todo, closing, holds, leased, slotVars, lease>>

-----------------------------------------------------------------------------
(***************************************************************************)
(* MongoDB and the processes.                                              *)
(***************************************************************************)

\* The server aborts a transaction that reached its lifetime limit.
TxLimitAbort(s) ==
  /\ tx[s] = "open"
  /\ txAge[s] = TxLimit
  /\ EndTx(s)
  /\ UNCHANGED <<pc, callVars, holdVars, slotVars, lease>>

Running(k) == lease[k].owner # Nobody /\ ~Expired(k)

\* Time passes; an age past LeaseLimit says only that the lease has expired.
\* Timing assumptions: the server aborts in time, and a request whose
\* transaction the server does not know yet reaches it in time.
Tick ==
  /\ \E s \in Session, k \in Key : tx[s] = "open" \/ Running(k)
  /\ \A s \in Session : tx[s] = "open" => txAge[s] < TxLimit
  /\ \A s \in Session : \A k \in leased[s] :
       tx[s] = "started" /\ lease[k].owner = s => lease[k].age < StartLimit
  /\ txAge' = [s \in Session |-> IF tx[s] = "open" THEN txAge[s] + 1 ELSE txAge[s]]
  /\ lease' = [k \in Key |-> IF Running(k) THEN [lease[k] EXCEPT !.age = @ + 1] ELSE lease[k]]
  /\ UNCHANGED <<pc, callVars, holdVars, slotVars, tx>>

\* The TTL monitor removes an expired document.
TtlRemove(k) ==
  /\ Expired(k)
  /\ lease' = [lease EXCEPT ![k] = NoLease]
  /\ UNCHANGED <<pc, callVars, holdVars, slotVars, txVars>>

\* A request that has done nothing yet may as well come after the restart.
Begun(s) == pc[s] # "work" \/ tx[s] # "none" \/ calls[s] > 0

\* A replica dies and is started again: its running requests, slots and
\* semaphores are gone, its leases stay in the database.
Crash(r) ==
  LET local == {s \in Session : ReplicaOf[s] = r}
      dying == {s \in local : Begun(s) /\ pc[s] # "done"}
      Cleared(f) == [s \in Session |-> IF s \in local THEN {} ELSE f[s]]
  IN /\ dying # {}
     /\ pc' = [s \in Session |-> IF s \in dying THEN "done" ELSE pc[s]]
     /\ tx' = [s \in Session |-> IF s \in dying THEN "over" ELSE tx[s]]
     /\ txAge' = [s \in Session |-> IF s \in dying THEN 0 ELSE txAge[s]]
     /\ cur' = [s \in Session |-> IF s \in local THEN NoKey ELSE cur[s]]
     /\ todo' = Cleared(todo)
     /\ batch' = Cleared(batch)
     /\ holds' = Cleared(holds)
     /\ leased' = Cleared(leased)
     /\ leaked' = Cleared(leaked)
     /\ users' = [users EXCEPT ![r] = [k \in Key |-> 0]]
     /\ sem' = [sem EXCEPT ![r] = [k \in Key |-> TRUE]]
     /\ closing' = [s \in Session |-> s \in dying \/ closing[s]]
     /\ calls' = [s \in Session |-> IF s \in dying THEN 0 ELSE calls[s]]
     /\ UNCHANGED lease

-----------------------------------------------------------------------------
AcquireStep(s) ==
  \/ \E k \in Key : Enter(s, k)
  \/ TakeSlot(s) \/ GiveUpSlot(s)
  \/ LeaseTake(s) \/ LeaseGiveUp(s) \/ LeaseAckLost(s) \/ AcquireReturns(s)

ReleaseStep(s) ==
  \/ Release(s)
  \/ \E k \in Key : Drop(s, k) \/ DropLeased(s, k)
  \/ LeaseRelease(s) \/ LeaseReleaseThrows(s) \/ Exit(s) \/ DropEnds(s)

HandlerStep(s) ==
  \/ StartTransaction(s) \/ FirstOperation(s) \/ EndTransaction(s) \/ Throw(s)
  \/ \E keys \in SUBSET Key \ {{}} : Acquire(s, keys)

\* Every request has been answered.
Finished ==
  /\ \A s \in Session : pc[s] = "done"
  /\ UNCHANGED vars

Next ==
  \/ \E s \in Session : HandlerStep(s) \/ AcquireStep(s) \/ ReleaseStep(s)
  \/ \E s \in Session : TxLimitAbort(s)
  \/ Tick
  \/ \E k \in Key : TtlRemove(k)
  \/ \E r \in Replica : Crash(r)
  \/ Finished

Spec == Init /\ [][Next]_vars

\* The thread pool runs every continuation, the timer of a wait fires, and a
\* handler that began comes to its end.
Fairness ==
  \A s \in Session : WF_vars(HandlerStep(s) \/ AcquireStep(s) \/ ReleaseStep(s))

FairSpec == Spec /\ Fairness

-----------------------------------------------------------------------------
(***************************************************************************)
(* Properties.                                                             *)
(***************************************************************************)

\* Keys whose semaphore the code of s has taken and will release.
Owns(s) ==
  holds[s] \cup batch[s]
    \cup (IF pc[s] \in {"lease", "unlease", "exit"} THEN {cur[s]} ELSE {})

\* Keys whose semaphore is taken on behalf of s, whether or not it is released.
Has(s) == Owns(s) \cup leaked[s]

\* Keys whose slot counts s as a user that will leave.
Uses(s) == Owns(s) \cup (IF pc[s] = "wait" THEN {cur[s]} ELSE {})

UsersOf(r, k) == {s \in Session : ReplicaOf[s] = r /\ k \in Uses(s)}
LeakedIn(r, k) == {s \in Session : ReplicaOf[s] = r /\ k \in leaked[s]}

\* Slot.Users counts exactly the sessions that use the slot, so a slot is never
\* removed under a session that waits on it or owns it, and is removed after
\* the last one.
SlotAccounting ==
  \A r \in Replica, k \in Key :
    users[r][k] = Cardinality(UsersOf(r, k)) + Cardinality(LeakedIn(r, k))

\* In one replica a name has at most one owner, whatever the timeouts, failed
\* calls and concurrent releases.
InProcessExclusion ==
  \A s, t \in Session :
    s # t /\ ReplicaOf[s] = ReplicaOf[t] => Has(s) \cap Has(t) = {}

\* Across the replicas, two requests whose transactions can still commit never
\* both believe to have the lease of a name, although leases expire unrenewed.
LeaseExclusion ==
  LeaseStore =>
    \A s, t \in Session :
      s # t /\ CanCommit(s) /\ CanCommit(t) => leased[s] \cap leased[t] = {}

\* IFileSystemNameLeaseStore.ReleaseAsync "never throws" and ReleaseAsync
\* "releases every lock session holds": when the requests that used a name in a
\* replica have ended, its slot is gone and no ended request claims a lease.
NothingLeftBehind ==
  /\ \A s \in Session : pc[s] = "done" => leased[s] = {}
  /\ \A r \in Replica, k \in Key :
       (\A s \in Session : ReplicaOf[s] = r /\ pc[s] # "done" => k \notin Uses(s))
         => users[r][k] = 0

\* s waits, or polls, for a name that t has.
Blocks(t, s) ==
  \/ /\ pc[s] = "wait"
     /\ ReplicaOf[s] = ReplicaOf[t]
     /\ cur[s] \in Owns(t)
  \/ /\ pc[s] = "lease"
     /\ LeaseStore
     /\ cur[s] \in leased[t]

Blocked(s) == pc[s] \in {"wait", "lease"}

\* "No deadlock between callers of one batch": as long as a request makes one
\* call, whatever its keys, whoever waits does so for a request that waits, if
\* at all, further on in the order of the keys (the semaphore of a key comes
\* before its lease), so requests never wait in a circle of any length.
WaitsAreOrdered ==
  \A s, t \in Session :
    s # t /\ Blocks(t, s) /\ Blocked(t) =>
      \/ cur[s] < cur[t]
      \/ cur[s] = cur[t] /\ pc[s] = "wait" /\ pc[t] = "lease"

\* Every request is answered, even when requests with several calls wait for
\* each other: a wait ends at its deadline.
RequestEnds == \A s \in Session : pc[s] = "work" ~> pc[s] = "done"

\* The lock implements what SiblingLocks promises.
Promise == INSTANCE SiblingLocks WITH
  owned <- [s \in Session |-> Has(s)],
  shared <- [s \in Session |-> IF LeaseStore THEN leased[s] ELSE {}],
  open <- {s \in Session : CanCommit(s)}

PromiseKept == Promise!LockSpec

-----------------------------------------------------------------------------
(***************************************************************************)
(* The inductive invariant behind the properties (see NameLocksProofs).    *)
(***************************************************************************)

InLoop(s) == pc[s] \in {"pick", "wait", "lease"}
AtKey(s) == pc[s] \in {"wait", "lease", "unlease", "exit"}

\* The local state of a request fits the place it stands at.
PlaceInv ==
  \A s \in Session :
    /\ AtKey(s) => cur[s] \in Key \ (holds[s] \cup batch[s])
    /\ pc[s] \in {"work", "ending"} => batch[s] = {}
    /\ InLoop(s) => batch[s] \subseteq holds[s] /\ todo[s] \cap holds[s] = {}
    /\ Blocked(s) => cur[s] \notin todo[s]
    /\ closing[s] => holds[s] = {} /\ pc[s] \in {"drop", "unlease", "exit", "done"}
    /\ pc[s] = "done" => Owns(s) = {} /\ tx[s] = "over"
    /\ tx[s] # "open" => txAge[s] = 0

\* A lease that is still claimed belongs to a key whose slot was not given back,
\* and was taken with a tenant id.
ClaimInv ==
  \A s \in Session :
    /\ leased[s] \subseteq holds[s] \cup batch[s] \cup leaked[s]
    /\ tx[s] = "none" => leased[s] = {} /\ pc[s] # "lease"

\* A semaphore is taken by one owner at most, the leaked ones included.
SemInv ==
  \A s \in Session :
    /\ \A k \in Has(s) : ~sem[ReplicaOf[s]][k]
    /\ Owns(s) \cap leaked[s] = {}
    /\ \A t \in Session \ {s} : ReplicaOf[s] = ReplicaOf[t] => Has(s) \cap Has(t) = {}

\* While a transaction can commit, the leases it claims are its own and are
\* younger than the limits allow.
LeaseInv ==
  LeaseStore =>
    \A s \in Session : \A k \in leased[s] :
      CanCommit(s) => lease[k].owner = s /\ lease[k].age <= StartLimit + txAge[s]

\* Only a store that throws leaves slots behind.
LeakInv == ~StoreThrows => \A s \in Session : leaked[s] = {}

\* Keys are taken in their order, and by the only call there is.
OrderInv ==
  MaxCalls = 1 =>
    \A s \in Session :
      /\ calls[s] = 0 /\ ~closing[s] => Has(s) = {} /\ ~InLoop(s) /\ ~AtKey(s)
      /\ InLoop(s) => holds[s] = batch[s] /\ leaked[s] = {}
      /\ InLoop(s) => \A b \in batch[s], k \in todo[s] : b < k
      /\ Blocked(s) => /\ \A b \in batch[s] : b < cur[s]
                       /\ \A k \in todo[s] : cur[s] < k

IInv ==
  TypeOK /\ PlaceInv /\ ClaimInv /\ SemInv /\ SlotAccounting /\ LeaseInv /\ LeakInv /\ OrderInv
=============================================================================
