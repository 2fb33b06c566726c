---------------------------- MODULE SiblingLocks ----------------------------
(***************************************************************************)
(* What the sibling-name lock of the platform file system promises to its  *)
(* callers, without semaphores, slots, lease documents or clocks.          *)
(*                                                                         *)
(* A session (one request with its MongoDB transaction) may own names      *)
(* inside its replica, and may in addition own some of them across all     *)
(* replicas.  A name has one owner per replica at a time, and, among the   *)
(* sessions whose transaction can still commit, one owner across replicas. *)
(*                                                                         *)
(* NameLocks implements this module; FileNames is built on it.             *)
(***************************************************************************)
CONSTANTS
  Session,    \* requests, each with one session and at most one transaction
  ReplicaOf,  \* the asset repository replica a session runs on
  Key         \* lock keys: a parent folder and a case-folded name

VARIABLES
  owned,      \* owned[s]: names s owns inside its replica
  shared,     \* shared[s]: names s owns across the replicas
  open        \* sessions whose transaction can still commit

lockVars == <<owned, shared, open>>

LockTypeOK ==
  /\ owned \in [Session -> SUBSET Key]
  /\ shared \in [Session -> SUBSET Key]
  /\ open \subseteq Session

LockInit ==
  /\ owned = [s \in Session |-> {}]
  /\ shared = [s \in Session |-> {}]
  /\ open = {}

Neighbours(s) == {t \in Session \ {s} : ReplicaOf[t] = ReplicaOf[s]}

FreeInReplica(s, k) == \A t \in Neighbours(s) : k \notin owned[t]

FreeAcrossReplicas(s, k) == \A t \in open \ {s} : k \notin shared[t]

\* The transaction of s begins, and ends by commit or abort.
Begin(s) ==
  /\ shared[s] = {}
  /\ open' = open \cup {s}
  /\ UNCHANGED <<owned, shared>>

End(s) ==
  /\ open' = open \ {s}
  /\ UNCHANGED <<owned, shared>>

\* s becomes the owner of k in its replica.
Grant(s, k) ==
  /\ FreeInReplica(s, k)
  /\ owned' = [owned EXCEPT ![s] = @ \cup {k}]
  /\ UNCHANGED <<shared, open>>

\* s, owner of k in its replica, becomes its owner across the replicas.
Share(s, k) ==
  /\ k \in owned[s]
  /\ FreeAcrossReplicas(s, k)
  /\ shared' = [shared EXCEPT ![s] = @ \cup {k}]
  /\ UNCHANGED <<owned, open>>

\* Names are given back, the cross-replica ownership first.
Unshare(s, k) ==
  /\ shared' = [shared EXCEPT ![s] = @ \ {k}]
  /\ UNCHANGED <<owned, open>>

Give(s, k) ==
  /\ k \notin shared[s]
  /\ owned' = [owned EXCEPT ![s] = @ \ {k}]
  /\ UNCHANGED <<shared, open>>

\* The process of a replica ends: its sessions own nothing any more.
Crash(r) ==
  /\ owned' = [s \in Session |-> IF ReplicaOf[s] = r THEN {} ELSE owned[s]]
  /\ shared' = [s \in Session |-> IF ReplicaOf[s] = r THEN {} ELSE shared[s]]
  /\ open' = {s \in open : ReplicaOf[s] # r}

LockNext ==
  \/ \E s \in Session :
       \/ Begin(s) \/ End(s)
       \/ \E k \in Key : Grant(s, k) \/ Share(s, k) \/ Unshare(s, k) \/ Give(s, k)
  \/ \E s \in Session : Crash(ReplicaOf[s])

LockSpec == LockInit /\ [][LockNext]_lockVars
=============================================================================
