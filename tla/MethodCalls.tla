---------------------------- MODULE MethodCalls -----------------------------
(***************************************************************************)
(* Calls of one CK method with one idempotency key: the gateway            *)
(* (GraphQL/Methods/CkMethodGateway.cs) and the claims of the key          *)
(* (Services/Methods/MongoMethodIdempotencyStore.cs).  Between the two     *)
(* stands the invocation pipeline of another repository: its audit filter  *)
(* records every call it sees, its idempotency filter claims the key       *)
(* before the method runs and settles the claim after it.                  *)
(*                                                                         *)
(* The records of different keys share nothing, so one key is enough.  A   *)
(* record is compared with the clock of the replica that reads it; the     *)
(* TTL monitor uses the clock of the database.                             *)
(***************************************************************************)
EXTENDS Integers, FiniteSets

CONSTANTS
  Call,        \* calls; the invocation id (a new GUID) is one per call
  ReplicaOf,   \* the replica that serves a call
  Skew,        \* Skew[r]: how far the clock of r is ahead of the earliest
  MaxSkew,     \* no clock is further ahead
  ServerSkew,  \* how far the clock of the database is ahead
  Ttl,         \* lifetime of a record
  OpTimeout,   \* ticks one call of the store may take (OperationTimeout)
  MaxAttempts, \* rounds of one claim (MaxClaimAttempts)
  MaxTime,     \* bound: ticks of the clock
  Nobody       \* no call

Replica == {ReplicaOf[c] : c \in Call}

ASSUME CallAssumption == IsFiniteSet(Call) /\ Nobody \notin Call
ASSUME SkewAssumption ==
  /\ MaxSkew \in Nat
  /\ Skew \in [Replica -> 0..MaxSkew]
  /\ ServerSkew \in 0..MaxSkew
ASSUME TimeAssumption == Ttl \in Nat \ {0} /\ OpTimeout \in Nat /\ MaxTime \in Nat
ASSUME AttemptAssumption == MaxAttempts \in Nat \ {0}

VARIABLES
  time,      \* the clock of the replica that is furthest behind
  pc,        \* pc[c]: where the call stands
  now,       \* now[c]: the time the store has read for c
  attempt,   \* attempt[c]: rounds of the claim begun so far
  record,    \* the document of the key
  owned,     \* owned[r]: expiry of the key in _owned of r; 0 when it is not there
  events,    \* events[c]: audit events of the call
  since,     \* since[c]: when its claim began (history)
  at,        \* at[c]: when its record was written (history)
  ran,       \* calls whose method was started (history)
  late       \* replicas that settled a claim whose record was gone (history)

storeVars == <<now, attempt, record, owned>>
history == <<since, at, ran, late>>
vars == <<time, pc, storeVars, events, history>>

Claiming == {"insert", "takeover", "read", "remember"}
Settling == {"complete", "burn", "release"}
PC == {"gateway", "target", "claimed", "running", "answer", "done", "dead"}
        \cup Claiming \cup Settling

State == {"in progress", "completed", "unknown"}
NoRecord == [first |-> Nobody, state |-> "unknown", expires |-> 0, response |-> Nobody]

TypeOK ==
  /\ time \in 0..MaxTime
  /\ pc \in [Call -> PC]
  /\ now \in [Call -> Nat]
  /\ attempt \in [Call -> 0..MaxAttempts]
  /\ record \in [first : Call \cup {Nobody}, state : State, expires : Nat,
                 response : Call \cup {Nobody}]
  /\ owned \in [Replica -> Nat]
  /\ events \in [Call -> Nat]
  /\ since \in [Call -> 0..MaxTime]
  /\ at \in [Call -> 0..MaxTime]
  /\ ran \subseteq Call
  /\ late \subseteq Replica

Init ==
  /\ time = 0
  /\ pc = [c \in Call |-> "gateway"]
  /\ now = [c \in Call |-> 0]
  /\ attempt = [c \in Call |-> 0]
  /\ record = NoRecord
  /\ owned = [r \in Replica |-> 0]
  /\ events = [c \in Call |-> 0]
  /\ since = [c \in Call |-> 0]
  /\ at = [c \in Call |-> 0]
  /\ ran = {}
  /\ late = {}

Goto(c, label) == pc' = [pc EXCEPT ![c] = label]
Clock(r) == time + Skew[r]
ClockOf(c) == Clock(ReplicaOf[c])

-----------------------------------------------------------------------------
(***************************************************************************)
(* The gateway.                                                            *)
(***************************************************************************)

Record(c) == events' = [events EXCEPT ![c] = @ + 1]

\* The call is refused (authorization, the size of the parameters and, after the
\* target was loaded, the data permission and the validation), a step of the
\* gateway throws, or the caller gives up while the target is loaded.
Refuse(c) ==
  /\ pc[c] \in {"gateway", "target"}
  /\ Record(c)
  /\ Goto(c, "done")
  /\ UNCHANGED <<time, storeVars, history>>

LoadTarget(c) ==
  /\ pc[c] = "gateway"
  /\ Goto(c, "target")
  /\ UNCHANGED <<time, storeVars, events, history>>

\* What the store kept for calls that have ended is of no further use.
Forget(calls) ==
  LET Kept(f) == [c \in Call |-> IF c \in calls THEN 0 ELSE f[c]]
      KeptRun(f) == [c \in Call |-> IF c \in calls \ ran THEN 0 ELSE f[c]]
  IN /\ now' = Kept(now)
     /\ attempt' = Kept(attempt)
     /\ since' = KeptRun(since)
     /\ at' = KeptRun(at)

\* Faulty variant of Return: a cancellation that surfaces from the dispatcher is
\* recorded by the gateway, too.
ReturnAndRecord(c) ==
  /\ pc[c] = "answer"
  /\ events' = [events EXCEPT ![c] = @ + 2]
  /\ Forget({c})
  /\ Goto(c, "done")
  /\ UNCHANGED <<time, record, owned, ran, late>>

\* The audit filter of the pipeline records the call; the gateway passes on the
\* answer, or the cancellation.
Return(c) ==
  /\ pc[c] = "answer"
  /\ Record(c)
  /\ Forget({c})
  /\ Goto(c, "done")
  /\ UNCHANGED <<time, record, owned, ran, late>>

-----------------------------------------------------------------------------
(***************************************************************************)
(* ClaimAsync.                                                             *)
(***************************************************************************)

\* Dispatch: the pipeline claims the key.  The clock is read; every SweepEvery-th
\* claim of the replica forgets the claims whose record has expired.
BeginClaim(c) ==
  LET r == ReplicaOf[c]
  IN /\ pc[c] = "target"
     /\ now' = [now EXCEPT ![c] = ClockOf(c)]
     /\ attempt' = [attempt EXCEPT ![c] = 1]
     /\ since' = [since EXCEPT ![c] = time]
     /\ \/ UNCHANGED owned
        \/ /\ owned[r] <= ClockOf(c)
           /\ owned' = [owned EXCEPT ![r] = 0]
     /\ Goto(c, "insert")
     /\ UNCHANGED <<time, record, events, at, ran, late>>

Fresh(c) ==
  [first |-> c, state |-> "in progress", expires |-> now[c] + Ttl, response |-> Nobody]

\* The document is written; the store learns of it, or it does not.
WriteFresh(c) ==
  /\ record' = Fresh(c)
  /\ at' = [at EXCEPT ![c] = time]
  /\ Goto(c, "remember") \/ Goto(c, "answer")

Insert(c) ==
  /\ pc[c] = "insert"
  /\ \/ record = NoRecord /\ WriteFresh(c)
     \/ record # NoRecord /\ Goto(c, "takeover") /\ UNCHANGED <<record, at>>
  /\ UNCHANGED <<time, now, attempt, owned, events, since, ran, late>>

\* Faulty variant of TakeOver: the filter does not ask whether the record expired.
TakeOverAny(c) ==
  /\ pc[c] = "takeover"
  /\ \/ record # NoRecord /\ WriteFresh(c)
     \/ record = NoRecord /\ Goto(c, "read") /\ UNCHANGED <<record, at>>
  /\ UNCHANGED <<time, now, attempt, owned, events, since, ran, late>>

\* Faulty variant of TakeOver: the claim is not remembered.
TakeOverForgotten(c) ==
  /\ pc[c] = "takeover"
  /\ \/ /\ record # NoRecord /\ record.expires <= now[c]
        /\ record' = Fresh(c)
        /\ at' = [at EXCEPT ![c] = time]
        /\ Goto(c, "claimed")
     \/ /\ ~(record # NoRecord /\ record.expires <= now[c])
        /\ Goto(c, "read")
        /\ UNCHANGED <<record, at>>
  /\ UNCHANGED <<time, now, attempt, owned, events, since, ran, late>>

TakeOver(c) ==
  /\ pc[c] = "takeover"
  /\ \/ record # NoRecord /\ record.expires <= now[c] /\ WriteFresh(c)
     \/ /\ ~(record # NoRecord /\ record.expires <= now[c])
        /\ Goto(c, "read")
        /\ UNCHANGED <<record, at>>
  /\ UNCHANGED <<time, now, attempt, owned, events, since, ran, late>>

\* Faulty variant of Read: the attempts are not limited.
ReadAgain(c) ==
  LET lives == record # NoRecord /\ record.expires > now[c]
  IN /\ pc[c] = "read"
     /\ \/ /\ lives
           /\ Goto(c, "answer")
           /\ UNCHANGED <<now, attempt>>
        \/ /\ ~lives
           /\ now' = [now EXCEPT ![c] = ClockOf(c)]
           /\ attempt' = [attempt EXCEPT ![c] = @ + 1]
           /\ Goto(c, "insert")
     /\ UNCHANGED <<time, record, owned, events, history>>

\* A record that lives is the answer (in progress, burned, or a response to
\* replay); one that was removed or has expired is decided on again, until the
\* attempts are used up and the claim fails.
Read(c) ==
  LET lives == record # NoRecord /\ record.expires > now[c]
  IN /\ pc[c] = "read"
     /\ \/ /\ lives \/ attempt[c] = MaxAttempts
           /\ Goto(c, "answer")
           /\ UNCHANGED <<now, attempt>>
        \/ /\ ~lives /\ attempt[c] < MaxAttempts
           /\ now' = [now EXCEPT ![c] = ClockOf(c)]
           /\ attempt' = [attempt EXCEPT ![c] = @ + 1]
           /\ Goto(c, "insert")
     /\ UNCHANGED <<time, record, owned, events, history>>

Remember(c) ==
  /\ pc[c] = "remember"
  /\ owned' = [owned EXCEPT ![ReplicaOf[c]] = now[c] + Ttl]
  /\ Goto(c, "claimed")
  /\ UNCHANGED <<time, now, attempt, record, events, history>>

\* The database fails, the call takes longer than OpTimeout, or the caller
\* gives up: the method is not run.
ClaimFails(c) ==
  /\ pc[c] \in Claiming \ {"remember"}
  /\ Goto(c, "answer")
  /\ UNCHANGED <<time, storeVars, events, history>>

-----------------------------------------------------------------------------
(***************************************************************************)
(* The method, and CompleteAsync and ReleaseAsync after it.                *)
(***************************************************************************)

RunMethod(c) ==
  /\ pc[c] = "claimed"
  /\ ran' = ran \cup {c}
  /\ Goto(c, "running")
  /\ UNCHANGED <<time, storeVars, events, since, at, late>>

\* The claim leaves _owned; nothing is written when it is not there.  The claim
\* of a method that was not started is released, the other ones are completed
\* with the response or burned.  The clock is read after one more await; a later
\* reading can only make the write come to nothing, which is SettleFails.
Settle(c) ==
  LET r == ReplicaOf[c]
  IN /\ pc[c] \in {"claimed", "running"}
     /\ \/ owned[r] = 0 /\ Goto(c, "answer")
        \/ owned[r] # 0 /\ pc[c] = "claimed" /\ Goto(c, "release")
        \/ owned[r] # 0 /\ pc[c] = "running" /\ (Goto(c, "complete") \/ Goto(c, "burn"))
     /\ owned' = [owned EXCEPT ![r] = 0]
     /\ late' = IF record.first # c THEN late \cup {r} ELSE late
     /\ now' = [now EXCEPT ![c] = ClockOf(c)]
     /\ UNCHANGED <<time, attempt, record, events, since, at, ran>>

\* Faulty variant of OwnedInProgress: the first invocation is not compared.
InProgress(c) ==
  record # NoRecord /\ record.state = "in progress" /\ record.expires > now[c]

\* The filter of the update: the record is still the one c wrote.
OwnedInProgress(c) ==
  record.first = c /\ record.state = "in progress" /\ record.expires > now[c]

Complete(c) ==
  /\ pc[c] \in {"complete", "burn"}
  /\ record' =
       IF ~OwnedInProgress(c) THEN record
       ELSE IF pc[c] = "complete" THEN [record EXCEPT !.state = "completed", !.response = c]
       ELSE [record EXCEPT !.state = "unknown"]
  /\ Goto(c, "answer")
  /\ UNCHANGED <<time, now, attempt, owned, events, history>>

\* Faulty variant of Release: the record is deleted by its id alone.
ReleaseById(c) ==
  /\ pc[c] = "release"
  /\ record' = NoRecord
  /\ Goto(c, "answer")
  /\ UNCHANGED <<time, now, attempt, owned, events, history>>

Release(c) ==
  /\ pc[c] = "release"
  /\ record' = IF OwnedInProgress(c) THEN NoRecord ELSE record
  /\ Goto(c, "answer")
  /\ UNCHANGED <<time, now, attempt, owned, events, history>>

\* The write does not reach the database.
SettleFails(c) ==
  /\ pc[c] \in Settling
  /\ Goto(c, "answer")
  /\ UNCHANGED <<time, storeVars, events, history>>

-----------------------------------------------------------------------------
(***************************************************************************)
(* The database and the processes.                                         *)
(***************************************************************************)

\* Timing assumption: a claim ends within OpTimeout, as its timer says.
Tick ==
  /\ time < MaxTime
  /\ \A c \in Call : pc[c] \in Claiming => time < since[c] + OpTimeout
  /\ time' = time + 1
  /\ UNCHANGED <<pc, storeVars, events, history>>

TtlRemove ==
  /\ record # NoRecord
  /\ record.expires <= time + ServerSkew
  /\ record' = NoRecord
  /\ UNCHANGED <<time, pc, now, attempt, owned, events, history>>

\* A replica dies and is started again: its calls and its memory are gone.
Crash(r) ==
  LET dying == {c \in Call : ReplicaOf[c] = r /\ pc[c] \notin {"gateway", "done", "dead"}}
  IN /\ dying # {}
     /\ pc' = [c \in Call |-> IF c \in dying THEN "dead" ELSE pc[c]]
     /\ owned' = [owned EXCEPT ![r] = 0]
     /\ Forget(dying)
     /\ UNCHANGED <<time, record, events, ran, late>>

GatewayStep(c) ==
  \/ Refuse(c) \/ LoadTarget(c) \/ Return(c)

StoreStep(c) ==
  \/ BeginClaim(c) \/ Insert(c) \/ TakeOver(c) \/ Read(c) \/ Remember(c) \/ ClaimFails(c)
  \/ RunMethod(c) \/ Settle(c) \/ Complete(c) \/ Release(c) \/ SettleFails(c)

Finished ==
  /\ \A c \in Call : pc[c] \in {"done", "dead"}
  /\ UNCHANGED vars

Next ==
  \/ \E c \in Call : GatewayStep(c) \/ StoreStep(c)
  \/ Tick \/ TtlRemove
  \/ \E r \in Replica : Crash(r)
  \/ Finished

Spec == Init /\ [][Next]_vars

-----------------------------------------------------------------------------
(***************************************************************************)
(* Properties.                                                             *)
(***************************************************************************)

\* "A call that carries an idempotency key runs at most once", whichever replica
\* a retry reaches: the claim of a second run is written no earlier than the
\* lifetime after the first call came, but for what the clocks differ.
OneRunPerLifetime ==
  \A c, d \in ran :
    c # d => \/ since[c] + Ttl <= at[d] + MaxSkew
             \/ since[d] + Ttl <= at[c] + MaxSkew

\* "Only the invocation that took the claim may complete or release": the
\* response that is replayed is the one of the call whose claim is recorded,
\* and its method was run.
ResponseOfFirst ==
  record.state = "completed" => record.response = record.first /\ record.first \in ran

\* A result that was stored is what every retry gets until it expires: neither a
\* late settlement, a takeover nor the TTL monitor changes the record before.
ResultStands ==
  [][record # NoRecord /\ record.state # "in progress" /\ record' # record =>
       record.expires <= time + MaxSkew]_vars

\* "The store remembers the tenant of each of its own in-flight claims": as long
\* as no call of the replica outlived its own record, a claim whose record lives
\* can be settled.
InFlightRemembered ==
  \A c \in Call :
    /\ pc[c] \in {"claimed", "running"}
    /\ record.first = c
    /\ record.expires > ClockOf(c)
    /\ ReplicaOf[c] \notin late
    => owned[ReplicaOf[c]] # 0

\* "There is exactly one event per invocation id", unless the process dies.
AuditedOnce ==
  \A c \in Call : events[c] <= 1 /\ (pc[c] = "done" => events[c] = 1)
-----------------------------------------------------------------------------
(***************************************************************************)
(* The inductive invariant behind the properties (see MethodCallsProofs).  *)
(***************************************************************************)

\* c has the claim, or had it and ran its method.
Won(c) == c \in ran \/ pc[c] \in {"remember", "claimed", "running"}

\* The method of a call and its audit event fit the place the call stands at.
PlaceInv ==
  \A c \in Call :
    /\ pc[c] \in {"running", "complete", "burn"} => c \in ran
    /\ pc[c] \in Claiming \cup {"gateway", "target", "claimed", "release"} => c \notin ran
    /\ events[c] = IF pc[c] = "done" THEN 1 ELSE 0

\* The time a claim compares with was read since it began.
ClockInv ==
  \A c \in Call :
    /\ since[c] <= time /\ at[c] <= time
    /\ pc[c] \in Claiming =>
         since[c] <= now[c] /\ now[c] <= time + MaxSkew /\ time <= since[c] + OpTimeout

\* A record has an owner; one that is not remembered yet expires when it says.
RecordInv ==
  /\ record.first = Nobody => record = NoRecord
  /\ \A c \in Call : pc[c] = "remember" /\ record.first = c => record.expires = now[c] + Ttl

\* As long as a winner's lifetime lasts, the record is the winner's.
GuardInv ==
  \A c \in Call :
    Won(c) => \/ record.first = c /\ since[c] + Ttl <= record.expires
              \/ since[c] + Ttl <= time + MaxSkew

\* OneRunPerLifetime, for winners that have not started their method yet, too.
ApartInv ==
  \A c, d \in Call :
    c # d /\ Won(c) /\ Won(d) => \/ since[c] + Ttl <= at[d] + MaxSkew
                                 \/ since[d] + Ttl <= at[c] + MaxSkew

\* The claim of a live record is remembered for as long as the record lives.
MemoryInv ==
  \A c \in Call :
    /\ pc[c] \in {"claimed", "running"}
    /\ record.first = c
    /\ ReplicaOf[c] \notin late
    => record.expires <= owned[ReplicaOf[c]] \/ record.expires <= ClockOf(c)

IInv ==
  TypeOK /\ PlaceInv /\ ClockInv /\ RecordInv /\ ResponseOfFirst /\ GuardInv /\ ApartInv
=============================================================================
