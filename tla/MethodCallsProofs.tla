------------------------- MODULE MethodCallsProofs -------------------------
(***************************************************************************)
(* Proofs about MethodCalls for any number of calls and replicas, any      *)
(* clocks that differ by at most MaxSkew, and any lifetime.                *)
(***************************************************************************)
EXTENDS MethodCalls, TLAPS

USE CallAssumption, SkewAssumption, TimeAssumption, AttemptAssumption

\* The clock of a replica is ahead of the earliest by at most MaxSkew.
LEMMA Clocks ==
  ASSUME TypeOK
  PROVE  \A c \in Call :
           /\ ReplicaOf[c] \in Replica
           /\ ClockOf(c) \in Nat /\ time <= ClockOf(c) /\ ClockOf(c) <= time + MaxSkew
BY DEF TypeOK, ClockOf, Clock, Replica

\* What the times of the store are compared as.
LEMMA Numbers ==
  ASSUME TypeOK
  PROVE  record.expires \in Nat /\ time \in Nat /\ \A c \in Call : now[c] \in Nat
BY DEF TypeOK

-----------------------------------------------------------------------------
(***************************************************************************)
(* What the first two rounds of a claim do.                                *)
(***************************************************************************)

\* The record of c takes the place of none, or of one that has expired for c.
Writes(c) ==
  /\ pc[c] \in {"insert", "takeover"}
  /\ record = NoRecord \/ record.expires <= now[c]
  /\ record' = Fresh(c)
  /\ at' = [at EXCEPT ![c] = time]
  /\ \E label \in {"remember", "answer"} : pc' = [pc EXCEPT ![c] = label]
  /\ UNCHANGED <<time, now, attempt, owned, events, since, ran, late>>

\* The claim goes on to its next round and leaves the record alone.
PassesOn(c) ==
  /\ pc[c] \in {"insert", "takeover"}
  /\ \E label \in {"takeover", "read"} : pc' = [pc EXCEPT ![c] = label]
  /\ UNCHANGED <<time, storeVars, events, history>>

\* Insert and TakeOver are the same two steps, with different guards.
LEMMA ClaimSteps ==
  \A c \in Call : Insert(c) \/ TakeOver(c) => Writes(c) \/ PassesOn(c)
<1>1. ASSUME NEW c \in Call, Insert(c) PROVE Writes(c) \/ PassesOn(c)
  <2>1. CASE record = NoRecord
    BY <1>1, <2>1 DEF Insert, WriteFresh, Goto, Writes
  <2>2. CASE record # NoRecord
    BY <1>1, <2>2 DEF Insert, Goto, PassesOn, storeVars, history
  <2> QED BY <2>1, <2>2
<1>2. ASSUME NEW c \in Call, TakeOver(c) PROVE Writes(c) \/ PassesOn(c)
  <2>1. CASE record # NoRecord /\ record.expires <= now[c]
    BY <1>2, <2>1 DEF TakeOver, WriteFresh, Goto, Writes
  <2>2. CASE ~(record # NoRecord /\ record.expires <= now[c])
    BY <1>2, <2>2 DEF TakeOver, Goto, PassesOn, storeVars, history
  <2> QED BY <2>1, <2>2
<1> QED BY <1>1, <1>2

-----------------------------------------------------------------------------
\* Every step keeps the types.
LEMMA TypeStep ==
  ASSUME TypeOK, [Next]_vars
  PROVE  TypeOK'
<1>1. ASSUME NEW c \in Call, Refuse(c) PROVE TypeOK'
  <2>1. pc' \in [Call -> PC]
    BY <1>1 DEF Refuse, Goto, PC, Claiming, Settling, TypeOK
  <2>2. events' \in [Call -> Nat]
    <3>1. events \in [Call -> Nat]
      BY DEF TypeOK
    <3>2. events' = [events EXCEPT ![c] = events[c] + 1]
      BY <1>1 DEF Refuse, Record
    <3> QED BY <3>1, <3>2
  <2> QED BY <1>1, <2>1, <2>2 DEF Refuse, storeVars, history, TypeOK
<1>2. ASSUME NEW c \in Call, LoadTarget(c) PROVE TypeOK'
  BY <1>2 DEF LoadTarget, Goto, storeVars, history, TypeOK, Claiming,
    Settling, PC, State, Replica
<1>3. ASSUME NEW c \in Call, Return(c) PROVE TypeOK'
  <2>1. pc' \in [Call -> PC]
    BY <1>3 DEF Return, Goto, PC, Claiming, Settling, TypeOK
  <2>2. events' \in [Call -> Nat]
    <3>1. events \in [Call -> Nat]
      BY DEF TypeOK
    <3>2. events' = [events EXCEPT ![c] = events[c] + 1]
      BY <1>3 DEF Return, Record
    <3> QED BY <3>1, <3>2
  <2>3. now' \in [Call -> Nat]
    <3>1. now \in [Call -> Nat]
      BY DEF TypeOK
    <3>2. now' = [d \in Call |-> IF d \in {c} THEN 0 ELSE now[d]]
      BY <1>3 DEF Return, Forget
    <3> QED BY <3>1, <3>2
  <2>4. attempt' \in [Call -> 0..MaxAttempts]
    <3>1. attempt \in [Call -> 0..MaxAttempts]
      BY DEF TypeOK
    <3>2. attempt' = [d \in Call |-> IF d \in {c} THEN 0 ELSE attempt[d]]
      BY <1>3 DEF Return, Forget
    <3> QED BY <3>1, <3>2
  <2>5. since' \in [Call -> 0..MaxTime]
    <3>1. since \in [Call -> 0..MaxTime]
      BY DEF TypeOK
    <3>2. since' = [d \in Call |-> IF d \in {c} \ ran THEN 0 ELSE since[d]]
      BY <1>3 DEF Return, Forget
    <3> QED BY <3>1, <3>2
  <2>6. at' \in [Call -> 0..MaxTime]
    <3>1. at \in [Call -> 0..MaxTime]
      BY DEF TypeOK
    <3>2. at' = [d \in Call |-> IF d \in {c} \ ran THEN 0 ELSE at[d]]
      BY <1>3 DEF Return, Forget
    <3> QED BY <3>1, <3>2
  <2> QED BY <1>3, <2>1, <2>2, <2>3, <2>4, <2>5, <2>6 DEF Return, Forget, TypeOK
<1>4. ASSUME NEW c \in Call, BeginClaim(c) PROVE TypeOK'
  <2>1. pc' \in [Call -> PC]
    BY <1>4 DEF BeginClaim, Goto, PC, Claiming, Settling, TypeOK
  <2>2. now' \in [Call -> Nat]
    <3>1. now \in [Call -> Nat]
      BY DEF TypeOK
    <3>2. now' = [now EXCEPT ![c] = ClockOf(c)]
      BY <1>4 DEF BeginClaim
    <3> QED BY <3>1, <3>2, Clocks
  <2>3. attempt' \in [Call -> 0..MaxAttempts]
    <3>1. attempt \in [Call -> 0..MaxAttempts]
      BY DEF TypeOK
    <3>2. attempt' = [attempt EXCEPT ![c] = 1]
      BY <1>4 DEF BeginClaim
    <3> QED BY <3>1, <3>2
  <2>4. since' \in [Call -> 0..MaxTime]
    <3>1. since \in [Call -> 0..MaxTime]
      BY DEF TypeOK
    <3>2. since' = [since EXCEPT ![c] = time]
      BY <1>4 DEF BeginClaim
    <3> QED BY <3>1, <3>2 DEF TypeOK
  <2>5. owned' \in [Replica -> Nat]
    BY <1>4 DEF BeginClaim, Replica, TypeOK
  <2> QED BY <1>4, <2>1, <2>2, <2>3, <2>4, <2>5 DEF BeginClaim, Goto, TypeOK
<1>5. ASSUME NEW c \in Call, Read(c) PROVE TypeOK'
  <2>1. pc' \in [Call -> PC]
    BY <1>5 DEF Read, Goto, PC, Claiming, Settling, TypeOK
  <2>2. now' \in [Call -> Nat]
    BY <1>5, Clocks DEF Read, Goto, TypeOK
  <2>3. attempt' \in [Call -> 0..MaxAttempts]
    BY <1>5 DEF Read, Goto, TypeOK
  <2> QED BY <1>5, <2>1, <2>2, <2>3 DEF Read, Goto, history, TypeOK
<1>6. ASSUME NEW c \in Call, Remember(c) PROVE TypeOK'
  <2>1. pc' \in [Call -> PC]
    BY <1>6 DEF Remember, Goto, PC, Claiming, Settling, TypeOK
  <2>2. owned' \in [Replica -> Nat]
    <3>1. owned \in [Replica -> Nat]
      BY DEF TypeOK
    <3>2. owned' = [owned EXCEPT ![ReplicaOf[c]] = now[c] + Ttl]
      BY <1>6 DEF Remember
    <3>3. now[c] + Ttl \in Nat
      BY DEF TypeOK
    <3> QED BY <3>1, <3>2, <3>3
  <2> QED BY <1>6, <2>1, <2>2 DEF Remember, Goto, history, TypeOK
<1>7. ASSUME NEW c \in Call, ClaimFails(c) PROVE TypeOK'
  BY <1>7 DEF ClaimFails, Goto, storeVars, history, TypeOK, Claiming,
    Settling, PC, State, Replica
<1>8. ASSUME NEW c \in Call, RunMethod(c) PROVE TypeOK'
  BY <1>8 DEF RunMethod, Goto, storeVars, TypeOK, Claiming, Settling, PC,
    State, Replica
<1>9. ASSUME NEW c \in Call, Settle(c) PROVE TypeOK'
  <2>1. pc' \in [Call -> PC]
    BY <1>9 DEF Settle, Goto, PC, Claiming, Settling, TypeOK
  <2>2. now' \in [Call -> Nat]
    <3>1. now \in [Call -> Nat]
      BY DEF TypeOK
    <3>2. now' = [now EXCEPT ![c] = ClockOf(c)]
      BY <1>9 DEF Settle
    <3> QED BY <3>1, <3>2, Clocks
  <2>3. owned' \in [Replica -> Nat]
    <3>1. owned \in [Replica -> Nat]
      BY DEF TypeOK
    <3>2. owned' = [owned EXCEPT ![ReplicaOf[c]] = 0]
      BY <1>9 DEF Settle
    <3> QED BY <3>1, <3>2
  <2>4. late' \in SUBSET Replica
    BY <1>9 DEF Settle, Replica, TypeOK
  <2> QED BY <1>9, <2>1, <2>2, <2>3, <2>4 DEF Settle, Goto, TypeOK
<1>10. ASSUME NEW c \in Call, Complete(c) PROVE TypeOK'
  BY <1>10 DEF Complete, OwnedInProgress, Goto, history, TypeOK, Claiming,
    Settling, PC, State, Replica
<1>11. ASSUME NEW c \in Call, Release(c) PROVE TypeOK'
  BY <1>11 DEF Release, OwnedInProgress, Goto, history, NoRecord, TypeOK,
    Claiming, Settling, PC, State, Replica
<1>12. ASSUME NEW c \in Call, SettleFails(c) PROVE TypeOK'
  BY <1>12 DEF SettleFails, Goto, storeVars, history, TypeOK, Claiming,
    Settling, PC, State, Replica
<1>13. ASSUME NEW c \in Call, Writes(c) PROVE TypeOK'
  <2>1. pc' \in [Call -> PC]
    BY <1>13 DEF Writes, Goto, PC, Claiming, Settling, TypeOK
  <2>2. record' \in [first : Call \cup {Nobody}, state : State, expires : Nat,
                  response : Call \cup {Nobody}]
    <3>1. now[c] + Ttl \in Nat
      BY DEF TypeOK
    <3> QED BY <1>13, <3>1 DEF Writes, Fresh, State
  <2>3. at' \in [Call -> 0..MaxTime]
    <3>1. at \in [Call -> 0..MaxTime]
      BY DEF TypeOK
    <3>2. at' = [at EXCEPT ![c] = time]
      BY <1>13 DEF Writes
    <3> QED BY <3>1, <3>2 DEF TypeOK
  <2> QED BY <1>13, <2>1, <2>2, <2>3 DEF Writes, Fresh, TypeOK
<1>14. ASSUME NEW c \in Call, PassesOn(c) PROVE TypeOK'
  <2>1. pc' \in [Call -> PC]
    BY <1>14 DEF PassesOn, Goto, PC, Claiming, Settling, TypeOK
  <2> QED BY <1>14, <2>1 DEF PassesOn, storeVars, history, TypeOK
<1>15. ASSUME Tick PROVE TypeOK'
  <2>1. time' \in 0..MaxTime
    <3>1. time \in 0..MaxTime
      BY DEF TypeOK
    <3> QED BY <1>15, <3>1 DEF Tick
  <2> QED BY <1>15, <2>1 DEF Tick, storeVars, history, TypeOK
<1>16. ASSUME TtlRemove PROVE TypeOK'
  BY <1>16 DEF TtlRemove, NoRecord, history, TypeOK, Claiming, Settling, PC,
    State, Replica
<1>17. ASSUME NEW r \in Replica, Crash(r) PROVE TypeOK'
  <2>1. pc' \in [Call -> PC]
    BY <1>17 DEF Crash, Goto, PC, Claiming, Settling, TypeOK
  <2>2. now' \in [Call -> Nat]
    BY <1>17 DEF Crash, Forget, TypeOK
  <2>3. attempt' \in [Call -> 0..MaxAttempts]
    BY <1>17 DEF Crash, Forget, TypeOK
  <2>4. since' \in [Call -> 0..MaxTime]
    BY <1>17 DEF Crash, Forget, TypeOK
  <2>5. at' \in [Call -> 0..MaxTime]
    BY <1>17 DEF Crash, Forget, TypeOK
  <2>6. owned' \in [Replica -> Nat]
    <3>1. owned \in [Replica -> Nat]
      BY DEF TypeOK
    <3>2. owned' = [owned EXCEPT ![r] = 0]
      BY <1>17 DEF Crash
    <3> QED BY <3>1, <3>2
  <2> QED BY <1>17, <2>1, <2>2, <2>3, <2>4, <2>5, <2>6 DEF Crash, Forget, TypeOK
<1>18. ASSUME UNCHANGED vars PROVE TypeOK'
  BY <1>18 DEF vars, storeVars, history, TypeOK, Claiming, Settling, PC,
    State, Replica
<1> QED BY <1>1, <1>2, <1>3, <1>4, <1>5, <1>6, <1>7, <1>8, <1>9, <1>10, <1>11,
  <1>12, <1>13, <1>14, <1>15, <1>16, <1>17, <1>18, ClaimSteps DEF Next,
  GatewayStep, StoreStep, Finished

\* Every step keeps the calls in place.
LEMMA PlaceStep ==
  ASSUME TypeOK, PlaceInv, [Next]_vars
  PROVE  PlaceInv'
<1>1. ASSUME NEW c \in Call, Refuse(c) PROVE PlaceInv'
  BY <1>1 DEF Refuse, Record, Goto, storeVars, history, TypeOK, Claiming,
    Settling, PlaceInv
<1>2. ASSUME NEW c \in Call, LoadTarget(c) PROVE PlaceInv'
  BY <1>2 DEF LoadTarget, Goto, storeVars, history, TypeOK, Claiming,
    Settling, PlaceInv
<1>3. ASSUME NEW c \in Call, Return(c) PROVE PlaceInv'
  BY <1>3 DEF Return, Record, Forget, Goto, TypeOK, Claiming, Settling,
    PlaceInv
<1>4. ASSUME NEW c \in Call, BeginClaim(c) PROVE PlaceInv'
  BY <1>4, Clocks DEF BeginClaim, Goto, TypeOK, Claiming, Settling, PlaceInv
<1>5. ASSUME NEW c \in Call, Read(c) PROVE PlaceInv'
  BY <1>5, Clocks DEF Read, Goto, history, TypeOK, Claiming, Settling,
    PlaceInv
<1>6. ASSUME NEW c \in Call, Remember(c) PROVE PlaceInv'
  BY <1>6 DEF Remember, Goto, history, TypeOK, Claiming, Settling, PlaceInv
<1>7. ASSUME NEW c \in Call, ClaimFails(c) PROVE PlaceInv'
  BY <1>7 DEF ClaimFails, Goto, storeVars, history, TypeOK, Claiming,
    Settling, PlaceInv
<1>8. ASSUME NEW c \in Call, RunMethod(c) PROVE PlaceInv'
  BY <1>8 DEF RunMethod, Goto, storeVars, TypeOK, Claiming, Settling, PlaceInv
<1>9. ASSUME NEW c \in Call, Settle(c) PROVE PlaceInv'
  BY <1>9, Clocks DEF Settle, Goto, TypeOK, Claiming, Settling, PlaceInv
<1>10. ASSUME NEW c \in Call, Complete(c) PROVE PlaceInv'
  BY <1>10 DEF Complete, OwnedInProgress, Goto, history, TypeOK, Claiming,
    Settling, PlaceInv
<1>11. ASSUME NEW c \in Call, Release(c) PROVE PlaceInv'
  BY <1>11 DEF Release, OwnedInProgress, Goto, history, NoRecord, TypeOK,
    Claiming, Settling, PlaceInv
<1>12. ASSUME NEW c \in Call, SettleFails(c) PROVE PlaceInv'
  BY <1>12 DEF SettleFails, Goto, storeVars, history, TypeOK, Claiming,
    Settling, PlaceInv
<1>13. ASSUME NEW c \in Call, Writes(c) PROVE PlaceInv'
  <2>1. PICK label \in {"remember", "answer"} : pc' = [pc EXCEPT ![c] = label]
    BY <1>13 DEF Writes
  <2>2. pc[c] \in {"insert", "takeover"} /\ at' = [at EXCEPT ![c] = time]
    BY <1>13 DEF Writes
  <2>3. UNCHANGED <<time, now, events, since, ran>>
    BY <1>13 DEF Writes
  <2> QED BY <2>1, <2>2, <2>3 DEF TypeOK, PlaceInv, Claiming
<1>14. ASSUME NEW c \in Call, PassesOn(c) PROVE PlaceInv'
  BY <1>14 DEF PassesOn, storeVars, history, TypeOK, Claiming, Settling,
    PlaceInv
<1>15. ASSUME Tick PROVE PlaceInv'
  BY <1>15 DEF Tick, storeVars, history, TypeOK, Claiming, Settling, PlaceInv
<1>16. ASSUME TtlRemove PROVE PlaceInv'
  BY <1>16 DEF TtlRemove, NoRecord, history, TypeOK, Claiming, Settling,
    PlaceInv
<1>17. ASSUME NEW r \in Replica, Crash(r) PROVE PlaceInv'
  BY <1>17 DEF Crash, Forget, TypeOK, Claiming, Settling, PlaceInv
<1>18. ASSUME UNCHANGED vars PROVE PlaceInv'
  BY <1>18 DEF vars, storeVars, history, TypeOK, Claiming, Settling, PlaceInv
<1> QED BY <1>1, <1>2, <1>3, <1>4, <1>5, <1>6, <1>7, <1>8, <1>9, <1>10, <1>11,
  <1>12, <1>13, <1>14, <1>15, <1>16, <1>17, <1>18, ClaimSteps DEF Next,
  GatewayStep, StoreStep, Finished

\* A claim begins, reads the time and ends in this order.
LEMMA ClockStep ==
  ASSUME TypeOK, ClockInv, [Next]_vars
  PROVE  ClockInv'
<1>1. ASSUME NEW c \in Call, Refuse(c) PROVE ClockInv'
  BY <1>1 DEF Refuse, Record, Goto, storeVars, history, TypeOK, Claiming,
    Settling, ClockInv
<1>2. ASSUME NEW c \in Call, LoadTarget(c) PROVE ClockInv'
  BY <1>2 DEF LoadTarget, Goto, storeVars, history, TypeOK, Claiming,
    Settling, ClockInv
<1>3. ASSUME NEW c \in Call, Return(c) PROVE ClockInv'
  BY <1>3 DEF Return, Record, Forget, Goto, TypeOK, Claiming, Settling,
    ClockInv
<1>4. ASSUME NEW c \in Call, BeginClaim(c) PROVE ClockInv'
  BY <1>4, Clocks DEF BeginClaim, Goto, TypeOK, Claiming, Settling, ClockInv
<1>5. ASSUME NEW c \in Call, Read(c) PROVE ClockInv'
  BY <1>5, Clocks DEF Read, Goto, history, TypeOK, Claiming, Settling,
    ClockInv
<1>6. ASSUME NEW c \in Call, Remember(c) PROVE ClockInv'
  BY <1>6 DEF Remember, Goto, history, TypeOK, Claiming, Settling, ClockInv
<1>7. ASSUME NEW c \in Call, ClaimFails(c) PROVE ClockInv'
  BY <1>7 DEF ClaimFails, Goto, storeVars, history, TypeOK, Claiming,
    Settling, ClockInv
<1>8. ASSUME NEW c \in Call, RunMethod(c) PROVE ClockInv'
  BY <1>8 DEF RunMethod, Goto, storeVars, TypeOK, Claiming, Settling, ClockInv
<1>9. ASSUME NEW c \in Call, Settle(c) PROVE ClockInv'
  BY <1>9, Clocks DEF Settle, Goto, TypeOK, Claiming, Settling, ClockInv
<1>10. ASSUME NEW c \in Call, Complete(c) PROVE ClockInv'
  BY <1>10 DEF Complete, OwnedInProgress, Goto, history, TypeOK, Claiming,
    Settling, ClockInv
<1>11. ASSUME NEW c \in Call, Release(c) PROVE ClockInv'
  BY <1>11 DEF Release, OwnedInProgress, Goto, history, NoRecord, TypeOK,
    Claiming, Settling, ClockInv
<1>12. ASSUME NEW c \in Call, SettleFails(c) PROVE ClockInv'
  BY <1>12 DEF SettleFails, Goto, storeVars, history, TypeOK, Claiming,
    Settling, ClockInv
<1>13. ASSUME NEW c \in Call, Writes(c) PROVE ClockInv'
  <2>1. PICK label \in {"remember", "answer"} : pc' = [pc EXCEPT ![c] = label]
    BY <1>13 DEF Writes
  <2>2. pc[c] \in {"insert", "takeover"} /\ at' = [at EXCEPT ![c] = time]
    BY <1>13 DEF Writes
  <2>3. UNCHANGED <<time, now, events, since, ran>>
    BY <1>13 DEF Writes
  <2> QED BY <2>1, <2>2, <2>3 DEF TypeOK, ClockInv, Claiming
<1>14. ASSUME NEW c \in Call, PassesOn(c) PROVE ClockInv'
  BY <1>14 DEF PassesOn, storeVars, history, TypeOK, Claiming, Settling,
    ClockInv
<1>15. ASSUME Tick PROVE ClockInv'
  BY <1>15 DEF Tick, storeVars, history, TypeOK, Claiming, Settling, ClockInv
<1>16. ASSUME TtlRemove PROVE ClockInv'
  BY <1>16 DEF TtlRemove, NoRecord, history, TypeOK, Claiming, Settling,
    ClockInv
<1>17. ASSUME NEW r \in Replica, Crash(r) PROVE ClockInv'
  BY <1>17 DEF Crash, Forget, TypeOK, Claiming, Settling, ClockInv
<1>18. ASSUME UNCHANGED vars PROVE ClockInv'
  BY <1>18 DEF vars, storeVars, history, TypeOK, Claiming, Settling, ClockInv
<1> QED BY <1>1, <1>2, <1>3, <1>4, <1>5, <1>6, <1>7, <1>8, <1>9, <1>10, <1>11,
  <1>12, <1>13, <1>14, <1>15, <1>16, <1>17, <1>18, ClaimSteps DEF Next,
  GatewayStep, StoreStep, Finished

\* Every record has an owner.
LEMMA RecordStep ==
  ASSUME TypeOK, RecordInv, [Next]_vars
  PROVE  RecordInv'
<1>1. ASSUME NEW c \in Call, Refuse(c) PROVE RecordInv'
  BY <1>1 DEF Refuse, Record, Goto, storeVars, history, TypeOK, Claiming,
    Settling, RecordInv, NoRecord
<1>2. ASSUME NEW c \in Call, LoadTarget(c) PROVE RecordInv'
  BY <1>2 DEF LoadTarget, Goto, storeVars, history, TypeOK, Claiming,
    Settling, RecordInv, NoRecord
<1>3. ASSUME NEW c \in Call, Return(c) PROVE RecordInv'
  BY <1>3 DEF Return, Record, Forget, Goto, TypeOK, Claiming, Settling,
    RecordInv, NoRecord
<1>4. ASSUME NEW c \in Call, BeginClaim(c) PROVE RecordInv'
  BY <1>4, Clocks DEF BeginClaim, Goto, TypeOK, Claiming, Settling, RecordInv,
    NoRecord
<1>5. ASSUME NEW c \in Call, Read(c) PROVE RecordInv'
  BY <1>5, Clocks DEF Read, Goto, history, TypeOK, Claiming, Settling,
    RecordInv, NoRecord
<1>6. ASSUME NEW c \in Call, Remember(c) PROVE RecordInv'
  BY <1>6 DEF Remember, Goto, history, TypeOK, Claiming, Settling, RecordInv,
    NoRecord
<1>7. ASSUME NEW c \in Call, ClaimFails(c) PROVE RecordInv'
  BY <1>7 DEF ClaimFails, Goto, storeVars, history, TypeOK, Claiming,
    Settling, RecordInv, NoRecord
<1>8. ASSUME NEW c \in Call, RunMethod(c) PROVE RecordInv'
  BY <1>8 DEF RunMethod, Goto, storeVars, TypeOK, Claiming, Settling,
    RecordInv, NoRecord
<1>9. ASSUME NEW c \in Call, Settle(c) PROVE RecordInv'
  BY <1>9, Clocks DEF Settle, Goto, TypeOK, Claiming, Settling, RecordInv,
    NoRecord
<1>10. ASSUME NEW c \in Call, Complete(c) PROVE RecordInv'
  BY <1>10 DEF Complete, OwnedInProgress, Goto, history, TypeOK, Claiming,
    Settling, RecordInv, NoRecord
<1>11. ASSUME NEW c \in Call, Release(c) PROVE RecordInv'
  BY <1>11 DEF Release, OwnedInProgress, Goto, history, NoRecord, TypeOK,
    Claiming, Settling, RecordInv, NoRecord
<1>12. ASSUME NEW c \in Call, SettleFails(c) PROVE RecordInv'
  BY <1>12 DEF SettleFails, Goto, storeVars, history, TypeOK, Claiming,
    Settling, RecordInv, NoRecord
<1>13. ASSUME NEW c \in Call, Writes(c) PROVE RecordInv'
  BY <1>13 DEF Writes, Fresh, TypeOK, Claiming, Settling, RecordInv, NoRecord
<1>14. ASSUME NEW c \in Call, PassesOn(c) PROVE RecordInv'
  BY <1>14 DEF PassesOn, storeVars, history, TypeOK, Claiming, Settling,
    RecordInv, NoRecord
<1>15. ASSUME Tick PROVE RecordInv'
  BY <1>15 DEF Tick, storeVars, history, TypeOK, Claiming, Settling,
    RecordInv, NoRecord
<1>16. ASSUME TtlRemove PROVE RecordInv'
  BY <1>16 DEF TtlRemove, NoRecord, history, TypeOK, Claiming, Settling,
    RecordInv, NoRecord
<1>17. ASSUME NEW r \in Replica, Crash(r) PROVE RecordInv'
  BY <1>17 DEF Crash, Forget, TypeOK, Claiming, Settling, RecordInv, NoRecord
<1>18. ASSUME UNCHANGED vars PROVE RecordInv'
  BY <1>18 DEF vars, storeVars, history, TypeOK, Claiming, Settling,
    RecordInv, NoRecord
<1> QED BY <1>1, <1>2, <1>3, <1>4, <1>5, <1>6, <1>7, <1>8, <1>9, <1>10, <1>11,
  <1>12, <1>13, <1>14, <1>15, <1>16, <1>17, <1>18, ClaimSteps DEF Next,
  GatewayStep, StoreStep, Finished

\* The response of a record comes from the method of its owner.
LEMMA ResponseStep ==
  ASSUME TypeOK, PlaceInv, ResponseOfFirst, [Next]_vars
  PROVE  ResponseOfFirst'
<1>1. ASSUME NEW c \in Call, Refuse(c) PROVE ResponseOfFirst'
  BY <1>1 DEF Refuse, Record, Goto, storeVars, history, TypeOK, Claiming,
    Settling, PlaceInv, ResponseOfFirst, NoRecord
<1>2. ASSUME NEW c \in Call, LoadTarget(c) PROVE ResponseOfFirst'
  BY <1>2 DEF LoadTarget, Goto, storeVars, history, TypeOK, Claiming,
    Settling, PlaceInv, ResponseOfFirst, NoRecord
<1>3. ASSUME NEW c \in Call, Return(c) PROVE ResponseOfFirst'
  BY <1>3 DEF Return, Record, Forget, Goto, TypeOK, Claiming, Settling,
    PlaceInv, ResponseOfFirst, NoRecord
<1>4. ASSUME NEW c \in Call, BeginClaim(c) PROVE ResponseOfFirst'
  BY <1>4, Clocks DEF BeginClaim, Goto, TypeOK, Claiming, Settling, PlaceInv,
    ResponseOfFirst, NoRecord
<1>5. ASSUME NEW c \in Call, Read(c) PROVE ResponseOfFirst'
  BY <1>5, Clocks DEF Read, Goto, history, TypeOK, Claiming, Settling,
    PlaceInv, ResponseOfFirst, NoRecord
<1>6. ASSUME NEW c \in Call, Remember(c) PROVE ResponseOfFirst'
  BY <1>6 DEF Remember, Goto, history, TypeOK, Claiming, Settling, PlaceInv,
    ResponseOfFirst, NoRecord
<1>7. ASSUME NEW c \in Call, ClaimFails(c) PROVE ResponseOfFirst'
  BY <1>7 DEF ClaimFails, Goto, storeVars, history, TypeOK, Claiming,
    Settling, PlaceInv, ResponseOfFirst, NoRecord
<1>8. ASSUME NEW c \in Call, RunMethod(c) PROVE ResponseOfFirst'
  BY <1>8 DEF RunMethod, Goto, storeVars, TypeOK, Claiming, Settling,
    PlaceInv, ResponseOfFirst, NoRecord
<1>9. ASSUME NEW c \in Call, Settle(c) PROVE ResponseOfFirst'
  BY <1>9, Clocks DEF Settle, Goto, TypeOK, Claiming, Settling, PlaceInv,
    ResponseOfFirst, NoRecord
<1>10. ASSUME NEW c \in Call, Complete(c) PROVE ResponseOfFirst'
  BY <1>10 DEF Complete, OwnedInProgress, Goto, history, TypeOK, Claiming,
    Settling, PlaceInv, ResponseOfFirst, NoRecord
<1>11. ASSUME NEW c \in Call, Release(c) PROVE ResponseOfFirst'
  BY <1>11 DEF Release, OwnedInProgress, Goto, history, NoRecord, TypeOK,
    Claiming, Settling, PlaceInv, ResponseOfFirst, NoRecord
<1>12. ASSUME NEW c \in Call, SettleFails(c) PROVE ResponseOfFirst'
  BY <1>12 DEF SettleFails, Goto, storeVars, history, TypeOK, Claiming,
    Settling, PlaceInv, ResponseOfFirst, NoRecord
<1>13. ASSUME NEW c \in Call, Writes(c) PROVE ResponseOfFirst'
  BY <1>13 DEF Writes, Fresh, TypeOK, Claiming, Settling, PlaceInv,
    ResponseOfFirst, NoRecord
<1>14. ASSUME NEW c \in Call, PassesOn(c) PROVE ResponseOfFirst'
  BY <1>14 DEF PassesOn, storeVars, history, TypeOK, Claiming, Settling,
    PlaceInv, ResponseOfFirst, NoRecord
<1>15. ASSUME Tick PROVE ResponseOfFirst'
  BY <1>15 DEF Tick, storeVars, history, TypeOK, Claiming, Settling, PlaceInv,
    ResponseOfFirst, NoRecord
<1>16. ASSUME TtlRemove PROVE ResponseOfFirst'
  BY <1>16 DEF TtlRemove, NoRecord, history, TypeOK, Claiming, Settling,
    PlaceInv, ResponseOfFirst, NoRecord
<1>17. ASSUME NEW r \in Replica, Crash(r) PROVE ResponseOfFirst'
  BY <1>17 DEF Crash, Forget, TypeOK, Claiming, Settling, PlaceInv,
    ResponseOfFirst, NoRecord
<1>18. ASSUME UNCHANGED vars PROVE ResponseOfFirst'
  BY <1>18 DEF vars, storeVars, history, TypeOK, Claiming, Settling, PlaceInv,
    ResponseOfFirst, NoRecord
<1> QED BY <1>1, <1>2, <1>3, <1>4, <1>5, <1>6, <1>7, <1>8, <1>9, <1>10, <1>11,
  <1>12, <1>13, <1>14, <1>15, <1>16, <1>17, <1>18, ClaimSteps DEF Next,
  GatewayStep, StoreStep, Finished

\* When c writes its record, the lifetime of every other winner has passed.
LEMMA WritesLate ==
  ASSUME TypeOK, ClockInv, GuardInv, NEW c \in Call, Writes(c),
         NEW d \in Call, d # c, Won(d)
  PROVE  since[d] + Ttl <= time + MaxSkew
<1>1. now[c] <= time + MaxSkew
  BY DEF Writes, ClockInv, Claiming
<1>2. CASE since[d] + Ttl <= time + MaxSkew
  BY <1>2
<1>3. CASE record.first = d /\ since[d] + Ttl <= record.expires
  <2>1. record.expires <= now[c]
    BY <1>3 DEF Writes, NoRecord
  <2>2. since[d] \in Nat /\ record.expires \in Nat /\ now[c] \in Nat /\ time \in Nat
    BY DEF TypeOK
  <2> QED BY <1>1, <1>3, <2>1, <2>2
<1> QED BY <1>2, <1>3 DEF GuardInv

\* A record goes away only after the lifetime of its owner.
LEMMA GuardStep ==
  ASSUME TypeOK, PlaceInv, ClockInv, RecordInv, GuardInv, [Next]_vars
  PROVE  GuardInv'
<1>1. ASSUME NEW c \in Call, Refuse(c) PROVE GuardInv'
  BY <1>1 DEF Refuse, Record, Goto, storeVars, history, TypeOK, Claiming,
    Settling, PlaceInv, ClockInv, RecordInv, GuardInv, Won
<1>2. ASSUME NEW c \in Call, LoadTarget(c) PROVE GuardInv'
  BY <1>2 DEF LoadTarget, Goto, storeVars, history, TypeOK, Claiming,
    Settling, PlaceInv, ClockInv, RecordInv, GuardInv, Won
<1>3. ASSUME NEW c \in Call, Return(c) PROVE GuardInv'
  BY <1>3 DEF Return, Record, Forget, Goto, TypeOK, Claiming, Settling,
    PlaceInv, ClockInv, RecordInv, GuardInv, Won
<1>4. ASSUME NEW c \in Call, BeginClaim(c) PROVE GuardInv'
  BY <1>4, Clocks DEF BeginClaim, Goto, TypeOK, Claiming, Settling, PlaceInv,
    ClockInv, RecordInv, GuardInv, Won
<1>5. ASSUME NEW c \in Call, Read(c) PROVE GuardInv'
  BY <1>5, Clocks DEF Read, Goto, history, TypeOK, Claiming, Settling,
    PlaceInv, ClockInv, RecordInv, GuardInv, Won
<1>6. ASSUME NEW c \in Call, Remember(c) PROVE GuardInv'
  BY <1>6 DEF Remember, Goto, history, TypeOK, Claiming, Settling, PlaceInv,
    ClockInv, RecordInv, GuardInv, Won
<1>7. ASSUME NEW c \in Call, ClaimFails(c) PROVE GuardInv'
  BY <1>7 DEF ClaimFails, Goto, storeVars, history, TypeOK, Claiming,
    Settling, PlaceInv, ClockInv, RecordInv, GuardInv, Won
<1>8. ASSUME NEW c \in Call, RunMethod(c) PROVE GuardInv'
  BY <1>8 DEF RunMethod, Goto, storeVars, TypeOK, Claiming, Settling,
    PlaceInv, ClockInv, RecordInv, GuardInv, Won
<1>9. ASSUME NEW c \in Call, Settle(c) PROVE GuardInv'
  BY <1>9, Clocks DEF Settle, Goto, TypeOK, Claiming, Settling, PlaceInv,
    ClockInv, RecordInv, GuardInv, Won
<1>10. ASSUME NEW c \in Call, Complete(c) PROVE GuardInv'
  BY <1>10 DEF Complete, OwnedInProgress, Goto, history, TypeOK, Claiming,
    Settling, PlaceInv, ClockInv, RecordInv, GuardInv, Won
<1>11. ASSUME NEW c \in Call, Release(c) PROVE GuardInv'
  BY <1>11 DEF Release, OwnedInProgress, Goto, history, NoRecord, TypeOK,
    Claiming, Settling, PlaceInv, ClockInv, RecordInv, GuardInv, Won
<1>12. ASSUME NEW c \in Call, SettleFails(c) PROVE GuardInv'
  BY <1>12 DEF SettleFails, Goto, storeVars, history, TypeOK, Claiming,
    Settling, PlaceInv, ClockInv, RecordInv, GuardInv, Won
<1>13. ASSUME NEW c \in Call, Writes(c) PROVE GuardInv'
  <2>1. PICK label \in {"remember", "answer"} : pc' = [pc EXCEPT ![c] = label]
    BY <1>13 DEF Writes
  <2>2. pc[c] \in {"insert", "takeover"} /\ at' = [at EXCEPT ![c] = time]
    BY <1>13 DEF Writes
  <2>3. UNCHANGED <<time, now, events, since, ran>>
    BY <1>13 DEF Writes
  <2>4. record'.first = c /\ record'.expires = now[c] + Ttl
    BY <1>13 DEF Writes, Fresh
  <2> SUFFICES ASSUME NEW d \in Call, Won(d)'
               PROVE  \/ record'.first = d /\ since[d] + Ttl <= record'.expires
                      \/ since[d] + Ttl <= time + MaxSkew
    BY <2>3 DEF GuardInv
  <2>5. CASE d = c
    BY <2>2, <2>4, <2>5 DEF TypeOK, ClockInv, Claiming
  <2>6. CASE d # c
    <3>1. Won(d)
      BY <2>1, <2>3, <2>6 DEF Won, TypeOK
    <3> QED BY <1>13, <2>6, <3>1, WritesLate
  <2> QED BY <2>5, <2>6
<1>14. ASSUME NEW c \in Call, PassesOn(c) PROVE GuardInv'
  BY <1>14 DEF PassesOn, storeVars, history, TypeOK, Claiming, Settling,
    PlaceInv, ClockInv, RecordInv, GuardInv, Won
<1>15. ASSUME Tick PROVE GuardInv'
  BY <1>15 DEF Tick, storeVars, history, TypeOK, Claiming, Settling, PlaceInv,
    ClockInv, RecordInv, GuardInv, Won
<1>16. ASSUME TtlRemove PROVE GuardInv'
  BY <1>16 DEF TtlRemove, NoRecord, history, TypeOK, Claiming, Settling,
    PlaceInv, ClockInv, RecordInv, GuardInv, Won
<1>17. ASSUME NEW r \in Replica, Crash(r) PROVE GuardInv'
  BY <1>17 DEF Crash, Forget, TypeOK, Claiming, Settling, PlaceInv, ClockInv,
    RecordInv, GuardInv, Won
<1>18. ASSUME UNCHANGED vars PROVE GuardInv'
  BY <1>18 DEF vars, storeVars, history, TypeOK, Claiming, Settling, PlaceInv,
    ClockInv, RecordInv, GuardInv, Won
<1> QED BY <1>1, <1>2, <1>3, <1>4, <1>5, <1>6, <1>7, <1>8, <1>9, <1>10, <1>11,
  <1>12, <1>13, <1>14, <1>15, <1>16, <1>17, <1>18, ClaimSteps DEF Next,
  GatewayStep, StoreStep, Finished

\* A new winner comes after the lifetime of the earlier ones.
LEMMA ApartStep ==
  ASSUME TypeOK, PlaceInv, ClockInv, RecordInv, GuardInv, ApartInv,
    [Next]_vars
  PROVE  ApartInv'
<1>1. ASSUME NEW c \in Call, Refuse(c) PROVE ApartInv'
  BY <1>1 DEF Refuse, Record, Goto, storeVars, history, TypeOK, Claiming,
    Settling, PlaceInv, ClockInv, RecordInv, GuardInv, ApartInv, Won
<1>2. ASSUME NEW c \in Call, LoadTarget(c) PROVE ApartInv'
  BY <1>2 DEF LoadTarget, Goto, storeVars, history, TypeOK, Claiming,
    Settling, PlaceInv, ClockInv, RecordInv, GuardInv, ApartInv, Won
<1>3. ASSUME NEW c \in Call, Return(c) PROVE ApartInv'
  BY <1>3 DEF Return, Record, Forget, Goto, TypeOK, Claiming, Settling,
    PlaceInv, ClockInv, RecordInv, GuardInv, ApartInv, Won
<1>4. ASSUME NEW c \in Call, BeginClaim(c) PROVE ApartInv'
  BY <1>4, Clocks DEF BeginClaim, Goto, TypeOK, Claiming, Settling, PlaceInv,
    ClockInv, RecordInv, GuardInv, ApartInv, Won
<1>5. ASSUME NEW c \in Call, Read(c) PROVE ApartInv'
  BY <1>5, Clocks DEF Read, Goto, history, TypeOK, Claiming, Settling,
    PlaceInv, ClockInv, RecordInv, GuardInv, ApartInv, Won
<1>6. ASSUME NEW c \in Call, Remember(c) PROVE ApartInv'
  BY <1>6 DEF Remember, Goto, history, TypeOK, Claiming, Settling, PlaceInv,
    ClockInv, RecordInv, GuardInv, ApartInv, Won
<1>7. ASSUME NEW c \in Call, ClaimFails(c) PROVE ApartInv'
  BY <1>7 DEF ClaimFails, Goto, storeVars, history, TypeOK, Claiming,
    Settling, PlaceInv, ClockInv, RecordInv, GuardInv, ApartInv, Won
<1>8. ASSUME NEW c \in Call, RunMethod(c) PROVE ApartInv'
  BY <1>8 DEF RunMethod, Goto, storeVars, TypeOK, Claiming, Settling,
    PlaceInv, ClockInv, RecordInv, GuardInv, ApartInv, Won
<1>9. ASSUME NEW c \in Call, Settle(c) PROVE ApartInv'
  BY <1>9, Clocks DEF Settle, Goto, TypeOK, Claiming, Settling, PlaceInv,
    ClockInv, RecordInv, GuardInv, ApartInv, Won
<1>10. ASSUME NEW c \in Call, Complete(c) PROVE ApartInv'
  BY <1>10 DEF Complete, OwnedInProgress, Goto, history, TypeOK, Claiming,
    Settling, PlaceInv, ClockInv, RecordInv, GuardInv, ApartInv, Won
<1>11. ASSUME NEW c \in Call, Release(c) PROVE ApartInv'
  BY <1>11 DEF Release, OwnedInProgress, Goto, history, NoRecord, TypeOK,
    Claiming, Settling, PlaceInv, ClockInv, RecordInv, GuardInv, ApartInv, Won
<1>12. ASSUME NEW c \in Call, SettleFails(c) PROVE ApartInv'
  BY <1>12 DEF SettleFails, Goto, storeVars, history, TypeOK, Claiming,
    Settling, PlaceInv, ClockInv, RecordInv, GuardInv, ApartInv, Won
<1>13. ASSUME NEW c \in Call, Writes(c) PROVE ApartInv'
  <2>1. PICK label \in {"remember", "answer"} : pc' = [pc EXCEPT ![c] = label]
    BY <1>13 DEF Writes
  <2>2. pc[c] \in {"insert", "takeover"} /\ at' = [at EXCEPT ![c] = time]
    BY <1>13 DEF Writes
  <2>3. UNCHANGED <<time, now, events, since, ran>>
    BY <1>13 DEF Writes
  <2>4. \A d \in Call \ {c} : Won(d)' => /\ Won(d) /\ at'[d] = at[d]
                                         /\ since[d] + Ttl <= at'[c] + MaxSkew
    <3> SUFFICES ASSUME NEW d \in Call, d # c, Won(d)'
                 PROVE  Won(d) /\ at'[d] = at[d] /\ since[d] + Ttl <= at'[c] + MaxSkew
      OBVIOUS
    <3>1. Won(d)
      BY <2>1, <2>3 DEF Won, TypeOK
    <3>2. at'[c] = time /\ at'[d] = at[d]
      BY <2>2 DEF TypeOK
    <3> QED BY <1>13, <3>1, <3>2, WritesLate
  <2> SUFFICES ASSUME NEW d \in Call, NEW e \in Call, d # e, Won(d)', Won(e)'
               PROVE  \/ since[d] + Ttl <= at'[e] + MaxSkew
                      \/ since[e] + Ttl <= at'[d] + MaxSkew
    BY <2>3 DEF ApartInv
  <2> QED BY <2>4 DEF ApartInv
<1>14. ASSUME NEW c \in Call, PassesOn(c) PROVE ApartInv'
  BY <1>14 DEF PassesOn, storeVars, history, TypeOK, Claiming, Settling,
    PlaceInv, ClockInv, RecordInv, GuardInv, ApartInv, Won
<1>15. ASSUME Tick PROVE ApartInv'
  BY <1>15 DEF Tick, storeVars, history, TypeOK, Claiming, Settling, PlaceInv,
    ClockInv, RecordInv, GuardInv, ApartInv, Won
<1>16. ASSUME TtlRemove PROVE ApartInv'
  BY <1>16 DEF TtlRemove, NoRecord, history, TypeOK, Claiming, Settling,
    PlaceInv, ClockInv, RecordInv, GuardInv, ApartInv, Won
<1>17. ASSUME NEW r \in Replica, Crash(r) PROVE ApartInv'
  BY <1>17 DEF Crash, Forget, TypeOK, Claiming, Settling, PlaceInv, ClockInv,
    RecordInv, GuardInv, ApartInv, Won
<1>18. ASSUME UNCHANGED vars PROVE ApartInv'
  BY <1>18 DEF vars, storeVars, history, TypeOK, Claiming, Settling, PlaceInv,
    ClockInv, RecordInv, GuardInv, ApartInv, Won
<1> QED BY <1>1, <1>2, <1>3, <1>4, <1>5, <1>6, <1>7, <1>8, <1>9, <1>10, <1>11,
  <1>12, <1>13, <1>14, <1>15, <1>16, <1>17, <1>18, ClaimSteps DEF Next,
  GatewayStep, StoreStep, Finished

\* The memory of a live claim is lost to a late settlement only.
LEMMA MemoryStep ==
  ASSUME OpTimeout + MaxSkew < Ttl, TypeOK, PlaceInv, ClockInv, RecordInv,
    GuardInv, MemoryInv, [Next]_vars
  PROVE  MemoryInv'
<1>1. ASSUME NEW c \in Call, Refuse(c) PROVE MemoryInv'
  BY <1>1 DEF Refuse, Record, Goto, storeVars, history, TypeOK, Claiming,
    Settling, PlaceInv, ClockInv, RecordInv, GuardInv, MemoryInv, Won,
    ClockOf, Clock, Replica
<1>2. ASSUME NEW c \in Call, LoadTarget(c) PROVE MemoryInv'
  BY <1>2 DEF LoadTarget, Goto, storeVars, history, TypeOK, Claiming,
    Settling, PlaceInv, ClockInv, RecordInv, GuardInv, MemoryInv, Won,
    ClockOf, Clock, Replica
<1>3. ASSUME NEW c \in Call, Return(c) PROVE MemoryInv'
  BY <1>3 DEF Return, Record, Forget, Goto, TypeOK, Claiming, Settling,
    PlaceInv, ClockInv, RecordInv, GuardInv, MemoryInv, Won, ClockOf, Clock,
    Replica
<1>4. ASSUME NEW c \in Call, BeginClaim(c) PROVE MemoryInv'
  <2> SUFFICES ASSUME NEW d \in Call, pc'[d] \in {"claimed", "running"},
                      record.first = d, ReplicaOf[d] \notin late
               PROVE  record.expires <= owned'[ReplicaOf[d]] \/ record.expires <= ClockOf(d)
    BY <1>4 DEF BeginClaim, MemoryInv, ClockOf, Clock
  <2>1. pc[d] \in {"claimed", "running"}
    BY <1>4 DEF BeginClaim, Goto, TypeOK
  <2>2. record.expires <= owned[ReplicaOf[d]] \/ record.expires <= ClockOf(d)
    BY <2>1 DEF MemoryInv
  <2>3. CASE ReplicaOf[d] = ReplicaOf[c] /\ owned[ReplicaOf[c]] <= ClockOf(c)
    <3>1. ClockOf(d) = ClockOf(c)
      BY <2>3 DEF ClockOf
    <3>2. ClockOf(c) \in Nat /\ owned[ReplicaOf[c]] \in Nat /\ record.expires \in Nat
      BY Clocks DEF TypeOK
    <3> QED BY <2>2, <2>3, <3>1, <3>2
  <2>4. CASE ~(ReplicaOf[d] = ReplicaOf[c] /\ owned[ReplicaOf[c]] <= ClockOf(c))
    <3>1. owned'[ReplicaOf[d]] = owned[ReplicaOf[d]]
      BY <1>4, <2>4, Clocks DEF BeginClaim, TypeOK
    <3> QED BY <2>2, <3>1
  <2> QED BY <2>3, <2>4
<1>5. ASSUME NEW c \in Call, Read(c) PROVE MemoryInv'
  BY <1>5, Clocks DEF Read, Goto, history, TypeOK, Claiming, Settling,
    PlaceInv, ClockInv, RecordInv, GuardInv, MemoryInv, Won, ClockOf, Clock,
    Replica
<1>6. ASSUME NEW c \in Call, Remember(c) PROVE MemoryInv'
  BY <1>6 DEF Remember, Goto, history, TypeOK, Claiming, Settling, PlaceInv,
    ClockInv, RecordInv, GuardInv, MemoryInv, Won, ClockOf, Clock, Replica
<1>7. ASSUME NEW c \in Call, ClaimFails(c) PROVE MemoryInv'
  BY <1>7 DEF ClaimFails, Goto, storeVars, history, TypeOK, Claiming,
    Settling, PlaceInv, ClockInv, RecordInv, GuardInv, MemoryInv, Won,
    ClockOf, Clock, Replica
<1>8. ASSUME NEW c \in Call, RunMethod(c) PROVE MemoryInv'
  BY <1>8 DEF RunMethod, Goto, storeVars, TypeOK, Claiming, Settling,
    PlaceInv, ClockInv, RecordInv, GuardInv, MemoryInv, Won, ClockOf, Clock,
    Replica
<1>9. ASSUME NEW c \in Call, Settle(c) PROVE MemoryInv'
  BY <1>9, Clocks DEF Settle, Goto, TypeOK, Claiming, Settling, PlaceInv,
    ClockInv, RecordInv, GuardInv, MemoryInv, Won, ClockOf, Clock, Replica
<1>10. ASSUME NEW c \in Call, Complete(c) PROVE MemoryInv'
  BY <1>10 DEF Complete, OwnedInProgress, Goto, history, TypeOK, Claiming,
    Settling, PlaceInv, ClockInv, RecordInv, GuardInv, MemoryInv, Won,
    ClockOf, Clock, Replica
<1>11. ASSUME NEW c \in Call, Release(c) PROVE MemoryInv'
  BY <1>11 DEF Release, OwnedInProgress, Goto, history, NoRecord, TypeOK,
    Claiming, Settling, PlaceInv, ClockInv, RecordInv, GuardInv, MemoryInv,
    Won, ClockOf, Clock, Replica
<1>12. ASSUME NEW c \in Call, SettleFails(c) PROVE MemoryInv'
  BY <1>12 DEF SettleFails, Goto, storeVars, history, TypeOK, Claiming,
    Settling, PlaceInv, ClockInv, RecordInv, GuardInv, MemoryInv, Won,
    ClockOf, Clock, Replica
<1>13. ASSUME NEW c \in Call, Writes(c) PROVE MemoryInv'
  BY <1>13 DEF Writes, Fresh, TypeOK, Claiming, Settling, PlaceInv, ClockInv,
    RecordInv, GuardInv, MemoryInv, Won, ClockOf, Clock, Replica
<1>14. ASSUME NEW c \in Call, PassesOn(c) PROVE MemoryInv'
  BY <1>14 DEF PassesOn, storeVars, history, TypeOK, Claiming, Settling,
    PlaceInv, ClockInv, RecordInv, GuardInv, MemoryInv, Won, ClockOf, Clock,
    Replica
<1>15. ASSUME Tick PROVE MemoryInv'
  BY <1>15 DEF Tick, storeVars, history, TypeOK, Claiming, Settling, PlaceInv,
    ClockInv, RecordInv, GuardInv, MemoryInv, Won, ClockOf, Clock, Replica
<1>16. ASSUME TtlRemove PROVE MemoryInv'
  BY <1>16 DEF TtlRemove, NoRecord, history, TypeOK, Claiming, Settling,
    PlaceInv, ClockInv, RecordInv, GuardInv, MemoryInv, Won, ClockOf, Clock,
    Replica
<1>17. ASSUME NEW r \in Replica, Crash(r) PROVE MemoryInv'
  BY <1>17 DEF Crash, Forget, TypeOK, Claiming, Settling, PlaceInv, ClockInv,
    RecordInv, GuardInv, MemoryInv, Won, ClockOf, Clock, Replica
<1>18. ASSUME UNCHANGED vars PROVE MemoryInv'
  BY <1>18 DEF vars, storeVars, history, TypeOK, Claiming, Settling, PlaceInv,
    ClockInv, RecordInv, GuardInv, MemoryInv, Won, ClockOf, Clock, Replica
<1> QED BY <1>1, <1>2, <1>3, <1>4, <1>5, <1>6, <1>7, <1>8, <1>9, <1>10, <1>11,
  <1>12, <1>13, <1>14, <1>15, <1>16, <1>17, <1>18, ClaimSteps DEF Next,
  GatewayStep, StoreStep, Finished

-----------------------------------------------------------------------------
(***************************************************************************)
(* The theorems.                                                           *)
(***************************************************************************)

\* Nothing has happened when the program starts.
LEMMA InitInv == Init => IInv /\ MemoryInv
<1> SUFFICES ASSUME Init PROVE IInv /\ MemoryInv
  OBVIOUS
<1>1. TypeOK
  BY DEF Init, TypeOK, PC, State, NoRecord
<1>2. PlaceInv /\ ClockInv /\ RecordInv /\ ResponseOfFirst
  BY DEF Init, PlaceInv, ClockInv, RecordInv, ResponseOfFirst, NoRecord, Claiming
<1>3. GuardInv /\ ApartInv /\ MemoryInv
  BY DEF Init, GuardInv, ApartInv, MemoryInv, Won
<1> QED BY <1>1, <1>2, <1>3 DEF IInv

\* No step leaves the invariant.
LEMMA NextInv == IInv /\ [Next]_vars => IInv'
<1> SUFFICES ASSUME IInv, [Next]_vars PROVE IInv'
  OBVIOUS
<1>1. TypeOK /\ PlaceInv /\ ClockInv /\ RecordInv /\ ResponseOfFirst /\ GuardInv /\ ApartInv
  BY DEF IInv
<1>2. TypeOK' /\ PlaceInv' /\ ClockInv' /\ RecordInv'
  BY <1>1, TypeStep, PlaceStep, ClockStep, RecordStep
<1>3. ResponseOfFirst' /\ GuardInv' /\ ApartInv'
  BY <1>1, ResponseStep, GuardStep, ApartStep
<1> QED BY <1>2, <1>3 DEF IInv

\* The invariant the properties follow from holds of every state a call, a
\* retry, a crash or the TTL monitor of the idempotency store can lead to.
THEOREM InductiveInvariant == Spec => []IInv
BY InitInv, NextInv, PTL DEF Spec

\* The state of the store and the gateway keeps its types: no claim makes more
\* than MaxAttempts rounds.
THEOREM TypeCorrect == Spec => []TypeOK
<1>1. IInv => TypeOK
  BY DEF IInv
<1> QED BY <1>1, InductiveInvariant, PTL

\* The method of a key runs once within the lifetime of its record, whatever
\* replicas serve the call and its retries.
THEOREM OneRunPerLifetimeHolds == Spec => []OneRunPerLifetime
<1>1. IInv => OneRunPerLifetime
  BY DEF IInv, TypeOK, ApartInv, Won, OneRunPerLifetime
<1> QED BY <1>1, InductiveInvariant, PTL

\* A replayed response is the one of the call that took the claim.
THEOREM ResponseOfFirstHolds == Spec => []ResponseOfFirst
<1>1. IInv => ResponseOfFirst
  BY DEF IInv
<1> QED BY <1>1, InductiveInvariant, PTL

\* Gateway and pipeline together record every call that was answered once.
THEOREM AuditedOnceHolds == Spec => []AuditedOnce
<1>1. IInv => AuditedOnce
  BY DEF IInv, PlaceInv, AuditedOnce
<1> QED BY <1>1, InductiveInvariant, PTL

\* With a lifetime that outlasts one claim and the clocks' difference, the
\* replica that claimed a key can settle it as long as the record lives.
THEOREM InFlightRememberedHolds ==
  ASSUME OpTimeout + MaxSkew < Ttl
  PROVE  Spec => []InFlightRemembered
<1>1. IInv /\ MemoryInv /\ [Next]_vars => MemoryInv'
  <2> SUFFICES ASSUME IInv, MemoryInv, [Next]_vars PROVE MemoryInv'
    OBVIOUS
  <2> QED BY MemoryStep DEF IInv
<1>2. IInv /\ MemoryInv => InFlightRemembered
  <2> SUFFICES ASSUME IInv, MemoryInv, NEW c \in Call,
                      pc[c] \in {"claimed", "running"}, record.first = c,
                      record.expires > ClockOf(c), ReplicaOf[c] \notin late
               PROVE  owned[ReplicaOf[c]] # 0
    BY DEF InFlightRemembered
  <2>1. ClockOf(c) \in Nat /\ record.expires \in Nat /\ ReplicaOf[c] \in Replica
    BY Clocks DEF IInv, TypeOK
  <2>2. record.expires <= owned[ReplicaOf[c]]
    BY <2>1 DEF MemoryInv
  <2> QED BY <2>1, <2>2
<1> QED BY <1>1, <1>2, InitInv, InductiveInvariant, PTL DEF Spec

\* A record is replaced and removed only after it has expired by some clock.
LEMMA ExpiredBefore ==
  ASSUME TypeOK, ClockInv, TtlRemove \/ \E c \in Call : Writes(c)
  PROVE  record = NoRecord \/ record.expires <= time + MaxSkew
<1>1. CASE TtlRemove
  BY <1>1, Numbers DEF TtlRemove
<1>2. ASSUME NEW c \in Call, Writes(c), record # NoRecord
      PROVE  record.expires <= time + MaxSkew
  <2>1. record.expires <= now[c] /\ now[c] <= time + MaxSkew
    BY <1>2 DEF Writes, ClockInv, Claiming
  <2>2. now[c] \in Nat
    BY Numbers
  <2> QED BY <2>1, <2>2, Numbers
<1> QED BY <1>1, <1>2

\* A stored result is changed by nothing before it expires: a late settlement,
\* a takeover by a retry and the TTL monitor all leave it alone.
THEOREM ResultStandsHolds == Spec => ResultStands
<1>1. IInv /\ [Next]_vars =>
        (record # NoRecord /\ record.state # "in progress" /\ record' # record =>
           record.expires <= time + MaxSkew)
  <2> SUFFICES ASSUME IInv, [Next]_vars, record # NoRecord,
                      record.state # "in progress", record' # record
               PROVE  record.expires <= time + MaxSkew
    OBVIOUS
  <2>1. TypeOK /\ ClockInv
    BY DEF IInv
  <2>2. CASE TtlRemove \/ \E c \in Call : Writes(c)
    BY <2>1, <2>2, ExpiredBefore
  <2>3. ASSUME NEW c \in Call, Complete(c) \/ Release(c) PROVE FALSE
    BY <2>3 DEF Complete, Release, OwnedInProgress
  <2> QED
    BY <2>2, <2>3, ClaimSteps
    DEF Next, GatewayStep, StoreStep, Finished, vars, storeVars, Refuse, LoadTarget, Return,
        BeginClaim, PassesOn, Read, Remember, ClaimFails, RunMethod, Settle, SettleFails, Tick,
        Crash
<1> QED BY <1>1, InductiveInvariant, PTL DEF Spec, ResultStands
=============================================================================
