-------------------------- MODULE NameLocksProofs ---------------------------
(***************************************************************************)
(* Proofs about NameLocks for any number of requests, replicas and keys,   *)
(* any number of calls per request, and any limits that satisfy            *)
(* LimitAssumption.                                                        *)
(***************************************************************************)
EXTENDS NameLocks, FiniteSetTheorems, TLAPS

USE KeyAssumption, SessionAssumption, FlagAssumption, LimitAssumption

-----------------------------------------------------------------------------
(***************************************************************************)
(* What a step does to the slots of a replica.                             *)
(***************************************************************************)

OwnersKept(S) == \A t \in S : Owns(t)' = Owns(t) /\ Uses(t)' = Uses(t)

KeepsSlots == slotVars' = slotVars /\ leaked' = leaked /\ OwnersKept(Session)

EntersSlot(s, k) ==
  /\ k \in Key \ Uses(s)
  /\ users' = [users EXCEPT ![ReplicaOf[s]][k] = @ + 1]
  /\ sem' = [sem EXCEPT ![ReplicaOf[s]][k] = @ \/ users[ReplicaOf[s]][k] = 0]
  /\ leaked' = leaked
  /\ OwnersKept(Session \ {s})
  /\ Owns(s)' = Owns(s)
  /\ Uses(s)' = Uses(s) \cup {k}

TakesSlot(s, k) ==
  /\ k \in Uses(s) \cap Key
  /\ sem[ReplicaOf[s]][k]
  /\ sem' = [sem EXCEPT ![ReplicaOf[s]][k] = FALSE]
  /\ users' = users
  /\ leaked' = leaked
  /\ OwnersKept(Session \ {s})
  /\ Owns(s)' = Owns(s) \cup {k}
  /\ Uses(s)' = Uses(s)

LeavesSlot(s, k) ==
  /\ k \in (Uses(s) \ Owns(s)) \cap Key
  /\ users' = [users EXCEPT ![ReplicaOf[s]][k] = @ - 1]
  /\ sem' = sem
  /\ leaked' = leaked
  /\ OwnersKept(Session \ {s})
  /\ Owns(s)' = Owns(s)
  /\ Uses(s)' = Uses(s) \ {k}

ExitsSlot(s, k) ==
  /\ k \in Owns(s) \cap Key
  /\ users' = [users EXCEPT ![ReplicaOf[s]][k] = @ - 1]
  /\ sem' = [sem EXCEPT ![ReplicaOf[s]][k] = TRUE]
  /\ leaked' = leaked
  /\ OwnersKept(Session \ {s})
  /\ Owns(s)' = Owns(s) \ {k}
  /\ Uses(s)' = Uses(s) \ {k}

LeaksSlots(s) ==
  /\ slotVars' = slotVars
  /\ OwnersKept(Session \ {s})
  /\ \E L \in SUBSET Owns(s) :
       /\ leaked' = [leaked EXCEPT ![s] = @ \cup L]
       /\ Owns(s)' = Owns(s) \ L
  /\ Uses(s) = Owns(s)
  /\ (Uses(s) = Owns(s))'

LosesSlots(r) ==
  /\ users' = [users EXCEPT ![r] = [k \in Key |-> 0]]
  /\ sem' = [sem EXCEPT ![r] = [k \in Key |-> TRUE]]
  /\ OwnersKept({t \in Session : ReplicaOf[t] # r})
  /\ \A s \in Session : leaked'[s] = IF ReplicaOf[s] = r THEN {} ELSE leaked[s]
  /\ \A s \in Session : ReplicaOf[s] = r => Owns(s)' = {} /\ Uses(s)' = {}

SlotStep ==
  \/ KeepsSlots
  \/ \E s \in Session : LeaksSlots(s)
  \/ \E s \in Session, k \in Key :
       EntersSlot(s, k) \/ TakesSlot(s, k) \/ LeavesSlot(s, k) \/ ExitsSlot(s, k)
  \/ \E r \in Replica : LosesSlots(r)

\* Every step of a request, of MongoDB or of a replica is one of these.
LEMMA SlotSteps == TypeOK /\ PlaceInv /\ [Next]_vars => SlotStep
<1> SUFFICES ASSUME TypeOK, PlaceInv, [Next]_vars PROVE SlotStep
  OBVIOUS
<1> USE DEF OwnersKept, Owns, Uses
<1>1. ASSUME NEW s \in Session, StartTransaction(s) PROVE KeepsSlots
  BY <1>1 DEF StartTransaction, KeepsSlots, TypeOK, callVars, holdVars, slotVars
<1>2. ASSUME NEW s \in Session, FirstOperation(s) PROVE KeepsSlots
  BY <1>2 DEF FirstOperation, KeepsSlots, TypeOK, callVars, holdVars, slotVars
<1>3. ASSUME NEW s \in Session, EndTransaction(s) PROVE KeepsSlots
  BY <1>3 DEF EndTransaction, KeepsSlots, TypeOK, Goto, callVars, holdVars, slotVars
<1>4. ASSUME NEW s \in Session, Throw(s) PROVE KeepsSlots
  BY <1>4 DEF Throw, KeepsSlots, TypeOK, Goto, callVars, holdVars, slotVars
<1>5. ASSUME NEW s \in Session, NEW keys \in SUBSET Key, Acquire(s, keys) PROVE KeepsSlots
  BY <1>5 DEF Acquire, KeepsSlots, TypeOK, Goto, holdVars, slotVars
<1>6. ASSUME NEW s \in Session, NEW k \in Key, Enter(s, k) PROVE EntersSlot(s, k)
  BY <1>6 DEF Enter, EntersSlot, TypeOK, PlaceInv, InLoop, Goto, holdVars
<1>7. ASSUME NEW s \in Session, TakeSlot(s) PROVE TakesSlot(s, cur[s]) /\ cur[s] \in Key
  BY <1>7 DEF TakeSlot, Taken, TakesSlot, TypeOK, PlaceInv, AtKey, Goto
<1>8. ASSUME NEW s \in Session, GiveUpSlot(s) PROVE LeavesSlot(s, cur[s]) /\ cur[s] \in Key
  BY <1>8 DEF GiveUpSlot, LeaveSlot, Fail, LeavesSlot, TypeOK, PlaceInv, AtKey, Goto, holdVars
<1>9. ASSUME NEW s \in Session, LeaseTake(s) PROVE KeepsSlots
  BY <1>9 DEF LeaseTake, Taken, KeepsSlots, TypeOK, Goto, slotVars
<1>10. ASSUME NEW s \in Session, LeaseGiveUp(s) PROVE ExitsSlot(s, cur[s]) /\ cur[s] \in Key
  BY <1>10 DEF LeaseGiveUp, ExitSlot, LeaveSlot, Fail, ExitsSlot, TypeOK, PlaceInv, AtKey, Goto, holdVars
<1>11. ASSUME NEW s \in Session, LeaseAckLost(s) PROVE ExitsSlot(s, cur[s]) /\ cur[s] \in Key
  BY <1>11 DEF LeaseAckLost, ExitSlot, LeaveSlot, Fail, ExitsSlot, TypeOK, PlaceInv, AtKey, Goto, holdVars
<1>12. ASSUME NEW s \in Session, AcquireReturns(s) PROVE KeepsSlots
  BY <1>12 DEF AcquireReturns, KeepsSlots, TypeOK, PlaceInv, InLoop, Goto, holdVars, slotVars
<1>13. ASSUME NEW s \in Session, Release(s) PROVE KeepsSlots
  BY <1>13 DEF Release, KeepsSlots, TypeOK, PlaceInv, Goto, slotVars
<1>14. ASSUME NEW s \in Session, NEW k \in Key, Drop(s, k) PROVE ExitsSlot(s, k)
  BY <1>14 DEF Drop, ExitSlot, LeaveSlot, ExitsSlot, TypeOK, PlaceInv
<1>15. ASSUME NEW s \in Session, NEW k \in Key, DropLeased(s, k) PROVE KeepsSlots
  BY <1>15 DEF DropLeased, KeepsSlots, TypeOK, PlaceInv, Goto, slotVars
<1>16. ASSUME NEW s \in Session, LeaseRelease(s) PROVE KeepsSlots
  BY <1>16 DEF LeaseRelease, KeepsSlots, TypeOK, Goto, callVars, holdVars, slotVars
<1>17. ASSUME NEW s \in Session, Exit(s) PROVE ExitsSlot(s, cur[s]) /\ cur[s] \in Key
  BY <1>17 DEF Exit, ExitSlot, LeaveSlot, ExitsSlot, TypeOK, PlaceInv, AtKey, Goto, holdVars
<1>18. ASSUME NEW s \in Session, DropEnds(s) PROVE KeepsSlots
  BY <1>18 DEF DropEnds, LoopEnds, KeepsSlots, TypeOK, Goto, callVars, holdVars, slotVars
<1>19. ASSUME NEW s \in Session, LeaseReleaseThrows(s) PROVE LeaksSlots(s)
  <2> DEFINE L == {cur[s]} \cup (batch[s] \ holds[s])
  <2>1. /\ pc[s] = "unlease" /\ cur[s] \notin holds[s]
        /\ pc' \in [Session -> PC] /\ pc'[s] \in {"done", "work"}
        /\ \A t \in Session \ {s} : pc'[t] = pc[t]
    BY <1>19 DEF LeaseReleaseThrows, LoopEnds, TypeOK, PlaceInv, AtKey, Goto, PC
  <2>2. slotVars' = slotVars /\ OwnersKept(Session \ {s})
    BY <1>19, <2>1 DEF LeaseReleaseThrows, TypeOK, slotVars
  <2>3. L \in SUBSET Owns(s) /\ leaked' = [leaked EXCEPT ![s] = @ \cup L]
    BY <1>19, <2>1 DEF LeaseReleaseThrows, TypeOK
  <2>4. Owns(s)' = Owns(s) \ L
    BY <1>19, <2>1 DEF LeaseReleaseThrows, TypeOK
  <2>5. Uses(s) = Owns(s) /\ (Uses(s) = Owns(s))'
    BY <2>1
  <2> QED BY <2>2, <2>3, <2>4, <2>5 DEF LeaksSlots
<1>20. ASSUME NEW s \in Session, TxLimitAbort(s) PROVE KeepsSlots
  BY <1>20 DEF TxLimitAbort, KeepsSlots, callVars, holdVars, slotVars
<1>21. ASSUME Tick PROVE KeepsSlots
  BY <1>21 DEF Tick, KeepsSlots, callVars, holdVars, slotVars
<1>22. ASSUME NEW k \in Key, TtlRemove(k) PROVE KeepsSlots
  BY <1>22 DEF TtlRemove, KeepsSlots, callVars, holdVars, slotVars
<1>23. ASSUME NEW r \in Replica, Crash(r) PROVE LosesSlots(r)
  <2>1. \A s \in Session : ReplicaOf[s] # r => pc'[s] = pc[s] /\ cur'[s] = cur[s]
    BY <1>23 DEF Crash, TypeOK
  <2>2. \A s \in Session : ReplicaOf[s] = r => pc'[s] \in {"work", "done"}
    BY <1>23 DEF Crash, Begun, TypeOK
  <2>3. \A s \in Session :
          /\ batch'[s] = IF ReplicaOf[s] = r THEN {} ELSE batch[s]
          /\ holds'[s] = IF ReplicaOf[s] = r THEN {} ELSE holds[s]
          /\ leaked'[s] = IF ReplicaOf[s] = r THEN {} ELSE leaked[s]
    BY <1>23 DEF Crash, TypeOK
  <2>4. OwnersKept({t \in Session : ReplicaOf[t] # r})
    BY <2>1, <2>3
  <2>5. \A s \in Session : ReplicaOf[s] = r => Owns(s)' = {} /\ Uses(s)' = {}
    BY <2>2, <2>3
  <2> QED BY <1>23, <2>3, <2>4, <2>5 DEF Crash, LosesSlots
<1>24. ASSUME UNCHANGED vars PROVE KeepsSlots
  BY <1>24 DEF KeepsSlots, vars, callVars, holdVars, slotVars
<1> HIDE DEF OwnersKept, Owns, Uses
<1>25. ASSUME NEW s \in Session, HandlerStep(s) PROVE SlotStep
  BY <1>25, <1>1, <1>2, <1>3, <1>4, <1>5 DEF HandlerStep, SlotStep
<1>26. ASSUME NEW s \in Session, AcquireStep(s) PROVE SlotStep
  BY <1>26, <1>6, <1>7, <1>8, <1>9, <1>10, <1>11, <1>12 DEF AcquireStep, SlotStep
<1>27. ASSUME NEW s \in Session, ReleaseStep(s) PROVE SlotStep
  BY <1>27, <1>13, <1>14, <1>15, <1>16, <1>17, <1>18, <1>19 DEF ReleaseStep, SlotStep
<1> QED
  BY <1>20, <1>21, <1>22, <1>23, <1>24, <1>25, <1>26, <1>27 DEF Next, Finished, SlotStep

-----------------------------------------------------------------------------
(***************************************************************************)
(* Semaphores and user counts.                                             *)
(***************************************************************************)

LEMMA CountsAreFinite ==
  ASSUME NEW r, NEW k
  PROVE  /\ IsFiniteSet(UsersOf(r, k)) /\ Cardinality(UsersOf(r, k)) \in Nat
         /\ IsFiniteSet(LeakedIn(r, k)) /\ Cardinality(LeakedIn(r, k)) \in Nat
<1>1. UsersOf(r, k) \in SUBSET Session /\ LeakedIn(r, k) \in SUBSET Session
  BY DEF UsersOf, LeakedIn
<1> QED BY <1>1, FS_Subset, FS_CardinalityType

\* A slot that somebody waits on, owns or left behind is in use.
LEMMA UsedSlotCounts ==
  ASSUME SlotAccounting, NEW s \in Session, NEW k \in Key, k \in Uses(s) \cup Has(s)
  PROVE  users[ReplicaOf[s]][k] # 0
<1> DEFINE r == ReplicaOf[s]
<1>1. UsersOf(r, k) # {} \/ LeakedIn(r, k) # {}
  BY DEF UsersOf, LeakedIn, Has, Uses
<1>2. Cardinality(UsersOf(r, k)) # 0 \/ Cardinality(LeakedIn(r, k)) # 0
  BY <1>1, CountsAreFinite, FS_EmptySet
<1> QED BY <1>2, CountsAreFinite DEF SlotAccounting, Replica

\* A slot step keeps the semaphores in agreement with the owners.
LEMMA SemStep == TypeOK /\ PlaceInv /\ SemInv /\ SlotAccounting /\ SlotStep => SemInv'
<1> SUFFICES ASSUME TypeOK, PlaceInv, SemInv, SlotAccounting, SlotStep PROVE SemInv'
  OBVIOUS
<1> USE DEF Has
<1>0. \A t \in Session : Has(t) \subseteq Key
  BY DEF Owns, TypeOK, PlaceInv, AtKey
<1>1. CASE KeepsSlots
  BY <1>1 DEF KeepsSlots, slotVars, SemInv, OwnersKept
<1>2. ASSUME NEW s \in Session, LeaksSlots(s) PROVE SemInv'
  <2>1. \A t \in Session : Has(t)' = Has(t) /\ (Owns(t) \cap leaked[t] = {})'
    BY <1>2 DEF LeaksSlots, SemInv, OwnersKept, TypeOK
  <2> QED BY <1>2, <2>1 DEF LeaksSlots, SemInv, slotVars
<1>3. ASSUME NEW s \in Session, NEW k \in Key, EntersSlot(s, k) PROVE SemInv'
  <2> DEFINE r == ReplicaOf[s]
  <2>1. \A t \in Session : Owns(t)' = Owns(t) /\ leaked'[t] = leaked[t]
    BY <1>3 DEF EntersSlot, OwnersKept
  <2>2. \A t \in Session : ReplicaOf[t] = r /\ k \in Has(t) => users[r][k] # 0
    BY UsedSlotCounts
  <2>3. \A t \in Session : \A j \in Has(t) : ~sem[ReplicaOf[t]][j]
    BY DEF SemInv
  <2>4. \A t \in Session : \A j \in Has(t) : ~sem'[ReplicaOf[t]][j]
    BY <1>0, <1>3, <2>2, <2>3 DEF EntersSlot, TypeOK, Replica
  <2> QED BY <2>1, <2>4 DEF SemInv
<1>4. ASSUME NEW s \in Session, NEW k \in Key, TakesSlot(s, k) PROVE SemInv'
  <2>1. \A t \in Session : ReplicaOf[t] = ReplicaOf[s] => k \notin Has(t)
    BY <1>4 DEF TakesSlot, SemInv
  <2>2. /\ Owns(s)' = Owns(s) \cup {k} /\ leaked' = leaked
        /\ \A t \in Session \ {s} : Owns(t)' = Owns(t)
    BY <1>4 DEF TakesSlot, OwnersKept
  <2>3. /\ ~sem'[ReplicaOf[s]][k]
        /\ \A q \in Replica, j \in Key :
             q # ReplicaOf[s] \/ j # k => sem'[q][j] = sem[q][j]
    <3>1. sem[ReplicaOf[s]] \in [Key -> BOOLEAN] /\ sem' = [sem EXCEPT ![ReplicaOf[s]][k] = FALSE]
      BY <1>4 DEF TakesSlot, TypeOK, Replica
    <3>2. ~sem'[ReplicaOf[s]][k]
      BY <3>1 DEF TypeOK, Replica
    <3>3. \A q \in Replica, j \in Key :
             q # ReplicaOf[s] \/ j # k => sem'[q][j] = sem[q][j]
      BY <3>1 DEF TypeOK, Replica
    <3> QED BY <3>2, <3>3
  <2>4. \A t \in Session : \A j \in Has(t)' : j \in Key /\ (j \in Has(t) \/ (j = k /\ t = s))
    <3>2. Has(s)' = Has(s) \cup {k}
      BY <2>2
    <3> SUFFICES ASSUME NEW t \in Session, NEW j \in Has(t)'
                 PROVE  j \in Key /\ (j \in Has(t) \/ (j = k /\ t = s))
      OBVIOUS
    <3>3. CASE t = s
      BY <1>0, <3>2, <3>3
    <3>4. CASE t # s
      <4>1. Owns(t)' = Owns(t) /\ leaked' = leaked
        BY <2>2, <3>4
      <4> QED BY <1>0, <4>1
    <3> QED BY <3>3, <3>4
  <2>5. \A t \in Session : \A j \in Has(t)' : ~sem'[ReplicaOf[t]][j]
    <3> SUFFICES ASSUME NEW t \in Session, NEW j \in Has(t)' PROVE ~sem'[ReplicaOf[t]][j]
      OBVIOUS
    <3>1. ReplicaOf[t] \in Replica /\ j \in Key
      BY <2>4 DEF Replica
    <3>2. j \in Has(t) => ~sem[ReplicaOf[t]][j]
      BY DEF SemInv
    <3> HIDE DEF Has
    <3> QED BY <2>2, <2>3, <2>4, <3>1, <3>2
  <2> QED BY <2>1, <2>2, <2>5 DEF SemInv
<1>5. ASSUME NEW s \in Session, NEW k \in Key, LeavesSlot(s, k) PROVE SemInv'
  BY <1>5 DEF LeavesSlot, SemInv, OwnersKept, TypeOK, Replica
<1>6. ASSUME NEW s \in Session, NEW k \in Key, ExitsSlot(s, k) PROVE SemInv'
  <2>1. /\ Owns(s)' = Owns(s) \ {k} /\ leaked' = leaked
        /\ \A t \in Session \ {s} : Owns(t)' = Owns(t)
    BY <1>6 DEF ExitsSlot, OwnersKept
  <2>2. \A t \in Session : ReplicaOf[t] = ReplicaOf[s] => k \notin Has(t)'
    BY <1>6, <2>1 DEF ExitsSlot, SemInv
  <2>3. \A q \in Replica, j \in Key :
          q # ReplicaOf[s] \/ j # k => sem'[q][j] = sem[q][j]
    BY <1>6 DEF ExitsSlot, TypeOK, Replica
  <2>4. \A t \in Session : \A j \in Has(t)' : j \in Has(t) /\ j \in Key
    BY <1>0, <2>1
  <2>5. \A t \in Session : \A j \in Has(t)' : ~sem'[ReplicaOf[t]][j]
    <3> SUFFICES ASSUME NEW t \in Session, NEW j \in Has(t)' PROVE ~sem'[ReplicaOf[t]][j]
      OBVIOUS
    <3>1. ReplicaOf[t] \in Replica /\ j \in Key
      BY <2>4 DEF Replica
    <3>2. j \in Has(t) => ~sem[ReplicaOf[t]][j]
      BY DEF SemInv
    <3> HIDE DEF Has
    <3> QED BY <2>2, <2>3, <2>4, <3>1, <3>2
  <2> QED BY <2>1, <2>5 DEF SemInv
<1>7. ASSUME NEW r \in Replica, LosesSlots(r) PROVE SemInv'
  BY <1>7 DEF LosesSlots, SemInv, OwnersKept, TypeOK, Replica
<1> QED BY <1>1, <1>2, <1>3, <1>4, <1>5, <1>6, <1>7 DEF SlotStep

\* A slot step keeps the user counts exact.
LEMMA CountStep ==
  TypeOK /\ SemInv /\ SlotAccounting /\ SlotStep =>
    SlotAccounting' /\ users' \in [Replica -> [Key -> Nat]] /\ sem' \in [Replica -> [Key -> BOOLEAN]]
<1> SUFFICES ASSUME TypeOK, SemInv, SlotAccounting, SlotStep
             PROVE  /\ SlotAccounting' /\ users' \in [Replica -> [Key -> Nat]]
                    /\ sem' \in [Replica -> [Key -> BOOLEAN]]
  OBVIOUS
<1> DEFINE Goal == /\ SlotAccounting' /\ users' \in [Replica -> [Key -> Nat]]
                   /\ sem' \in [Replica -> [Key -> BOOLEAN]]
<1>1. ASSUME KeepsSlots PROVE Goal
  <2>1. \A r \in Replica, k \in Key : UsersOf(r, k)' = UsersOf(r, k) /\ LeakedIn(r, k)' = LeakedIn(r, k)
    BY <1>1 DEF KeepsSlots, OwnersKept, UsersOf, LeakedIn
  <2> QED BY <1>1, <2>1 DEF KeepsSlots, slotVars, SlotAccounting, TypeOK
<1>2. ASSUME NEW s \in Session, LeaksSlots(s) PROVE Goal
  <2>1. PICK L \in SUBSET Owns(s) :
          leaked' = [leaked EXCEPT ![s] = @ \cup L] /\ Owns(s)' = Owns(s) \ L
    BY <1>2 DEF LeaksSlots
  <2>2. Uses(s) = Owns(s) /\ Uses(s)' = Owns(s)' /\ OwnersKept(Session \ {s})
    BY <1>2 DEF LeaksSlots
  <2>3. \A r \in Replica, k \in Key :
          Cardinality(UsersOf(r, k)') + Cardinality(LeakedIn(r, k)')
            = Cardinality(UsersOf(r, k)) + Cardinality(LeakedIn(r, k))
    <3> SUFFICES ASSUME NEW r \in Replica, NEW k \in Key
                 PROVE  Cardinality(UsersOf(r, k)') + Cardinality(LeakedIn(r, k)')
                          = Cardinality(UsersOf(r, k)) + Cardinality(LeakedIn(r, k))
      OBVIOUS
    <3>1. CASE r = ReplicaOf[s] /\ k \in L
      <4>1. UsersOf(r, k)' = UsersOf(r, k) \ {s} /\ s \in UsersOf(r, k)
        BY <2>1, <2>2, <3>1 DEF UsersOf, OwnersKept
      <4>2. LeakedIn(r, k)' = LeakedIn(r, k) \cup {s} /\ s \notin LeakedIn(r, k)
        BY <2>1, <2>2, <3>1 DEF LeakedIn, SemInv, TypeOK
      <4>3. Cardinality(UsersOf(r, k) \ {s}) = Cardinality(UsersOf(r, k)) - 1
        BY <4>1, CountsAreFinite, FS_RemoveElement
      <4>4. Cardinality(LeakedIn(r, k) \cup {s}) = Cardinality(LeakedIn(r, k)) + 1
        BY <4>2, CountsAreFinite, FS_AddElement
      <4> QED BY <4>1, <4>2, <4>3, <4>4, CountsAreFinite
    <3>2. CASE ~(r = ReplicaOf[s] /\ k \in L)
      <4>1. UsersOf(r, k)' = UsersOf(r, k)
        BY <2>1, <2>2, <3>2 DEF UsersOf, OwnersKept
      <4>2. LeakedIn(r, k)' = LeakedIn(r, k)
        BY <2>1, <3>2 DEF LeakedIn, TypeOK
      <4> QED BY <4>1, <4>2
    <3> QED BY <3>1, <3>2
  <2> QED BY <1>2, <2>3 DEF LeaksSlots, slotVars, SlotAccounting, TypeOK
<1>3. ASSUME NEW s \in Session, NEW k \in Key, EntersSlot(s, k) PROVE Goal
  <2> DEFINE r == ReplicaOf[s]
  <2>1. \A q \in Replica, j \in Key : LeakedIn(q, j)' = LeakedIn(q, j)
    BY <1>3 DEF EntersSlot, LeakedIn
  <2>2. \A q \in Replica, j \in Key : q # r \/ j # k => UsersOf(q, j)' = UsersOf(q, j)
    BY <1>3 DEF EntersSlot, UsersOf, OwnersKept
  <2>3. UsersOf(r, k)' = UsersOf(r, k) \cup {s} /\ s \notin UsersOf(r, k)
    BY <1>3 DEF EntersSlot, UsersOf, OwnersKept
  <2>4. Cardinality(UsersOf(r, k)') = Cardinality(UsersOf(r, k)) + 1
    BY <2>3, CountsAreFinite, FS_AddElement
  <2>5. users' \in [Replica -> [Key -> Nat]] /\ sem' \in [Replica -> [Key -> BOOLEAN]]
    <3>1. users' \in [Replica -> [Key -> Nat]]
      <4>1. users[r] \in [Key -> Nat]
        BY DEF TypeOK, Replica
      <4>2. users' = [users EXCEPT ![r] = [users[r] EXCEPT ![k] = users[r][k] + 1]]
        BY <1>3 DEF EntersSlot, TypeOK, Replica
      <4>3. [users[r] EXCEPT ![k] = users[r][k] + 1] \in [Key -> Nat]
        <5>1. users[r][k] + 1 \in Nat
          BY <4>1
        <5> QED BY <4>1, <5>1
      <4> QED BY <4>2, <4>3 DEF TypeOK
    <3>2. (sem[r][k] \/ users[r][k] = 0) \in BOOLEAN
      OBVIOUS
    <3>3. sem' \in [Replica -> [Key -> BOOLEAN]]
      BY <1>3, <3>2 DEF EntersSlot, TypeOK, Replica
    <3> QED BY <3>1, <3>3
  <2>6. \A q \in Replica, j \in Key :
          users'[q][j] = IF q = r /\ j = k THEN users[q][j] + 1 ELSE users[q][j]
    BY <1>3 DEF EntersSlot, TypeOK, Replica
  <2>7. SlotAccounting'
    BY <2>1, <2>2, <2>4, <2>6, CountsAreFinite DEF SlotAccounting, Replica
  <2> QED BY <2>5, <2>7
<1>4. ASSUME NEW s \in Session, NEW k \in Key, TakesSlot(s, k) PROVE Goal
  <2>1. \A r \in Replica, j \in Key : UsersOf(r, j)' = UsersOf(r, j) /\ LeakedIn(r, j)' = LeakedIn(r, j)
    BY <1>4 DEF TakesSlot, OwnersKept, UsersOf, LeakedIn
  <2> QED BY <1>4, <2>1 DEF TakesSlot, SlotAccounting, TypeOK, Replica
\* A session that leaves the slot of k, whether it owned it or waited on it.
<1>5. ASSUME NEW s \in Session, NEW k \in Key, k \in Uses(s),
             users' = [users EXCEPT ![ReplicaOf[s]][k] = @ - 1],
             sem' \in [Replica -> [Key -> BOOLEAN]],
             leaked' = leaked, OwnersKept(Session \ {s}), Uses(s)' = Uses(s) \ {k}
      PROVE  Goal
  <2> DEFINE r == ReplicaOf[s]
  <2>1. \A q \in Replica, j \in Key : LeakedIn(q, j)' = LeakedIn(q, j)
    BY <1>5 DEF LeakedIn
  <2>2. \A q \in Replica, j \in Key : q # r \/ j # k => UsersOf(q, j)' = UsersOf(q, j)
    BY <1>5 DEF UsersOf, OwnersKept
  <2>3. UsersOf(r, k)' = UsersOf(r, k) \ {s} /\ s \in UsersOf(r, k)
    BY <1>5 DEF UsersOf, OwnersKept
  <2>4. Cardinality(UsersOf(r, k) \ {s}) = Cardinality(UsersOf(r, k)) - 1
    BY <2>3, CountsAreFinite, FS_RemoveElement
  <2>5. users[r][k] \in Nat \ {0}
    <3>1. users[r][k] # 0
      BY <1>5, UsedSlotCounts
    <3> QED BY <3>1 DEF TypeOK, Replica
  <2>6. users' \in [Replica -> [Key -> Nat]]
    <3>1. users[r][k] - 1 \in Nat
      BY <2>5
    <3>2. users' = [users EXCEPT ![r] = [users[r] EXCEPT ![k] = users[r][k] - 1]]
      BY <1>5 DEF TypeOK, Replica
    <3>3. [users[r] EXCEPT ![k] = users[r][k] - 1] \in [Key -> Nat]
      BY <3>1 DEF TypeOK, Replica
    <3> QED BY <3>2, <3>3 DEF TypeOK
  <2>7. \A q \in Replica, j \in Key :
          users'[q][j] = IF q = r /\ j = k THEN users[q][j] - 1 ELSE users[q][j]
    BY <1>5 DEF TypeOK, Replica
  <2>8. SlotAccounting'
    <3> SUFFICES ASSUME NEW q \in Replica, NEW j \in Key
                 PROVE  users'[q][j] = Cardinality(UsersOf(q, j)') + Cardinality(LeakedIn(q, j)')
      BY DEF SlotAccounting, Replica
    <3>1. users[q][j] = Cardinality(UsersOf(q, j)) + Cardinality(LeakedIn(q, j))
      BY DEF SlotAccounting
    <3>2. CASE q = r /\ j = k
      <4>1. Cardinality(UsersOf(q, j)) \in Nat /\ Cardinality(LeakedIn(q, j)) \in Nat
        BY CountsAreFinite
      <4>2. Cardinality(UsersOf(q, j)') = Cardinality(UsersOf(q, j)) - 1
        BY <2>3, <2>4, <3>2
      <4>3. Cardinality(LeakedIn(q, j)') = Cardinality(LeakedIn(q, j))
        BY <2>1
      <4> QED BY <2>7, <3>1, <3>2, <4>1, <4>2, <4>3
    <3>3. CASE ~(q = r /\ j = k)
      BY <2>1, <2>2, <2>7, <3>1, <3>3
    <3> QED BY <3>2, <3>3
  <2> QED BY <1>5, <2>6, <2>8
<1>6. ASSUME NEW s \in Session, NEW k \in Key, LeavesSlot(s, k) PROVE Goal
  BY <1>5, <1>6 DEF LeavesSlot, TypeOK
<1>7. ASSUME NEW s \in Session, NEW k \in Key, ExitsSlot(s, k) PROVE Goal
  <2>1. k \in Uses(s)
    BY <1>7 DEF ExitsSlot, Uses
  <2>2. sem' \in [Replica -> [Key -> BOOLEAN]]
    BY <1>7 DEF ExitsSlot, TypeOK
  <2> QED BY <1>5, <1>7, <2>1, <2>2 DEF ExitsSlot
<1>8. ASSUME NEW q \in Replica, LosesSlots(q) PROVE Goal
  <2>1. \A k \in Key : UsersOf(q, k)' = {} /\ LeakedIn(q, k)' = {}
    BY <1>8 DEF LosesSlots, UsersOf, LeakedIn
  <2>2. \A r \in Replica \ {q}, k \in Key :
          UsersOf(r, k)' = UsersOf(r, k) /\ LeakedIn(r, k)' = LeakedIn(r, k)
    BY <1>8 DEF LosesSlots, OwnersKept, UsersOf, LeakedIn
  <2>3. users' \in [Replica -> [Key -> Nat]] /\ sem' \in [Replica -> [Key -> BOOLEAN]]
    BY <1>8 DEF LosesSlots, TypeOK
  <2>4. \A r \in Replica, k \in Key : users'[r][k] = IF r = q THEN 0 ELSE users[r][k]
    BY <1>8 DEF LosesSlots, TypeOK
  <2>5. SlotAccounting'
    BY <2>1, <2>2, <2>4, FS_EmptySet DEF SlotAccounting
  <2> QED BY <2>3, <2>5
<1> HIDE DEF Goal
<1>9. Goal
  BY <1>1, <1>2, <1>3, <1>4, <1>6, <1>7, <1>8 DEF SlotStep
<1> QED BY <1>9 DEF Goal

-----------------------------------------------------------------------------
(***************************************************************************)
(* Steps and the local parts of the invariant.                             *)
(***************************************************************************)

\* Every step keeps the local states in place.
LEMMA PlaceStep == TypeOK /\ PlaceInv /\ [Next]_vars => PlaceInv'
<1> SUFFICES ASSUME TypeOK, PlaceInv, [Next]_vars PROVE PlaceInv'
  OBVIOUS
<1>1. ASSUME NEW s \in Session, StartTransaction(s) PROVE PlaceInv'
  BY <1>1 DEF StartTransaction, callVars, holdVars, slotVars, TypeOK, PlaceInv, AtKey, InLoop,
    Blocked, Owns
<1>2. ASSUME NEW s \in Session, FirstOperation(s) PROVE PlaceInv'
  BY <1>2 DEF FirstOperation, callVars, holdVars, slotVars, TypeOK, PlaceInv, AtKey, InLoop,
    Blocked, Owns
<1>3. ASSUME NEW s \in Session, EndTransaction(s) PROVE PlaceInv'
  BY <1>3 DEF EndTransaction, EndTx, CanCommit, Goto, callVars, holdVars, slotVars, TypeOK,
    PlaceInv, AtKey, InLoop, Blocked, Owns
<1>4. ASSUME NEW s \in Session, Throw(s) PROVE PlaceInv'
  BY <1>4 DEF Throw, Goto, callVars, holdVars, slotVars, txVars, TypeOK, PlaceInv, AtKey, InLoop,
    Blocked, Owns
<1>5. ASSUME NEW s \in Session, NEW keys \in SUBSET Key, Acquire(s, keys) PROVE PlaceInv'
  BY <1>5 DEF Acquire, Goto, holdVars, slotVars, txVars, TypeOK, PlaceInv, AtKey, InLoop,
    Blocked, Owns
<1>6. ASSUME NEW s \in Session, NEW k \in Key, Enter(s, k) PROVE PlaceInv'
  BY <1>6 DEF Enter, Goto, holdVars, txVars, TypeOK, PlaceInv, AtKey, InLoop, Blocked, Owns
<1>7. ASSUME NEW s \in Session, TakeSlot(s) PROVE PlaceInv'
  BY <1>7 DEF TakeSlot, Taken, UsesLeases, Goto, txVars, TypeOK, PlaceInv, AtKey, InLoop,
    Blocked, Owns
<1>8. ASSUME NEW s \in Session, GiveUpSlot(s) PROVE PlaceInv'
  BY <1>8 DEF GiveUpSlot, LeaveSlot, Fail, Goto, holdVars, txVars, TypeOK, PlaceInv, AtKey,
    InLoop, Blocked, Owns
<1>9. ASSUME NEW s \in Session, LeaseTake(s) PROVE PlaceInv'
  BY <1>9 DEF LeaseTake, Taken, LeaseFree, LeasesOf, Expired, Goto, slotVars, txVars, TypeOK,
    PlaceInv, AtKey, InLoop, Blocked, Owns
<1>10. ASSUME NEW s \in Session, LeaseGiveUp(s) PROVE PlaceInv'
  BY <1>10 DEF LeaseGiveUp, ExitSlot, LeaveSlot, Fail, Goto, holdVars, txVars, TypeOK, PlaceInv,
    AtKey, InLoop, Blocked, Owns
<1>11. ASSUME NEW s \in Session, LeaseAckLost(s) PROVE PlaceInv'
  BY <1>11 DEF LeaseAckLost, ExitSlot, LeaveSlot, Fail, LeaseFree, LeasesOf, Expired, Goto,
    holdVars, txVars, TypeOK, PlaceInv, AtKey, InLoop, Blocked, Owns
<1>12. ASSUME NEW s \in Session, AcquireReturns(s) PROVE PlaceInv'
  BY <1>12 DEF AcquireReturns, Goto, holdVars, slotVars, txVars, TypeOK, PlaceInv, AtKey, InLoop,
    Blocked, Owns
<1>13. ASSUME NEW s \in Session, Release(s) PROVE PlaceInv'
  BY <1>13 DEF Release, Goto, slotVars, txVars, TypeOK, PlaceInv, AtKey, InLoop, Blocked, Owns
<1>14. ASSUME NEW s \in Session, NEW k \in Key, Drop(s, k) PROVE PlaceInv'
  BY <1>14 DEF Drop, ExitSlot, LeaveSlot, txVars, TypeOK, PlaceInv, AtKey, InLoop, Blocked, Owns
<1>15. ASSUME NEW s \in Session, NEW k \in Key, DropLeased(s, k) PROVE PlaceInv'
  BY <1>15 DEF DropLeased, Goto, slotVars, txVars, TypeOK, PlaceInv, AtKey, InLoop, Blocked, Owns
<1>16. ASSUME NEW s \in Session, LeaseRelease(s) PROVE PlaceInv'
  BY <1>16 DEF LeaseRelease, Goto, NoLease, callVars, holdVars, slotVars, txVars, TypeOK,
    PlaceInv, AtKey, InLoop, Blocked, Owns
<1>17. ASSUME NEW s \in Session, Exit(s) PROVE PlaceInv'
  BY <1>17 DEF Exit, ExitSlot, LeaveSlot, Goto, holdVars, txVars, TypeOK, PlaceInv, AtKey,
    InLoop, Blocked, Owns
<1>18. ASSUME NEW s \in Session, DropEnds(s) PROVE PlaceInv'
  BY <1>18 DEF DropEnds, LoopEnds, EndTx, Goto, callVars, holdVars, slotVars, txVars, TypeOK,
    PlaceInv, AtKey, InLoop, Blocked, Owns
<1>19. ASSUME NEW s \in Session, LeaseReleaseThrows(s) PROVE PlaceInv'
  BY <1>19 DEF LeaseReleaseThrows, LoopEnds, EndTx, Goto, slotVars, txVars, TypeOK, PlaceInv,
    AtKey, InLoop, Blocked, Owns
<1>20. ASSUME NEW s \in Session, TxLimitAbort(s) PROVE PlaceInv'
  BY <1>20 DEF TxLimitAbort, EndTx, callVars, holdVars, slotVars, TypeOK, PlaceInv, AtKey,
    InLoop, Blocked, Owns
<1>21. ASSUME Tick PROVE PlaceInv'
  BY <1>21 DEF Tick, Running, Expired, callVars, holdVars, slotVars, TypeOK, PlaceInv, AtKey,
    InLoop, Blocked, Owns
<1>22. ASSUME NEW k \in Key, TtlRemove(k) PROVE PlaceInv'
  BY <1>22 DEF TtlRemove, Expired, NoLease, callVars, holdVars, slotVars, txVars, TypeOK,
    PlaceInv, AtKey, InLoop, Blocked, Owns
<1>23. ASSUME NEW r \in Replica, Crash(r) PROVE PlaceInv'
  BY <1>23 DEF Crash, Begun, TypeOK, PlaceInv, AtKey, InLoop, Blocked, Owns
<1>24. ASSUME UNCHANGED vars PROVE PlaceInv'
  BY <1>24 DEF vars, callVars, holdVars, slotVars, txVars, TypeOK, PlaceInv, AtKey, InLoop,
    Blocked, Owns
<1>25. ASSUME NEW s \in Session, HandlerStep(s) PROVE PlaceInv'
  BY <1>25, <1>1, <1>2, <1>3, <1>4, <1>5 DEF HandlerStep
<1>26. ASSUME NEW s \in Session, AcquireStep(s) PROVE PlaceInv'
  BY <1>26, <1>6, <1>7, <1>8, <1>9, <1>10, <1>11, <1>12 DEF AcquireStep
<1>27. ASSUME NEW s \in Session, ReleaseStep(s) PROVE PlaceInv'
  BY <1>27, <1>13, <1>14, <1>15, <1>16, <1>17, <1>18, <1>19 DEF ReleaseStep
<1> QED BY <1>20, <1>21, <1>22, <1>23, <1>24, <1>25, <1>26, <1>27 DEF Next, Finished

\* Every step keeps the claims to leases within the owned names.
LEMMA ClaimStep == TypeOK /\ PlaceInv /\ SemInv /\ ClaimInv /\ [Next]_vars => ClaimInv'
<1> SUFFICES ASSUME TypeOK, PlaceInv, SemInv, ClaimInv, [Next]_vars PROVE ClaimInv'
  OBVIOUS
<1>1. ASSUME NEW s \in Session, StartTransaction(s) PROVE ClaimInv'
  BY <1>1 DEF StartTransaction, callVars, holdVars, slotVars, TypeOK, PlaceInv, ClaimInv, InLoop,
    AtKey
<1>2. ASSUME NEW s \in Session, FirstOperation(s) PROVE ClaimInv'
  BY <1>2 DEF FirstOperation, callVars, holdVars, slotVars, TypeOK, PlaceInv, ClaimInv, InLoop,
    AtKey
<1>3. ASSUME NEW s \in Session, EndTransaction(s) PROVE ClaimInv'
  BY <1>3 DEF EndTransaction, EndTx, CanCommit, Goto, callVars, holdVars, slotVars, TypeOK,
    PlaceInv, ClaimInv, InLoop, AtKey
<1>4. ASSUME NEW s \in Session, Throw(s) PROVE ClaimInv'
  BY <1>4 DEF Throw, Goto, callVars, holdVars, slotVars, txVars, TypeOK, PlaceInv, ClaimInv,
    InLoop, AtKey
<1>5. ASSUME NEW s \in Session, NEW keys \in SUBSET Key, Acquire(s, keys) PROVE ClaimInv'
  BY <1>5 DEF Acquire, Goto, holdVars, slotVars, txVars, TypeOK, PlaceInv, ClaimInv, InLoop, AtKey
<1>6. ASSUME NEW s \in Session, NEW k \in Key, Enter(s, k) PROVE ClaimInv'
  BY <1>6 DEF Enter, Goto, holdVars, txVars, TypeOK, PlaceInv, ClaimInv, InLoop, AtKey
<1>7. ASSUME NEW s \in Session, TakeSlot(s) PROVE ClaimInv'
  BY <1>7 DEF TakeSlot, Taken, UsesLeases, Goto, txVars, TypeOK, PlaceInv, ClaimInv, InLoop, AtKey
<1>8. ASSUME NEW s \in Session, GiveUpSlot(s) PROVE ClaimInv'
  BY <1>8 DEF GiveUpSlot, LeaveSlot, Fail, Goto, holdVars, txVars, TypeOK, PlaceInv, ClaimInv,
    InLoop, AtKey
<1>9. ASSUME NEW s \in Session, LeaseTake(s) PROVE ClaimInv'
  BY <1>9 DEF LeaseTake, Taken, LeaseFree, LeasesOf, Expired, Goto, slotVars, txVars, TypeOK,
    PlaceInv, ClaimInv, InLoop, AtKey
<1>10. ASSUME NEW s \in Session, LeaseGiveUp(s) PROVE ClaimInv'
  BY <1>10 DEF LeaseGiveUp, ExitSlot, LeaveSlot, Fail, Goto, holdVars, txVars, TypeOK, PlaceInv,
    ClaimInv, InLoop, AtKey
<1>11. ASSUME NEW s \in Session, LeaseAckLost(s) PROVE ClaimInv'
  BY <1>11 DEF LeaseAckLost, ExitSlot, LeaveSlot, Fail, LeaseFree, LeasesOf, Expired, Goto,
    holdVars, txVars, TypeOK, PlaceInv, ClaimInv, InLoop, AtKey
<1>12. ASSUME NEW s \in Session, AcquireReturns(s) PROVE ClaimInv'
  BY <1>12 DEF AcquireReturns, Goto, holdVars, slotVars, txVars, TypeOK, PlaceInv, ClaimInv,
    InLoop, AtKey
<1>13. ASSUME NEW s \in Session, Release(s) PROVE ClaimInv'
  BY <1>13 DEF Release, Goto, slotVars, txVars, TypeOK, PlaceInv, ClaimInv, InLoop, AtKey
<1>14. ASSUME NEW s \in Session, NEW k \in Key, Drop(s, k) PROVE ClaimInv'
  BY <1>14 DEF Drop, ExitSlot, LeaveSlot, txVars, TypeOK, PlaceInv, ClaimInv, InLoop, AtKey
<1>15. ASSUME NEW s \in Session, NEW k \in Key, DropLeased(s, k) PROVE ClaimInv'
  BY <1>15 DEF DropLeased, Goto, slotVars, txVars, TypeOK, PlaceInv, ClaimInv, InLoop, AtKey
<1>16. ASSUME NEW s \in Session, LeaseRelease(s) PROVE ClaimInv'
  BY <1>16 DEF LeaseRelease, Goto, NoLease, callVars, holdVars, slotVars, txVars, TypeOK,
    PlaceInv, ClaimInv, InLoop, AtKey
<1>17. ASSUME NEW s \in Session, Exit(s) PROVE ClaimInv'
  BY <1>17 DEF Exit, ExitSlot, LeaveSlot, Goto, holdVars, txVars, TypeOK, PlaceInv, ClaimInv,
    InLoop, AtKey
<1>18. ASSUME NEW s \in Session, DropEnds(s) PROVE ClaimInv'
  <2>1. /\ UNCHANGED <<holds, leased, leaked, batch>>
        /\ pc'[s] # "lease" /\ \A t \in Session \ {s} : pc'[t] = pc[t]
        /\ tx'[s] \in {"over", tx[s]} /\ \A t \in Session \ {s} : tx'[t] = tx[t]
    BY <1>18 DEF DropEnds, LoopEnds, EndTx, Goto, callVars, holdVars, txVars, TypeOK
  <2> QED BY <2>1 DEF ClaimInv
<1>19. ASSUME NEW s \in Session, LeaseReleaseThrows(s) PROVE ClaimInv'
  BY <1>19 DEF LeaseReleaseThrows, LoopEnds, EndTx, Goto, slotVars, txVars, TypeOK, PlaceInv,
    ClaimInv, InLoop, AtKey
<1>20. ASSUME NEW s \in Session, TxLimitAbort(s) PROVE ClaimInv'
  BY <1>20 DEF TxLimitAbort, EndTx, callVars, holdVars, slotVars, TypeOK, PlaceInv, ClaimInv,
    InLoop, AtKey
<1>21. ASSUME Tick PROVE ClaimInv'
  BY <1>21 DEF Tick, Running, Expired, callVars, holdVars, slotVars, TypeOK, PlaceInv, ClaimInv,
    InLoop, AtKey
<1>22. ASSUME NEW k \in Key, TtlRemove(k) PROVE ClaimInv'
  BY <1>22 DEF TtlRemove, Expired, NoLease, callVars, holdVars, slotVars, txVars, TypeOK,
    PlaceInv, ClaimInv, InLoop, AtKey
<1>23. ASSUME NEW r \in Replica, Crash(r) PROVE ClaimInv'
  BY <1>23 DEF Crash, Begun, TypeOK, PlaceInv, ClaimInv, InLoop, AtKey
<1>24. ASSUME UNCHANGED vars PROVE ClaimInv'
  BY <1>24 DEF vars, callVars, holdVars, slotVars, txVars, TypeOK, PlaceInv, ClaimInv, InLoop, AtKey
<1>25. ASSUME NEW s \in Session, HandlerStep(s) PROVE ClaimInv'
  BY <1>25, <1>1, <1>2, <1>3, <1>4, <1>5 DEF HandlerStep
<1>26. ASSUME NEW s \in Session, AcquireStep(s) PROVE ClaimInv'
  BY <1>26, <1>6, <1>7, <1>8, <1>9, <1>10, <1>11, <1>12 DEF AcquireStep
<1>27. ASSUME NEW s \in Session, ReleaseStep(s) PROVE ClaimInv'
  BY <1>27, <1>13, <1>14, <1>15, <1>16, <1>17, <1>18, <1>19 DEF ReleaseStep
<1> QED BY <1>20, <1>21, <1>22, <1>23, <1>24, <1>25, <1>26, <1>27 DEF Next, Finished

\* Every step keeps the claimed leases valid.
LEMMA LeaseStep == TypeOK /\ PlaceInv /\ ClaimInv /\ SemInv /\ LeaseInv /\ [Next]_vars => LeaseInv'
<1> SUFFICES ASSUME TypeOK, PlaceInv, ClaimInv, SemInv, LeaseInv, [Next]_vars PROVE LeaseInv'
  OBVIOUS
<1>1. ASSUME NEW s \in Session, StartTransaction(s) PROVE LeaseInv'
  BY <1>1 DEF StartTransaction, callVars, holdVars, slotVars, TypeOK, PlaceInv, ClaimInv,
    LeaseInv, CanCommit
<1>2. ASSUME NEW s \in Session, FirstOperation(s) PROVE LeaseInv'
  BY <1>2 DEF FirstOperation, callVars, holdVars, slotVars, TypeOK, PlaceInv, ClaimInv, LeaseInv,
    CanCommit
<1>3. ASSUME NEW s \in Session, EndTransaction(s) PROVE LeaseInv'
  BY <1>3 DEF EndTransaction, EndTx, CanCommit, Goto, callVars, holdVars, slotVars, TypeOK,
    PlaceInv, ClaimInv, LeaseInv
<1>4. ASSUME NEW s \in Session, Throw(s) PROVE LeaseInv'
  BY <1>4 DEF Throw, Goto, callVars, holdVars, slotVars, txVars, TypeOK, PlaceInv, ClaimInv,
    LeaseInv, CanCommit
<1>5. ASSUME NEW s \in Session, NEW keys \in SUBSET Key, Acquire(s, keys) PROVE LeaseInv'
  BY <1>5 DEF Acquire, Goto, holdVars, slotVars, txVars, TypeOK, PlaceInv, ClaimInv, LeaseInv,
    CanCommit
<1>6. ASSUME NEW s \in Session, NEW k \in Key, Enter(s, k) PROVE LeaseInv'
  BY <1>6 DEF Enter, Goto, holdVars, txVars, TypeOK, PlaceInv, ClaimInv, LeaseInv, CanCommit
<1>7. ASSUME NEW s \in Session, TakeSlot(s) PROVE LeaseInv'
  BY <1>7 DEF TakeSlot, Taken, UsesLeases, Goto, txVars, TypeOK, PlaceInv, ClaimInv, LeaseInv,
    CanCommit
<1>8. ASSUME NEW s \in Session, GiveUpSlot(s) PROVE LeaseInv'
  BY <1>8 DEF GiveUpSlot, LeaveSlot, Fail, Goto, holdVars, txVars, TypeOK, PlaceInv, ClaimInv,
    LeaseInv, CanCommit
<1>9. ASSUME NEW s \in Session, LeaseTake(s) PROVE LeaseInv'
  <2> SUFFICES ASSUME LeaseStore, NEW t \in Session, NEW k \in leased'[t], CanCommit(t)'
               PROVE  lease'[k].owner = t /\ lease'[k].age <= StartLimit + txAge'[t]
    BY DEF LeaseInv
  <2> PICK age \in 0..StartLimit :
         lease' = [lease EXCEPT ![cur[s]] = [owner |-> s, age |-> age]]
    BY <1>9 DEF LeaseTake, LeasesOf
  <2>1. /\ LeaseFree(cur[s]) /\ cur[s] \in Key
        /\ leased' = [leased EXCEPT ![s] = @ \cup {cur[s]}] /\ UNCHANGED txVars
    BY <1>9 DEF LeaseTake, PlaceInv, AtKey
  <2>2. CASE k = cur[s] /\ t = s
    BY <2>1, <2>2 DEF LeasesOf, txVars, TypeOK
  <2>3. CASE ~(k = cur[s] /\ t = s)
    <3>1. k \in leased[t] /\ k \in Key /\ CanCommit(t)
      BY <2>1, <2>3 DEF TypeOK, txVars, CanCommit
    <3>2. lease[k].owner = t /\ lease[k].age <= StartLimit + txAge[t]
      BY <3>1 DEF LeaseInv
    <3>3. ~LeaseFree(k) \/ txAge[t] > TxLimit
      BY <3>1, <3>2 DEF LeaseFree, Expired, TypeOK
    <3>4. k # cur[s]
      BY <2>1, <3>3 DEF TypeOK
    <3> QED BY <2>1, <3>2, <3>4 DEF TypeOK, txVars
  <2> QED BY <2>2, <2>3
<1>10. ASSUME NEW s \in Session, LeaseGiveUp(s) PROVE LeaseInv'
  BY <1>10 DEF LeaseGiveUp, ExitSlot, LeaveSlot, Fail, Goto, holdVars, txVars, TypeOK, PlaceInv,
    ClaimInv, LeaseInv, CanCommit
<1>11. ASSUME NEW s \in Session, LeaseAckLost(s) PROVE LeaseInv'
  BY <1>11 DEF LeaseAckLost, ExitSlot, LeaveSlot, Fail, LeaseFree, LeasesOf, Expired, Goto,
    holdVars, txVars, TypeOK, PlaceInv, ClaimInv, LeaseInv, CanCommit
<1>12. ASSUME NEW s \in Session, AcquireReturns(s) PROVE LeaseInv'
  BY <1>12 DEF AcquireReturns, Goto, holdVars, slotVars, txVars, TypeOK, PlaceInv, ClaimInv,
    LeaseInv, CanCommit
<1>13. ASSUME NEW s \in Session, Release(s) PROVE LeaseInv'
  BY <1>13 DEF Release, Goto, slotVars, txVars, TypeOK, PlaceInv, ClaimInv, LeaseInv, CanCommit
<1>14. ASSUME NEW s \in Session, NEW k \in Key, Drop(s, k) PROVE LeaseInv'
  <2>1. UNCHANGED <<lease, leased, tx, txAge>>
    BY <1>14 DEF Drop, txVars
  <2> QED BY <2>1 DEF LeaseInv, CanCommit
<1>15. ASSUME NEW s \in Session, NEW k \in Key, DropLeased(s, k) PROVE LeaseInv'
  BY <1>15 DEF DropLeased, Goto, slotVars, txVars, TypeOK, PlaceInv, ClaimInv, LeaseInv, CanCommit
<1>16. ASSUME NEW s \in Session, LeaseRelease(s) PROVE LeaseInv'
  <2>1. cur[s] \notin leased[s] /\ cur[s] \in Key
    BY <1>16 DEF LeaseRelease, PlaceInv, ClaimInv, SemInv, Has, Owns, AtKey
  <2>2. \A k \in Key : lease'[k] = lease[k] \/ (k = cur[s] /\ lease[k].owner = s)
    BY <1>16 DEF LeaseRelease, TypeOK
  <2>3. UNCHANGED <<leased, tx, txAge>>
    BY <1>16 DEF LeaseRelease, holdVars, txVars
  <2> SUFFICES ASSUME LeaseStore, NEW t \in Session, NEW k \in leased[t], CanCommit(t)
               PROVE  lease'[k].owner = t /\ lease'[k].age <= StartLimit + txAge[t]
    BY <2>3 DEF LeaseInv, CanCommit
  <2>4. k \in Key /\ lease[k].owner = t /\ lease[k].age <= StartLimit + txAge[t]
    BY DEF LeaseInv, TypeOK
  <2>5. ~(k = cur[s] /\ lease[k].owner = s)
    BY <2>1, <2>4
  <2> QED BY <2>2, <2>4, <2>5
<1>17. ASSUME NEW s \in Session, Exit(s) PROVE LeaseInv'
  BY <1>17 DEF Exit, ExitSlot, LeaveSlot, Goto, holdVars, txVars, TypeOK, PlaceInv, ClaimInv,
    LeaseInv, CanCommit
<1>18. ASSUME NEW s \in Session, DropEnds(s) PROVE LeaseInv'
  BY <1>18 DEF DropEnds, LoopEnds, EndTx, Goto, callVars, holdVars, slotVars, txVars, TypeOK,
    PlaceInv, ClaimInv, LeaseInv, CanCommit
<1>19. ASSUME NEW s \in Session, LeaseReleaseThrows(s) PROVE LeaseInv'
  BY <1>19 DEF LeaseReleaseThrows, LoopEnds, EndTx, Goto, slotVars, txVars, TypeOK, PlaceInv,
    ClaimInv, LeaseInv, CanCommit
<1>20. ASSUME NEW s \in Session, TxLimitAbort(s) PROVE LeaseInv'
  BY <1>20 DEF TxLimitAbort, EndTx, callVars, holdVars, slotVars, TypeOK, PlaceInv, ClaimInv,
    LeaseInv, CanCommit
<1>21. ASSUME Tick PROVE LeaseInv'
  BY <1>21 DEF Tick, Running, Expired, callVars, holdVars, slotVars, TypeOK, PlaceInv, ClaimInv,
    LeaseInv, CanCommit
<1>22. ASSUME NEW k \in Key, TtlRemove(k) PROVE LeaseInv'
  BY <1>22 DEF TtlRemove, Expired, NoLease, callVars, holdVars, slotVars, txVars, TypeOK,
    PlaceInv, ClaimInv, LeaseInv, CanCommit
<1>23. ASSUME NEW r \in Replica, Crash(r) PROVE LeaseInv'
  BY <1>23 DEF Crash, Begun, TypeOK, PlaceInv, ClaimInv, LeaseInv, CanCommit
<1>24. ASSUME UNCHANGED vars PROVE LeaseInv'
  BY <1>24 DEF vars, callVars, holdVars, slotVars, txVars, TypeOK, PlaceInv, ClaimInv, LeaseInv,
    CanCommit
<1>25. ASSUME NEW s \in Session, HandlerStep(s) PROVE LeaseInv'
  BY <1>25, <1>1, <1>2, <1>3, <1>4, <1>5 DEF HandlerStep
<1>26. ASSUME NEW s \in Session, AcquireStep(s) PROVE LeaseInv'
  BY <1>26, <1>6, <1>7, <1>8, <1>9, <1>10, <1>11, <1>12 DEF AcquireStep
<1>27. ASSUME NEW s \in Session, ReleaseStep(s) PROVE LeaseInv'
  BY <1>27, <1>13, <1>14, <1>15, <1>16, <1>17, <1>18, <1>19 DEF ReleaseStep
<1> QED BY <1>20, <1>21, <1>22, <1>23, <1>24, <1>25, <1>26, <1>27 DEF Next, Finished

\* Only LeaseReleaseThrows leaves slots behind.
LEMMA LeakStep == TypeOK /\ LeakInv /\ [Next]_vars => LeakInv'
<1> SUFFICES ASSUME TypeOK, LeakInv, [Next]_vars PROVE LeakInv'
  OBVIOUS
<1>1. ASSUME NEW s \in Session, StartTransaction(s) PROVE LeakInv'
  BY <1>1 DEF StartTransaction, callVars, holdVars, slotVars, TypeOK, LeakInv
<1>2. ASSUME NEW s \in Session, FirstOperation(s) PROVE LeakInv'
  BY <1>2 DEF FirstOperation, callVars, holdVars, slotVars, TypeOK, LeakInv
<1>3. ASSUME NEW s \in Session, EndTransaction(s) PROVE LeakInv'
  BY <1>3 DEF EndTransaction, EndTx, CanCommit, Goto, callVars, holdVars, slotVars, TypeOK, LeakInv
<1>4. ASSUME NEW s \in Session, Throw(s) PROVE LeakInv'
  BY <1>4 DEF Throw, Goto, callVars, holdVars, slotVars, txVars, TypeOK, LeakInv
<1>5. ASSUME NEW s \in Session, NEW keys \in SUBSET Key, Acquire(s, keys) PROVE LeakInv'
  BY <1>5 DEF Acquire, Goto, holdVars, slotVars, txVars, TypeOK, LeakInv
<1>6. ASSUME NEW s \in Session, NEW k \in Key, Enter(s, k) PROVE LeakInv'
  BY <1>6 DEF Enter, Goto, holdVars, txVars, TypeOK, LeakInv
<1>7. ASSUME NEW s \in Session, TakeSlot(s) PROVE LeakInv'
  BY <1>7 DEF TakeSlot, Taken, UsesLeases, Goto, txVars, TypeOK, LeakInv
<1>8. ASSUME NEW s \in Session, GiveUpSlot(s) PROVE LeakInv'
  BY <1>8 DEF GiveUpSlot, LeaveSlot, Fail, Goto, holdVars, txVars, TypeOK, LeakInv
<1>9. ASSUME NEW s \in Session, LeaseTake(s) PROVE LeakInv'
  BY <1>9 DEF LeaseTake, Taken, LeaseFree, LeasesOf, Expired, Goto, slotVars, txVars, TypeOK, LeakInv
<1>10. ASSUME NEW s \in Session, LeaseGiveUp(s) PROVE LeakInv'
  BY <1>10 DEF LeaseGiveUp, ExitSlot, LeaveSlot, Fail, Goto, holdVars, txVars, TypeOK, LeakInv
<1>11. ASSUME NEW s \in Session, LeaseAckLost(s) PROVE LeakInv'
  BY <1>11 DEF LeaseAckLost, ExitSlot, LeaveSlot, Fail, LeaseFree, LeasesOf, Expired, Goto,
    holdVars, txVars, TypeOK, LeakInv
<1>12. ASSUME NEW s \in Session, AcquireReturns(s) PROVE LeakInv'
  BY <1>12 DEF AcquireReturns, Goto, holdVars, slotVars, txVars, TypeOK, LeakInv
<1>13. ASSUME NEW s \in Session, Release(s) PROVE LeakInv'
  BY <1>13 DEF Release, Goto, slotVars, txVars, TypeOK, LeakInv
<1>14. ASSUME NEW s \in Session, NEW k \in Key, Drop(s, k) PROVE LeakInv'
  BY <1>14 DEF Drop, ExitSlot, LeaveSlot, txVars, TypeOK, LeakInv
<1>15. ASSUME NEW s \in Session, NEW k \in Key, DropLeased(s, k) PROVE LeakInv'
  BY <1>15 DEF DropLeased, Goto, slotVars, txVars, TypeOK, LeakInv
<1>16. ASSUME NEW s \in Session, LeaseRelease(s) PROVE LeakInv'
  BY <1>16 DEF LeaseRelease, Goto, NoLease, callVars, holdVars, slotVars, txVars, TypeOK, LeakInv
<1>17. ASSUME NEW s \in Session, Exit(s) PROVE LeakInv'
  BY <1>17 DEF Exit, ExitSlot, LeaveSlot, Goto, holdVars, txVars, TypeOK, LeakInv
<1>18. ASSUME NEW s \in Session, DropEnds(s) PROVE LeakInv'
  BY <1>18 DEF DropEnds, LoopEnds, EndTx, Goto, callVars, holdVars, slotVars, txVars, TypeOK,
    LeakInv
<1>19. ASSUME NEW s \in Session, LeaseReleaseThrows(s) PROVE LeakInv'
  BY <1>19 DEF LeaseReleaseThrows, LoopEnds, EndTx, Goto, slotVars, txVars, TypeOK, LeakInv
<1>20. ASSUME NEW s \in Session, TxLimitAbort(s) PROVE LeakInv'
  BY <1>20 DEF TxLimitAbort, EndTx, callVars, holdVars, slotVars, TypeOK, LeakInv
<1>21. ASSUME Tick PROVE LeakInv'
  BY <1>21 DEF Tick, Running, Expired, callVars, holdVars, slotVars, TypeOK, LeakInv
<1>22. ASSUME NEW k \in Key, TtlRemove(k) PROVE LeakInv'
  BY <1>22 DEF TtlRemove, Expired, NoLease, callVars, holdVars, slotVars, txVars, TypeOK, LeakInv
<1>23. ASSUME NEW r \in Replica, Crash(r) PROVE LeakInv'
  BY <1>23 DEF Crash, Begun, TypeOK, LeakInv
<1>24. ASSUME UNCHANGED vars PROVE LeakInv'
  BY <1>24 DEF vars, callVars, holdVars, slotVars, txVars, TypeOK, LeakInv
<1>25. ASSUME NEW s \in Session, HandlerStep(s) PROVE LeakInv'
  BY <1>25, <1>1, <1>2, <1>3, <1>4, <1>5 DEF HandlerStep
<1>26. ASSUME NEW s \in Session, AcquireStep(s) PROVE LeakInv'
  BY <1>26, <1>6, <1>7, <1>8, <1>9, <1>10, <1>11, <1>12 DEF AcquireStep
<1>27. ASSUME NEW s \in Session, ReleaseStep(s) PROVE LeakInv'
  BY <1>27, <1>13, <1>14, <1>15, <1>16, <1>17, <1>18, <1>19 DEF ReleaseStep
<1> QED BY <1>20, <1>21, <1>22, <1>23, <1>24, <1>25, <1>26, <1>27 DEF Next, Finished

\* Every step keeps the keys in their order.
LEMMA OrderStep == TypeOK /\ PlaceInv /\ OrderInv /\ [Next]_vars => OrderInv'
<1> SUFFICES ASSUME TypeOK, PlaceInv, OrderInv, [Next]_vars PROVE OrderInv'
  OBVIOUS
<1>1. ASSUME NEW s \in Session, StartTransaction(s) PROVE OrderInv'
  <2>1. UNCHANGED <<pc, calls, closing, todo, batch, cur, holds, leaked>>
    BY <1>1 DEF StartTransaction, callVars, holdVars
  <2> QED BY <2>1 DEF OrderInv, InLoop, Blocked, AtKey, Has, Owns
<1>2. ASSUME NEW s \in Session, FirstOperation(s) PROVE OrderInv'
  <2>1. UNCHANGED <<pc, calls, closing, todo, batch, cur, holds, leaked>>
    BY <1>2 DEF FirstOperation, callVars, holdVars
  <2> QED BY <2>1 DEF OrderInv, InLoop, Blocked, AtKey, Has, Owns
<1>3. ASSUME NEW s \in Session, EndTransaction(s) PROVE OrderInv'
  BY <1>3 DEF EndTransaction, EndTx, CanCommit, Goto, callVars, holdVars, slotVars, TypeOK,
    PlaceInv, OrderInv, InLoop, Blocked, AtKey, Has, Owns
<1>4. ASSUME NEW s \in Session, Throw(s) PROVE OrderInv'
  BY <1>4 DEF Throw, Goto, callVars, holdVars, slotVars, txVars, TypeOK, PlaceInv, OrderInv,
    InLoop, Blocked, AtKey, Has, Owns
<1>5. ASSUME NEW s \in Session, NEW keys \in SUBSET Key, Acquire(s, keys) PROVE OrderInv'
  <2>1. MaxCalls = 1 => calls[s] = 0 /\ calls'[s] = 1
    BY <1>5 DEF Acquire, TypeOK
  <2>2. batch[s] = {} /\ pc'[s] = "pick" /\ UNCHANGED <<closing, batch, cur, holds, leaked>>
    BY <1>5 DEF Acquire, Goto, TypeOK, PlaceInv, holdVars
  <2>3. \A t \in Session \ {s} : pc'[t] = pc[t] /\ calls'[t] = calls[t] /\ todo'[t] = todo[t]
    BY <1>5 DEF Acquire, Goto, TypeOK
  <2>4. MaxCalls = 1 => holds'[s] = {} /\ batch'[s] = {} /\ leaked'[s] = {}
    <3>1. ~closing[s]
      BY <1>5 DEF Acquire, PlaceInv
    <3> QED BY <2>1, <2>2, <3>1 DEF OrderInv, Has, Owns
  <2>5. pc'[s] # "wait" /\ pc'[s] # "lease"
    BY <2>2
  <2>6. ASSUME MaxCalls = 1, NEW t \in Session, t # s
        PROVE  /\ holds'[t] = holds[t] /\ batch'[t] = batch[t] /\ cur'[t] = cur[t] /\ leaked'[t] = leaked[t]
               /\ (InLoop(t) <=> InLoop(t)') /\ (Blocked(t) <=> Blocked(t)') /\ (AtKey(t) <=> AtKey(t)')
               /\ Has(t)' = Has(t)
               /\ calls'[t] = calls[t] /\ todo'[t] = todo[t] /\ closing'[t] = closing[t]
    BY <2>2, <2>3, <2>6 DEF InLoop, Blocked, AtKey, Has, Owns
  <2>7. ASSUME MaxCalls = 1 PROVE ~Blocked(s)'
    BY <2>5 DEF Blocked
  <2>8. ASSUME MaxCalls = 1, NEW t \in Session
        PROVE  /\ calls'[t] = 0 /\ ~closing'[t] => Has(t)' = {} /\ ~InLoop(t)' /\ ~AtKey(t)'
               /\ InLoop(t)' => holds'[t] = batch'[t] /\ leaked'[t] = {}
               /\ InLoop(t)' => \A b \in batch'[t], k \in todo'[t] : b < k
               /\ Blocked(t)' => /\ \A b \in batch'[t] : b < cur'[t]
                                 /\ \A k \in todo'[t] : cur'[t] < k
    <3>1. CASE t = s
      BY <2>1, <2>4, <2>7, <2>8, <3>1
    <3>2. CASE t # s
      BY <2>6, <2>8, <3>2 DEF OrderInv
    <3> QED BY <3>1, <3>2
  <2> QED BY <2>8 DEF OrderInv
<1>6. ASSUME NEW s \in Session, NEW k \in Key, Enter(s, k) PROVE OrderInv'
  BY <1>6 DEF Enter, Goto, holdVars, txVars, TypeOK, PlaceInv, OrderInv, InLoop, Blocked, AtKey, Has, Owns
<1>7. ASSUME NEW s \in Session, TakeSlot(s) PROVE OrderInv'
  <2> pc[s] = "wait" /\ ~closing[s]
    BY <1>7 DEF TakeSlot, PlaceInv
  <2>1. UNCHANGED <<calls, closing, todo, leaked>> /\ \A t \in Session \ {s} : pc'[t] = pc[t]
    BY <1>7 DEF TakeSlot, Taken, Goto, TypeOK
  <2>2. CASE UsesLeases(s) /\ Goto(s, "lease") /\ UNCHANGED <<holds, batch, cur>>
    BY <2>1, <2>2 DEF Goto, OrderInv, InLoop, Blocked, AtKey, Has, Owns, TypeOK
  <2>3. CASE Taken(s)
    <3>1. /\ pc'[s] = "pick" /\ holds'[s] = holds[s] \cup {cur[s]} /\ batch'[s] = batch[s] \cup {cur[s]}
          /\ \A t \in Session \ {s} : holds'[t] = holds[t] /\ batch'[t] = batch[t] /\ cur'[t] = cur[t]
      BY <2>3 DEF Taken, Goto, TypeOK
    <3>2. MaxCalls = 1 => /\ calls'[s] # 0 /\ leaked'[s] = {} /\ holds'[s] = batch'[s]
                          /\ \A b \in batch'[s], k \in todo'[s] : b < k
      BY <2>1, <3>1 DEF OrderInv, InLoop, Blocked
    <3>3. \A t \in Session \ {s} : Has(t)' = Has(t)
      BY <2>1, <3>1 DEF Has, Owns
    <3>4. ASSUME MaxCalls = 1, NEW t \in Session
          PROVE  /\ calls'[t] = 0 /\ ~closing'[t] => Has(t)' = {} /\ ~InLoop(t)' /\ ~AtKey(t)'
                 /\ InLoop(t)' => holds'[t] = batch'[t] /\ leaked'[t] = {}
                 /\ InLoop(t)' => \A b \in batch'[t], k \in todo'[t] : b < k
                 /\ Blocked(t)' => /\ \A b \in batch'[t] : b < cur'[t]
                                   /\ \A k \in todo'[t] : cur'[t] < k
      <4>1. CASE t = s
        BY <2>1, <3>1, <3>2, <3>4, <4>1 DEF Blocked
      <4>2. CASE t # s
        BY <2>1, <3>1, <3>3, <3>4, <4>2 DEF OrderInv, InLoop, Blocked, AtKey
      <4> QED BY <4>1, <4>2
    <3> QED BY <3>4 DEF OrderInv
  <2> QED BY <1>7, <2>2, <2>3 DEF TakeSlot
<1>8. ASSUME NEW s \in Session, GiveUpSlot(s) PROVE OrderInv'
  BY <1>8 DEF GiveUpSlot, LeaveSlot, Fail, Goto, holdVars, txVars, TypeOK, PlaceInv, OrderInv,
    InLoop, Blocked, AtKey, Has, Owns
<1>9. ASSUME NEW s \in Session, LeaseTake(s) PROVE OrderInv'
  BY <1>9 DEF LeaseTake, Taken, LeaseFree, LeasesOf, Expired, Goto, slotVars, txVars, TypeOK,
    PlaceInv, OrderInv, InLoop, Blocked, AtKey, Has, Owns
<1>10. ASSUME NEW s \in Session, LeaseGiveUp(s) PROVE OrderInv'
  BY <1>10 DEF LeaseGiveUp, ExitSlot, LeaveSlot, Fail, Goto, holdVars, txVars, TypeOK, PlaceInv,
    OrderInv, InLoop, Blocked, AtKey, Has, Owns
<1>11. ASSUME NEW s \in Session, LeaseAckLost(s) PROVE OrderInv'
  BY <1>11 DEF LeaseAckLost, ExitSlot, LeaveSlot, Fail, LeaseFree, LeasesOf, Expired, Goto,
    holdVars, txVars, TypeOK, PlaceInv, OrderInv, InLoop, Blocked, AtKey, Has, Owns
<1>12. ASSUME NEW s \in Session, AcquireReturns(s) PROVE OrderInv'
  BY <1>12 DEF AcquireReturns, Goto, holdVars, slotVars, txVars, TypeOK, PlaceInv, OrderInv,
    InLoop, Blocked, AtKey, Has, Owns
<1>13. ASSUME NEW s \in Session, Release(s) PROVE OrderInv'
  BY <1>13 DEF Release, Goto, slotVars, txVars, TypeOK, PlaceInv, OrderInv, InLoop, Blocked, AtKey, Has, Owns
<1>14. ASSUME NEW s \in Session, NEW k \in Key, Drop(s, k) PROVE OrderInv'
  BY <1>14 DEF Drop, ExitSlot, LeaveSlot, txVars, TypeOK, PlaceInv, OrderInv, InLoop, Blocked, AtKey, Has, Owns
<1>15. ASSUME NEW s \in Session, NEW k \in Key, DropLeased(s, k) PROVE OrderInv'
  BY <1>15 DEF DropLeased, Goto, slotVars, txVars, TypeOK, PlaceInv, OrderInv, InLoop, Blocked, AtKey, Has, Owns
<1>16. ASSUME NEW s \in Session, LeaseRelease(s) PROVE OrderInv'
  BY <1>16 DEF LeaseRelease, Goto, NoLease, callVars, holdVars, slotVars, txVars, TypeOK,
    PlaceInv, OrderInv, InLoop, Blocked, AtKey, Has, Owns
<1>17. ASSUME NEW s \in Session, Exit(s) PROVE OrderInv'
  BY <1>17 DEF Exit, ExitSlot, LeaveSlot, Goto, holdVars, txVars, TypeOK, PlaceInv, OrderInv,
    InLoop, Blocked, AtKey, Has, Owns
<1>18. ASSUME NEW s \in Session, DropEnds(s) PROVE OrderInv'
  BY <1>18 DEF DropEnds, LoopEnds, EndTx, Goto, callVars, holdVars, slotVars, txVars, TypeOK,
    PlaceInv, OrderInv, InLoop, Blocked, AtKey, Has, Owns
<1>19. ASSUME NEW s \in Session, LeaseReleaseThrows(s) PROVE OrderInv'
  BY <1>19 DEF LeaseReleaseThrows, LoopEnds, EndTx, Goto, slotVars, txVars, TypeOK, PlaceInv,
    OrderInv, InLoop, Blocked, AtKey, Has, Owns
<1>20. ASSUME NEW s \in Session, TxLimitAbort(s) PROVE OrderInv'
  BY <1>20 DEF TxLimitAbort, EndTx, callVars, holdVars, slotVars, TypeOK, PlaceInv, OrderInv,
    InLoop, Blocked, AtKey, Has, Owns
<1>21. ASSUME Tick PROVE OrderInv'
  BY <1>21 DEF Tick, Running, Expired, callVars, holdVars, slotVars, TypeOK, PlaceInv, OrderInv,
    InLoop, Blocked, AtKey, Has, Owns
<1>22. ASSUME NEW k \in Key, TtlRemove(k) PROVE OrderInv'
  BY <1>22 DEF TtlRemove, Expired, NoLease, callVars, holdVars, slotVars, txVars, TypeOK,
    PlaceInv, OrderInv, InLoop, Blocked, AtKey, Has, Owns
<1>23. ASSUME NEW r \in Replica, Crash(r) PROVE OrderInv'
  BY <1>23 DEF Crash, Begun, TypeOK, PlaceInv, OrderInv, InLoop, Blocked, AtKey, Has, Owns
<1>24. ASSUME UNCHANGED vars PROVE OrderInv'
  <2>1. UNCHANGED <<pc, calls, closing, todo, batch, cur, holds, leaked>>
    BY <1>24 DEF vars, callVars, holdVars
  <2> QED BY <2>1 DEF OrderInv, InLoop, Blocked, AtKey, Has, Owns
<1>25. ASSUME NEW s \in Session, HandlerStep(s) PROVE OrderInv'
  BY <1>25, <1>1, <1>2, <1>3, <1>4, <1>5 DEF HandlerStep
<1>26. ASSUME NEW s \in Session, AcquireStep(s) PROVE OrderInv'
  BY <1>26, <1>6, <1>7, <1>8, <1>9, <1>10, <1>11, <1>12 DEF AcquireStep
<1>27. ASSUME NEW s \in Session, ReleaseStep(s) PROVE OrderInv'
  BY <1>27, <1>13, <1>14, <1>15, <1>16, <1>17, <1>18, <1>19 DEF ReleaseStep
<1> QED BY <1>20, <1>21, <1>22, <1>23, <1>24, <1>25, <1>26, <1>27 DEF Next, Finished

-----------------------------------------------------------------------------
(***************************************************************************)
(* Types.                                                                  *)
(***************************************************************************)

\* The part of TypeOK that is not about the slots.
TypeRest ==
  /\ pc \in [Session -> PC]
  /\ calls \in [Session -> 0..MaxCalls]
  /\ todo \in [Session -> SUBSET Key]
  /\ batch \in [Session -> SUBSET Key]
  /\ closing \in [Session -> BOOLEAN]
  /\ cur \in [Session -> Key \cup {NoKey}]
  /\ holds \in [Session -> SUBSET Key]
  /\ leased \in [Session -> SUBSET Key]
  /\ leaked \in [Session -> SUBSET Key]
  /\ lease \in [Key -> [owner : Session \cup {Nobody}, age : 0..(LeaseLimit + 1)]]
  /\ tx \in [Session -> {"none", "started", "open", "over"}]
  /\ txAge \in [Session -> 0..TxLimit]

\* Every step keeps that part.
LEMMA TypeStep == TypeRest /\ PlaceInv /\ [Next]_vars => TypeRest'
<1> SUFFICES ASSUME TypeRest, PlaceInv, [Next]_vars PROVE TypeRest'
  OBVIOUS
<1>1. ASSUME NEW s \in Session, StartTransaction(s) PROVE TypeRest'
  BY <1>1 DEF StartTransaction, callVars, holdVars, slotVars, TypeRest, PlaceInv, AtKey, PC
<1>2. ASSUME NEW s \in Session, FirstOperation(s) PROVE TypeRest'
  BY <1>2 DEF FirstOperation, callVars, holdVars, slotVars, TypeRest, PlaceInv, AtKey, PC
<1>3. ASSUME NEW s \in Session, EndTransaction(s) PROVE TypeRest'
  BY <1>3 DEF EndTransaction, EndTx, CanCommit, Goto, callVars, holdVars, slotVars,
    TypeRest, PlaceInv, AtKey, PC
<1>4. ASSUME NEW s \in Session, Throw(s) PROVE TypeRest'
  BY <1>4 DEF Throw, Goto, callVars, holdVars, slotVars, txVars, TypeRest, PlaceInv,
    AtKey, PC
<1>5. ASSUME NEW s \in Session, NEW keys \in SUBSET Key, Acquire(s, keys) PROVE TypeRest'
  <2>1. calls' \in [Session -> 0..MaxCalls]
    BY <1>5 DEF Acquire, TypeRest
  <2>2. todo' \in [Session -> SUBSET Key] /\ pc' \in [Session -> PC]
    BY <1>5 DEF Acquire, Goto, TypeRest, PC
  <2> QED BY <1>5, <2>1, <2>2 DEF Acquire, holdVars, txVars, TypeRest
<1>6. ASSUME NEW s \in Session, NEW k \in Key, Enter(s, k) PROVE TypeRest'
  BY <1>6 DEF Enter, Goto, holdVars, txVars, TypeRest, PlaceInv, AtKey, PC
<1>7. ASSUME NEW s \in Session, TakeSlot(s) PROVE TypeRest'
  <2>1. cur[s] \in Key /\ pc' \in [Session -> PC]
    BY <1>7 DEF TakeSlot, Taken, Goto, TypeRest, PlaceInv, AtKey, PC
  <2>2. /\ holds' \in [Session -> SUBSET Key] /\ batch' \in [Session -> SUBSET Key]
        /\ cur' \in [Session -> Key \cup {NoKey}]
    <3>1. CASE Taken(s)
      BY <2>1, <3>1 DEF Taken, TypeRest
    <3>2. CASE UNCHANGED <<holds, batch, cur>>
      BY <3>2 DEF TypeRest
    <3> QED BY <1>7, <3>1, <3>2 DEF TakeSlot
  <2> QED BY <1>7, <2>1, <2>2 DEF TakeSlot, txVars, TypeRest
<1>8. ASSUME NEW s \in Session, GiveUpSlot(s) PROVE TypeRest'
  BY <1>8 DEF GiveUpSlot, LeaveSlot, Fail, Goto, holdVars, txVars, TypeRest, PlaceInv,
    AtKey, PC
<1>9. ASSUME NEW s \in Session, LeaseTake(s) PROVE TypeRest'
  <2>1. lease' \in [Key -> [owner : Session \cup {Nobody}, age : 0..(LeaseLimit + 1)]]
    <3>1. ASSUME NEW l \in LeasesOf(s)
          PROVE  l \in [owner : Session \cup {Nobody}, age : 0..(LeaseLimit + 1)]
      BY DEF LeasesOf
    <3> QED BY <1>9, <3>1 DEF LeaseTake, TypeRest
  <2>2. UNCHANGED <<calls, todo, closing, leaked, slotVars, txVars>> /\ cur[s] \in Key
    BY <1>9 DEF LeaseTake, PlaceInv, AtKey
  <2>3. leased' \in [Session -> SUBSET Key]
    BY <1>9, <2>2 DEF LeaseTake, TypeRest
  <2> QED BY <1>9, <2>1, <2>2, <2>3 DEF LeaseTake, Taken, Goto, txVars, TypeRest, PC
<1>10. ASSUME NEW s \in Session, LeaseGiveUp(s) PROVE TypeRest'
  BY <1>10 DEF LeaseGiveUp, ExitSlot, LeaveSlot, Fail, Goto, holdVars, txVars, TypeRest,
    PlaceInv, AtKey, PC
<1>11. ASSUME NEW s \in Session, LeaseAckLost(s) PROVE TypeRest'
  BY <1>11 DEF LeaseAckLost, ExitSlot, LeaveSlot, Fail, LeaseFree, LeasesOf, Expired, Goto,
    holdVars, txVars, TypeRest, PlaceInv, AtKey, PC
<1>12. ASSUME NEW s \in Session, AcquireReturns(s) PROVE TypeRest'
  BY <1>12 DEF AcquireReturns, Goto, holdVars, slotVars, txVars, TypeRest, PlaceInv,
    AtKey, PC
<1>13. ASSUME NEW s \in Session, Release(s) PROVE TypeRest'
  BY <1>13 DEF Release, Goto, slotVars, txVars, TypeRest, PlaceInv, AtKey, PC
<1>14. ASSUME NEW s \in Session, NEW k \in Key, Drop(s, k) PROVE TypeRest'
  BY <1>14 DEF Drop, ExitSlot, LeaveSlot, txVars, TypeRest, PlaceInv, AtKey, PC
<1>15. ASSUME NEW s \in Session, NEW k \in Key, DropLeased(s, k) PROVE TypeRest'
  BY <1>15 DEF DropLeased, Goto, slotVars, txVars, TypeRest, PlaceInv, AtKey, PC
<1>16. ASSUME NEW s \in Session, LeaseRelease(s) PROVE TypeRest'
  <2>1. NoLease \in [owner : Session \cup {Nobody}, age : 0..(LeaseLimit + 1)]
    BY DEF NoLease
  <2>2. lease' \in [Key -> [owner : Session \cup {Nobody}, age : 0..(LeaseLimit + 1)]]
    BY <1>16, <2>1 DEF LeaseRelease, TypeRest
  <2>3. pc' \in [Session -> PC]
    BY <1>16 DEF LeaseRelease, Goto, TypeRest, PC
  <2> QED BY <1>16, <2>2, <2>3 DEF LeaseRelease, callVars, holdVars, txVars, TypeRest
<1>17. ASSUME NEW s \in Session, Exit(s) PROVE TypeRest'
  BY <1>17 DEF Exit, ExitSlot, LeaveSlot, Goto, holdVars, txVars, TypeRest, PlaceInv,
    AtKey, PC
<1>18. ASSUME NEW s \in Session, DropEnds(s) PROVE TypeRest'
  <2>1. pc' \in [Session -> PC]
    BY <1>18 DEF DropEnds, LoopEnds, Goto, TypeRest, PC
  <2>2. tx' \in [Session -> {"none", "started", "open", "over"}] /\ txAge' \in [Session -> 0..TxLimit]
    BY <1>18 DEF DropEnds, LoopEnds, EndTx, txVars, TypeRest
  <2> QED BY <1>18, <2>1, <2>2 DEF DropEnds, callVars, holdVars, TypeRest
<1>19. ASSUME NEW s \in Session, LeaseReleaseThrows(s) PROVE TypeRest'
  <2>1. pc' \in [Session -> PC]
    BY <1>19 DEF LeaseReleaseThrows, LoopEnds, Goto, TypeRest, PC
  <2>2. tx' \in [Session -> {"none", "started", "open", "over"}] /\ txAge' \in [Session -> 0..TxLimit]
    BY <1>19 DEF LeaseReleaseThrows, LoopEnds, EndTx, txVars, TypeRest
  <2>3. cur[s] \in Key
    BY <1>19 DEF LeaseReleaseThrows, PlaceInv, AtKey
  <2>4. leaked' \in [Session -> SUBSET Key]
    BY <1>19, <2>3 DEF LeaseReleaseThrows, TypeRest
  <2> QED BY <1>19, <2>1, <2>2, <2>4 DEF LeaseReleaseThrows, TypeRest
<1>20. ASSUME NEW s \in Session, TxLimitAbort(s) PROVE TypeRest'
  BY <1>20 DEF TxLimitAbort, EndTx, callVars, holdVars, slotVars, TypeRest, PlaceInv,
    AtKey, PC
<1>21. ASSUME Tick PROVE TypeRest'
  <2>1. txAge' \in [Session -> 0..TxLimit]
    BY <1>21 DEF Tick, TypeRest
  <2>2. \A k \in Key : lease'[k] \in [owner : Session \cup {Nobody}, age : 0..(LeaseLimit + 1)]
    <3> SUFFICES ASSUME NEW k \in Key
                 PROVE  lease'[k] \in [owner : Session \cup {Nobody}, age : 0..(LeaseLimit + 1)]
      OBVIOUS
    <3>1. CASE Running(k)
      <4>1. lease[k].age + 1 \in 0..(LeaseLimit + 1)
        BY <3>1 DEF Running, Expired, TypeRest
      <4> QED BY <1>21, <3>1, <4>1 DEF Tick, TypeRest
    <3>2. CASE ~Running(k)
      BY <1>21, <3>2 DEF Tick, TypeRest
    <3> QED BY <3>1, <3>2
  <2>3. lease' \in [Key -> [owner : Session \cup {Nobody}, age : 0..(LeaseLimit + 1)]]
    BY <1>21, <2>2 DEF Tick
  <2> QED BY <1>21, <2>1, <2>3 DEF Tick, callVars, holdVars, TypeRest
<1>22. ASSUME NEW k \in Key, TtlRemove(k) PROVE TypeRest'
  BY <1>22 DEF TtlRemove, Expired, NoLease, callVars, holdVars, slotVars, txVars,
    TypeRest, PlaceInv, AtKey, PC
<1>23. ASSUME NEW r \in Replica, Crash(r) PROVE TypeRest'
  BY <1>23 DEF Crash, Begun, TypeRest, PlaceInv, AtKey, PC
<1>24. ASSUME UNCHANGED vars PROVE TypeRest'
  BY <1>24 DEF vars, callVars, holdVars, slotVars, txVars, TypeRest, PlaceInv, AtKey, PC
<1>25. ASSUME NEW s \in Session, HandlerStep(s) PROVE TypeRest'
  BY <1>25, <1>1, <1>2, <1>3, <1>4, <1>5 DEF HandlerStep
<1>26. ASSUME NEW s \in Session, AcquireStep(s) PROVE TypeRest'
  BY <1>26, <1>6, <1>7, <1>8, <1>9, <1>10, <1>11, <1>12 DEF AcquireStep
<1>27. ASSUME NEW s \in Session, ReleaseStep(s) PROVE TypeRest'
  BY <1>27, <1>13, <1>14, <1>15, <1>16, <1>17, <1>18, <1>19 DEF ReleaseStep
<1> QED BY <1>20, <1>21, <1>22, <1>23, <1>24, <1>25, <1>26, <1>27 DEF Next, Finished

-----------------------------------------------------------------------------
(***************************************************************************)
(* The invariant.                                                          *)
(***************************************************************************)

LEMMA InitInv == Init => IInv
<1> SUFFICES ASSUME Init PROVE IInv
  OBVIOUS
<1>1. TypeOK
  BY DEF Init, TypeOK, PC, NoLease
<1>2. \A s \in Session : Owns(s) = {} /\ Uses(s) = {} /\ leaked[s] = {}
  BY DEF Init, Owns, Uses
<1>3. PlaceInv /\ ClaimInv /\ LeaseInv /\ LeakInv
  BY <1>1, <1>2 DEF Init, PlaceInv, ClaimInv, LeaseInv, LeakInv, AtKey, InLoop, Blocked
<1>4. SemInv
  BY <1>2 DEF SemInv, Has
<1>5. SlotAccounting
  <2>1. \A r \in Replica, k \in Key : UsersOf(r, k) = {} /\ LeakedIn(r, k) = {}
    BY <1>2 DEF UsersOf, LeakedIn
  <2>2. Cardinality({}) + Cardinality({}) = 0
    BY FS_EmptySet
  <2> QED BY <2>1, <2>2 DEF Init, SlotAccounting
<1>6. OrderInv
  BY <1>2 DEF Init, OrderInv, InLoop, Blocked, AtKey, Has
<1> QED BY <1>1, <1>3, <1>4, <1>5, <1>6 DEF IInv

LEMMA NextInv == IInv /\ [Next]_vars => IInv'
<1> SUFFICES ASSUME IInv, [Next]_vars PROVE IInv'
  OBVIOUS
<1>1. TypeOK /\ PlaceInv /\ ClaimInv /\ SemInv /\ SlotAccounting /\ LeaseInv /\ LeakInv /\ OrderInv
  BY DEF IInv
<1>2. SlotStep
  BY <1>1, SlotSteps
<1>3. SlotAccounting' /\ users' \in [Replica -> [Key -> Nat]] /\ sem' \in [Replica -> [Key -> BOOLEAN]]
  BY <1>1, <1>2, CountStep
<1>4. TypeRest'
  <2>1. TypeRest
    BY <1>1 DEF TypeOK, TypeRest
  <2> QED BY <1>1, <2>1, TypeStep
<1>5. TypeOK'
  BY <1>3, <1>4 DEF TypeOK, TypeRest
<1>6. SemInv'
  BY <1>1, <1>2, SemStep
<1>7. PlaceInv' /\ ClaimInv' /\ LeaseInv' /\ LeakInv' /\ OrderInv'
  BY <1>1, PlaceStep, ClaimStep, LeaseStep, LeakStep, OrderStep
<1> QED BY <1>3, <1>5, <1>6, <1>7 DEF IInv

\* The inductive invariant holds in every reachable state.
THEOREM InductiveInvariant == Spec => []IInv
BY InitInv, NextInv, PTL DEF Spec

\* Every variable keeps its type: in particular no user count drops below zero.
THEOREM TypeCorrect == Spec => []TypeOK
<1>1. IInv => TypeOK
  BY DEF IInv
<1> QED BY <1>1, InductiveInvariant, PTL

\* Slot.Users counts the users of a slot, so Leave removes no slot in use.
THEOREM SlotAccountingHolds == Spec => []SlotAccounting
<1>1. IInv => SlotAccounting
  BY DEF IInv
<1> QED BY <1>1, InductiveInvariant, PTL

\* One owner per name and replica.
THEOREM InProcessExclusionHolds == Spec => []InProcessExclusion
<1>1. IInv => InProcessExclusion
  BY DEF IInv, SemInv, Has, InProcessExclusion
<1> QED BY <1>1, InductiveInvariant, PTL

LEMMA LeasesExclude == IInv => LeaseExclusion
BY DEF IInv, LeaseInv, LeaseExclusion

\* One lease holder per name among the transactions that can commit.
THEOREM LeaseExclusionHolds == Spec => []LeaseExclusion
BY LeasesExclude, InductiveInvariant, PTL

\* With a store that keeps its promise not to throw, an answered request has
\* left no slot, no semaphore and no claim to a lease behind.
THEOREM NothingLeftBehindHolds == Spec => [](~StoreThrows => NothingLeftBehind)
<1>1. IInv => (~StoreThrows => NothingLeftBehind)
  <2> SUFFICES ASSUME IInv, ~StoreThrows
               PROVE  NothingLeftBehind
    OBVIOUS
  <2>1. ASSUME NEW s \in Session, pc[s] = "done"
        PROVE  Uses(s) = {} /\ leased[s] = {}
    <3>1. Owns(s) = {} /\ leaked[s] = {}
      BY <2>1 DEF IInv, PlaceInv, LeakInv
    <3> QED BY <2>1, <3>1 DEF IInv, ClaimInv, Owns, Uses
  <2>2. ASSUME NEW r \in Replica, NEW k \in Key,
               \A s \in Session : ReplicaOf[s] = r /\ pc[s] # "done" => k \notin Uses(s)
        PROVE  users[r][k] = 0
    <3>1. UsersOf(r, k) = {}
      BY <2>1, <2>2 DEF UsersOf
    <3>2. LeakedIn(r, k) = {}
      BY DEF IInv, LeakInv, LeakedIn
    <3>3. users[r][k] = Cardinality(UsersOf(r, k)) + Cardinality(LeakedIn(r, k))
      BY DEF IInv, SlotAccounting
    <3> QED BY <3>1, <3>2, <3>3, FS_EmptySet
  <2> QED BY <2>1, <2>2 DEF NothingLeftBehind
<1> QED BY <1>1, InductiveInvariant, PTL

\* Requests with one call each never wait in a circle, whatever its length.
THEOREM WaitsAreOrderedHolds == Spec => [](MaxCalls = 1 => WaitsAreOrdered)
<1>1. IInv => (MaxCalls = 1 => WaitsAreOrdered)
  <2> SUFFICES ASSUME IInv, MaxCalls = 1, NEW s \in Session, NEW t \in Session, s # t,
                      Blocks(t, s), Blocked(t)
               PROVE  \/ cur[s] < cur[t]
                      \/ cur[s] = cur[t] /\ pc[s] = "wait" /\ pc[t] = "lease"
    BY DEF WaitsAreOrdered
  <2>1. holds[t] = batch[t] /\ \A b \in batch[t] : b < cur[t]
    BY DEF IInv, OrderInv, InLoop, Blocked
  <2>2. CASE pc[s] = "wait"
    BY <2>1, <2>2 DEF Blocks, Blocked, Owns
  <2>3. CASE pc[s] = "lease" /\ LeaseStore /\ cur[s] \in leased[t]
    <3>1. cur[s] \in holds[t] \cup batch[t] \cup leaked[t]
      BY <2>3 DEF IInv, ClaimInv
    <3>2. leaked[t] = {}
      BY DEF IInv, OrderInv, InLoop, Blocked
    <3> QED BY <2>1, <3>1, <3>2
  <2> QED BY <2>2, <2>3 DEF Blocks
<1> QED BY <1>1, InductiveInvariant, PTL

-----------------------------------------------------------------------------
(***************************************************************************)
(* NameLocks implements SiblingLocks.                                      *)
(***************************************************************************)

\* What the abstract lock sees of a step that it does not take part in.
LEMMA PromiseStutters ==
  ASSUME \A s \in Session : Has(s)' = Has(s), leased' = leased,
         \A s \in Session : CanCommit(s)' <=> CanCommit(s)
  PROVE  UNCHANGED Promise!lockVars
<1>1. [s \in Session |-> Has(s)]' = [s \in Session |-> Has(s)]
  OBVIOUS
<1>2. {s \in Session : CanCommit(s)}' = {s \in Session : CanCommit(s)}
  OBVIOUS
<1> QED BY <1>1, <1>2 DEF Promise!lockVars

LEMMA PromiseEnds ==
  ASSUME NEW s \in Session, \A t \in Session : Has(t)' = Has(t), leased' = leased, EndTx(s), TypeOK
  PROVE  Promise!End(s)
BY DEF Promise!End, EndTx, CanCommit, TypeOK

\* The first and the last of several steps may name the same key twice: the
\* state of the abstract lock is all that matters.
LEMMA PromiseStep == IInv /\ [Next]_vars => [Promise!LockNext]_(Promise!lockVars)
<1> SUFFICES ASSUME IInv, [Next]_vars PROVE Promise!LockNext \/ UNCHANGED Promise!lockVars
  OBVIOUS
<1> DEFINE Stutters == UNCHANGED Promise!lockVars
<1>0. TypeOK /\ PlaceInv /\ ClaimInv /\ SemInv /\ LeaseInv
  BY DEF IInv
<1> USE DEF Has, Owns, CanCommit
<1>1. ASSUME NEW s \in Session, StartTransaction(s) PROVE Promise!Begin(s)
  <2>1. leased[s] = {} /\ tx' = [tx EXCEPT ![s] = "started"] /\ UNCHANGED <<pc, callVars, holdVars>>
    BY <1>0, <1>1 DEF StartTransaction, ClaimInv
  <2>2. \A t \in Session : Has(t)' = Has(t)
    BY <2>1 DEF callVars, holdVars
  <2> HIDE DEF Has
  <2> QED BY <1>0, <2>1, <2>2 DEF Promise!Begin, holdVars, TypeOK
<1>2. ASSUME NEW s \in Session, FirstOperation(s) PROVE Stutters
  BY <1>0, <1>2, PromiseStutters DEF FirstOperation, callVars, holdVars, TypeOK
<1>3. ASSUME NEW s \in Session, EndTransaction(s) PROVE Promise!End(s)
  <2>1. \A t \in Session : Has(t)' = Has(t)
    BY <1>0, <1>3 DEF EndTransaction, Goto, callVars, holdVars, TypeOK
  <2> QED BY <1>0, <1>3, <2>1, PromiseEnds DEF EndTransaction, holdVars
<1>4. ASSUME NEW s \in Session, Throw(s) PROVE Stutters
  BY <1>0, <1>4, PromiseStutters DEF Throw, Goto, callVars, holdVars, txVars, TypeOK
<1>5. ASSUME NEW s \in Session, NEW keys \in SUBSET Key, Acquire(s, keys) PROVE Stutters
  BY <1>0, <1>5, PromiseStutters DEF Acquire, Goto, holdVars, txVars, TypeOK
<1>6. ASSUME NEW s \in Session, NEW k \in Key, Enter(s, k) PROVE Stutters
  BY <1>0, <1>6, PromiseStutters DEF Enter, Goto, holdVars, txVars, TypeOK
<1>7. ASSUME NEW s \in Session, TakeSlot(s) PROVE Promise!Grant(s, cur[s]) /\ cur[s] \in Key
  <2>1. cur[s] \in Key /\ \A t \in Promise!Neighbours(s) : cur[s] \notin Has(t)
    BY <1>0, <1>7 DEF TakeSlot, PlaceInv, AtKey, SemInv, Promise!Neighbours
  <2>2. /\ \A t \in Session \ {s} : Has(t)' = Has(t)
        /\ Has(s)' = Has(s) \cup {cur[s]}
    BY <1>0, <1>7 DEF TakeSlot, Taken, Goto, TypeOK
  <2>3. UNCHANGED <<leased, tx>>
    BY <1>7 DEF TakeSlot, txVars
  <2> HIDE DEF Has
  <2> QED BY <2>1, <2>2, <2>3 DEF Promise!Grant, Promise!FreeInReplica, Promise!Neighbours
<1>8. ASSUME NEW s \in Session, GiveUpSlot(s) PROVE Stutters
  BY <1>0, <1>8, PromiseStutters DEF GiveUpSlot, Fail, Goto, holdVars, txVars, TypeOK
<1>9. ASSUME NEW s \in Session, LeaseTake(s)
      PROVE  cur[s] \in Key /\ (Promise!Share(s, cur[s]) \/ Stutters)
  <2>1. cur[s] \in Key /\ cur[s] \in Has(s) /\ UNCHANGED tx
    BY <1>0, <1>9 DEF LeaseTake, PlaceInv, AtKey, txVars
  <2>2. \A t \in Session : Has(t)' = Has(t)
    BY <1>0, <1>9 DEF LeaseTake, Taken, Goto, TypeOK
  <2>3. leased' = [leased EXCEPT ![s] = @ \cup {cur[s]}]
    BY <1>9 DEF LeaseTake
  <2>4. ASSUME LeaseStore, NEW t \in Session \ {s}, CanCommit(t) PROVE cur[s] \notin leased[t]
    <3> SUFFICES ASSUME cur[s] \in leased[t] PROVE FALSE
      OBVIOUS
    <3>1. lease[cur[s]].owner = t /\ lease[cur[s]].age <= StartLimit + txAge[t]
      BY <1>0, <2>4 DEF LeaseInv
    <3>2. LeaseFree(cur[s])
      BY <1>9, <2>4 DEF LeaseTake
    <3>3. lease[cur[s]].age > LeaseLimit
      BY <3>1, <3>2 DEF LeaseFree, Expired
    <3>4. txAge[t] \in 0..TxLimit
      BY <1>0 DEF TypeOK
    <3>5. lease[cur[s]].age \in 0..(LeaseLimit + 1)
      BY <1>0, <2>1 DEF TypeOK
    <3> QED BY <3>1, <3>3, <3>4, <3>5
  <2>5. CASE LeaseStore
    <3>1. Promise!FreeAcrossReplicas(s, cur[s])
      BY <2>4, <2>5 DEF Promise!FreeAcrossReplicas
    <3> HIDE DEF Has
    <3> QED BY <1>0, <2>1, <2>2, <2>3, <2>5, <3>1 DEF Promise!Share, TypeOK
  <2>6. CASE ~LeaseStore
    <3> HIDE DEF Has
    <3> QED BY <2>1, <2>2, <2>6 DEF Promise!lockVars
  <2> QED BY <2>1, <2>5, <2>6
\* A session that gives a name back in its replica.
<1>10. ASSUME NEW s \in Session, NEW k \in Key \ leased[s], UNCHANGED <<leased, tx>>,
              Has(s)' = Has(s) \ {k}, \A t \in Session \ {s} : Has(t)' = Has(t)
       PROVE  Promise!Give(s, k)
  <2> HIDE DEF Has
  <2> QED BY <1>10 DEF Promise!Give
<1>11. ASSUME NEW s \in Session, AtKey(s) PROVE cur[s] \in Key \ (holds[s] \cup batch[s])
  BY <1>0, <1>11 DEF PlaceInv
<1>12. ASSUME NEW s \in Session, pc[s] \in {"lease", "unlease", "exit"}
       PROVE  cur[s] \in Key \ leased[s] /\ cur[s] \notin leaked[s]
  BY <1>0, <1>11, <1>12 DEF AtKey, ClaimInv, SemInv
<1>13. ASSUME NEW s \in Session, LeaseGiveUp(s) \/ LeaseAckLost(s) \/ Exit(s)
       PROVE  Promise!Give(s, cur[s]) /\ cur[s] \in Key
  <2>1. pc[s] \in {"lease", "exit"} /\ UNCHANGED <<leased, tx>>
    BY <1>13 DEF LeaseGiveUp, LeaseAckLost, Exit, holdVars, txVars
  <2>2. Has(s)' = Has(s) \ {cur[s]} /\ \A t \in Session \ {s} : Has(t)' = Has(t)
    BY <1>0, <1>11, <1>12, <1>13, <2>1
    DEF LeaseGiveUp, LeaseAckLost, Exit, Fail, Goto, holdVars, TypeOK, AtKey
  <2>3. cur[s] \in Key \ leased[s]
    BY <1>12, <2>1
  <2> HIDE DEF Has
  <2> QED BY <1>10, <2>1, <2>2, <2>3
<1>14. ASSUME NEW s \in Session, AcquireReturns(s) PROVE Stutters
  BY <1>0, <1>14, PromiseStutters DEF AcquireReturns, Goto, holdVars, txVars, TypeOK, PlaceInv, InLoop
<1>15. ASSUME NEW s \in Session, Release(s) PROVE Stutters
  BY <1>0, <1>15, PromiseStutters DEF Release, Goto, txVars, TypeOK, PlaceInv
<1>16. ASSUME NEW s \in Session, NEW k \in Key, Drop(s, k) PROVE Promise!Give(s, k)
  <2>1. Has(s)' = Has(s) \ {k} /\ \A t \in Session \ {s} : Has(t)' = Has(t)
    BY <1>0, <1>16 DEF Drop, TypeOK, SemInv
  <2>2. k \in Key \ leased[s] /\ UNCHANGED <<leased, tx>>
    BY <1>16 DEF Drop, txVars
  <2> HIDE DEF Has
  <2> QED BY <1>10, <2>1, <2>2
<1>17. ASSUME NEW s \in Session, NEW k \in Key, DropLeased(s, k) PROVE Promise!Unshare(s, k)
  <2>1. \A t \in Session : Has(t)' = Has(t)
    BY <1>0, <1>17 DEF DropLeased, Goto, TypeOK
  <2> HIDE DEF Has
  <2>2. leased' = [leased EXCEPT ![s] = @ \ {k}] /\ leased \in [Session -> SUBSET Key] /\ tx' = tx
    BY <1>0, <1>17 DEF DropLeased, txVars, TypeOK
  <2>3. [t \in Session |-> IF LeaseStore THEN leased[t] ELSE {}]'
          = [[t \in Session |-> IF LeaseStore THEN leased[t] ELSE {}] EXCEPT ![s] = @ \ {k}]
    <3>1. CASE LeaseStore
      BY <2>2, <3>1
    <3>2. CASE ~LeaseStore
      BY <3>2
    <3> QED BY <3>1, <3>2
  <2> QED BY <2>1, <2>2, <2>3 DEF Promise!Unshare
<1>18. ASSUME NEW s \in Session, LeaseRelease(s) PROVE Stutters
  BY <1>0, <1>18, PromiseStutters DEF LeaseRelease, Goto, callVars, holdVars, txVars, TypeOK
<1>19. ASSUME NEW s \in Session, LoopEnds(s), leased' = leased, \A t \in Session : Has(t)' = Has(t)
       PROVE  Promise!End(s) \/ Stutters
  <2> HIDE DEF Has
  <2>1. CASE EndTx(s)
    BY <1>0, <1>19, <2>1, PromiseEnds
  <2>2. CASE UNCHANGED txVars
    BY <1>19, <2>2, PromiseStutters DEF txVars
  <2> QED BY <1>19, <2>1, <2>2 DEF LoopEnds
<1>20. ASSUME NEW s \in Session, DropEnds(s) PROVE Promise!End(s) \/ Stutters
  <2>1. \A t \in Session : Has(t)' = Has(t)
    BY <1>0, <1>20 DEF DropEnds, LoopEnds, Goto, callVars, holdVars, TypeOK
  <2> QED BY <1>19, <1>20, <2>1 DEF DropEnds, holdVars
<1>21. ASSUME NEW s \in Session, LeaseReleaseThrows(s) PROVE Promise!End(s) \/ Stutters
  <2>1. pc'[s] \in {"work", "done"} /\ \A t \in Session \ {s} : pc'[t] = pc[t]
    BY <1>0, <1>21 DEF LeaseReleaseThrows, LoopEnds, Goto, TypeOK
  <2>2. \A t \in Session : Has(t)' = Has(t)
    BY <1>0, <1>21, <2>1 DEF LeaseReleaseThrows, TypeOK
  <2> QED BY <1>19, <1>21, <2>2 DEF LeaseReleaseThrows
<1>22. ASSUME NEW s \in Session, TxLimitAbort(s) PROVE Promise!End(s)
  BY <1>0, <1>22, PromiseEnds DEF TxLimitAbort, callVars, holdVars
<1>23. ASSUME Tick \/ (\E k \in Key : TtlRemove(k)) \/ UNCHANGED vars PROVE Stutters
  BY <1>23, PromiseStutters DEF Tick, TtlRemove, vars, callVars, holdVars, txVars
<1>24. ASSUME NEW r \in Replica, Crash(r) PROVE Promise!Crash(r)
  <2>1. \A s \in Session : ReplicaOf[s] # r => pc'[s] = pc[s] /\ cur'[s] = cur[s] /\ tx'[s] = tx[s]
    BY <1>0, <1>24 DEF Crash, TypeOK
  <2>2. \A s \in Session : ReplicaOf[s] = r => pc'[s] \in {"work", "done"} /\ tx'[s] \in {"none", "over"}
    BY <1>0, <1>24 DEF Crash, Begun, TypeOK, PlaceInv
  <2>3. \A s \in Session :
          /\ batch'[s] = IF ReplicaOf[s] = r THEN {} ELSE batch[s]
          /\ holds'[s] = IF ReplicaOf[s] = r THEN {} ELSE holds[s]
          /\ leaked'[s] = IF ReplicaOf[s] = r THEN {} ELSE leaked[s]
          /\ leased'[s] = IF ReplicaOf[s] = r THEN {} ELSE leased[s]
    BY <1>0, <1>24 DEF Crash, TypeOK
  <2>4. \A s \in Session : Has(s)' = IF ReplicaOf[s] = r THEN {} ELSE Has(s)
    BY <2>1, <2>2, <2>3
  <2>5. \A s \in Session : CanCommit(s)' <=> CanCommit(s) /\ ReplicaOf[s] # r
    BY <2>1, <2>2
  <2> HIDE DEF Has, CanCommit
  <2> QED BY <2>3, <2>4, <2>5 DEF Promise!Crash
<1> HIDE DEF Has, Owns, CanCommit, Stutters
<1>25. ASSUME NEW s \in Session, HandlerStep(s) PROVE Promise!LockNext \/ Stutters
  BY <1>25, <1>1, <1>2, <1>3, <1>4, <1>5 DEF HandlerStep, Promise!LockNext
<1>26. ASSUME NEW s \in Session, AcquireStep(s) PROVE Promise!LockNext \/ Stutters
  <2>1. CASE TakeSlot(s)
    BY <1>7, <2>1 DEF Promise!LockNext
  <2>2. CASE LeaseTake(s)
    <3>1. cur[s] \in Key /\ (Promise!Share(s, cur[s]) \/ Stutters)
      BY <1>9, <2>2
    <3>2. ASSUME NEW k \in Key, Promise!Share(s, k) PROVE Promise!LockNext
      BY <3>2 DEF Promise!LockNext
    <3>3. Promise!Share(s, cur[s]) => \E k \in Key : Promise!Share(s, k)
      BY <3>1 DEF Promise!Share, Promise!FreeAcrossReplicas
    <3> QED BY <3>1, <3>2, <3>3
  <2>3. CASE LeaseGiveUp(s) \/ LeaseAckLost(s)
    BY <1>13, <2>3 DEF Promise!LockNext
  <2> QED BY <1>26, <1>6, <1>8, <1>14, <2>1, <2>2, <2>3 DEF AcquireStep
<1>27. ASSUME NEW s \in Session, ReleaseStep(s) PROVE Promise!LockNext \/ Stutters
  BY <1>27, <1>13, <1>15, <1>16, <1>17, <1>18, <1>20, <1>21 DEF ReleaseStep, Promise!LockNext
<1>28. ASSUME NEW r \in Replica, Crash(r) PROVE Promise!LockNext
  BY <1>24, <1>28 DEF Promise!LockNext, Replica
<1>29. Promise!LockNext \/ Stutters
  BY <1>22, <1>23, <1>25, <1>26, <1>27, <1>28 DEF Next, Finished, Promise!LockNext
<1> QED BY <1>29 DEF Stutters

LEMMA PromiseInit == Init => Promise!LockInit
BY DEF Init, Promise!LockInit, Has, Owns, CanCommit

\* The locks with their semaphores, leases and clocks implement SiblingLocks.
THEOREM KeepsPromise == Spec => PromiseKept
<1>1. IInv /\ [Next]_vars => [Promise!LockNext]_(Promise!lockVars)
  BY PromiseStep
<1> QED BY <1>1, PromiseInit, InductiveInvariant, PTL DEF Spec, PromiseKept, Promise!LockSpec
=============================================================================
