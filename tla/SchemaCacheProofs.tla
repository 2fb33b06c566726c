------------------------- MODULE SchemaCacheProofs -------------------------
(***************************************************************************)
(* Proofs about SchemaCache for any requests, tenants, limit of the cache  *)
(* and number of versions.                                                 *)
(***************************************************************************)
EXTENDS SchemaCache, TLAPS

USE LimitAssumption, NoneAssumption

\* Versions are numbers and None is not one.
LEMMA Versions ==
  /\ \A v \in Version : v \in Nat /\ v # None
  /\ \A v, w \in Version : Larger(v, w) \in Version /\ v <= Larger(v, w) /\ w <= Larger(v, w)
  /\ \A v, w \in Version : Larger(v, w) = v \/ Larger(v, w) = w
BY DEF Version, Larger

\* Every step keeps the types.
LEMMA TypeStep ==
  ASSUME TypeOK, [Next]_vars
  PROVE  TypeOK'
<1>1. ASSUME NEW r \in Request, Begin(r) PROVE TypeOK'
  <2>1. PICK t \in Tenant :
          asks' = [asks EXCEPT ![r] = t] /\ since' = [since EXCEPT ![r] = known[t]]
    BY <1>1 DEF Begin
  <2> QED BY <1>1, <2>1 DEF Begin, TypeOK, history, environment, At, Goto, PC, Schema
<1>2. ASSUME NEW r \in Request, Lookup(r) PROVE TypeOK'
  BY <1>2 DEF Lookup, TypeOK, replica, environment, history, At, Goto, PC, Schema,
      Cached
<1>3. ASSUME NEW r \in Request, Enter(r) PROVE TypeOK'
  BY <1>3 DEF Enter, TypeOK, replica, environment, history, At, Goto, PC, Schema, Cached
<1>4. ASSUME NEW r \in Request, CheckAgain(r) PROVE TypeOK'
  BY <1>4 DEF CheckAgain, TypeOK, replica, environment, history, At, Goto, PC, Schema,
      Cached
<1>5. ASSUME NEW r \in Request, Populate(r) PROVE TypeOK'
  BY <1>5 DEF Populate, TypeOK, replica, environment, history, At, Goto, PC, Schema,
      Cached
<1>6. ASSUME NEW r \in Request, Store(r) PROVE TypeOK'
  BY <1>6 DEF Store, TypeOK, replica, environment, history, At, Goto, PC, Schema, Cached
<1>7. ASSUME NEW r \in Request, Release(r) PROVE TypeOK'
  BY <1>7 DEF Release, TypeOK, replica, environment, history, At, Goto, PC, Schema,
      Cached
<1>8. ASSUME NEW t \in Tenant, Announce(t) PROVE TypeOK'
  BY <1>8 DEF Announce, TypeOK, replica, environment, history, At, Goto, PC, Schema,
      Cached
<1>9. ASSUME NEW t \in Tenant, Change(t) PROVE TypeOK'
  <2>1. model' \in [Tenant -> Version] /\ model'[t] \in Version
    BY <1>9 DEF Change, TypeOK, Version
  <2>2. events' \subseteq Tenant \X Version
    BY <1>9, <2>1 DEF Change, TypeOK
  <2> QED BY <1>9, <2>1, <2>2 DEF Change, TypeOK, replica, history
<1>10. ASSUME NEW t \in Tenant, Evict(t) PROVE TypeOK'
  BY <1>10 DEF Evict, TypeOK, replica, environment, history, At, Goto, PC, Schema,
      Cached
<1>11. ASSUME NEW t \in Tenant, NEW v \in Version, Invalidate(t, v) PROVE TypeOK'
  <2>1. known' \in [Tenant -> Version]
    BY <1>11, Versions DEF Invalidate, TypeOK
  <2>2. lost' \in [Tenant -> BOOLEAN]
    <3>1. lost \in [Tenant -> BOOLEAN]
      BY DEF TypeOK
    <3>2. lost' = [lost EXCEPT ![t] = Overlapped(t, v) \/ (lost[t] /\ Building(t))]
      BY <1>11 DEF Invalidate
    <3>3. (Overlapped(t, v) \/ (lost[t] /\ Building(t))) \in BOOLEAN
      OBVIOUS
    <3> QED BY <3>1, <3>2, <3>3
  <2>3. events' \subseteq Tenant \X Version /\ cache' \in [Tenant -> Schema]
    BY <1>11 DEF Invalidate, TypeOK, Schema
  <2> QED BY <1>11, <2>1, <2>2, <2>3 DEF Invalidate, TypeOK
<1>12. CASE UNCHANGED vars
  BY <1>12 DEF vars, TypeOK, replica, environment, history, At, Goto, PC, Schema, Cached
<1> QED BY <1>1, <1>2, <1>3, <1>4, <1>5, <1>6, <1>7, <1>8, <1>9, <1>10, <1>11, <1>12 DEF Next, RequestStep

\* The semaphore has one holder, which stands behind it.
LEMMA HolderStep ==
  ASSUME TypeOK, HolderInv, [Next]_vars
  PROVE  HolderInv'
<1>1. ASSUME NEW r \in Request, Begin(r) PROVE HolderInv'
  BY <1>1 DEF Begin, HolderInv, TypeOK, replica, environment, history, At, Goto
<1>2. ASSUME NEW r \in Request, Lookup(r) PROVE HolderInv'
  BY <1>2 DEF Lookup, HolderInv, TypeOK, replica, environment, history, At, Goto
<1>3. ASSUME NEW r \in Request, Enter(r) PROVE HolderInv'
  BY <1>3 DEF Enter, HolderInv, TypeOK, replica, environment, history, At, Goto
<1>4. ASSUME NEW r \in Request, CheckAgain(r) PROVE HolderInv'
  BY <1>4 DEF CheckAgain, HolderInv, TypeOK, replica, environment, history, At, Goto
<1>5. ASSUME NEW r \in Request, Populate(r) PROVE HolderInv'
  BY <1>5 DEF Populate, HolderInv, TypeOK, replica, environment, history, At, Goto
<1>6. ASSUME NEW r \in Request, Store(r) PROVE HolderInv'
  BY <1>6 DEF Store, HolderInv, TypeOK, replica, environment, history, At, Goto
<1>7. ASSUME NEW r \in Request, Release(r) PROVE HolderInv'
  BY <1>7 DEF Release, HolderInv, TypeOK, replica, environment, history, At, Goto
<1>8. ASSUME NEW t \in Tenant, Announce(t) PROVE HolderInv'
  BY <1>8 DEF Announce, HolderInv, TypeOK, replica, environment, history, At, Goto
<1>9. ASSUME NEW t \in Tenant, Change(t) PROVE HolderInv'
  BY <1>9 DEF Change, HolderInv, TypeOK, replica, environment, history, At, Goto
<1>10. ASSUME NEW t \in Tenant, Evict(t) PROVE HolderInv'
  BY <1>10 DEF Evict, HolderInv, TypeOK, replica, environment, history, At, Goto
<1>11. ASSUME NEW t \in Tenant, NEW v \in Version, Invalidate(t, v) PROVE HolderInv'
  BY <1>11 DEF Invalidate, HolderInv, TypeOK, replica, environment, history, At, Goto
<1>12. CASE UNCHANGED vars
  BY <1>12 DEF vars, HolderInv, TypeOK, replica, environment, history, At, Goto
<1> QED BY <1>1, <1>2, <1>3, <1>4, <1>5, <1>6, <1>7, <1>8, <1>9, <1>10, <1>11, <1>12 DEF Next, RequestStep

\* Who builds is the only one, and the schema is not cached.
LEMMA BuildsStep ==
  ASSUME TypeOK, HolderInv, BuildsOnce, [Next]_vars
  PROVE  BuildsOnce'
<1>1. ASSUME NEW r \in Request, Begin(r) PROVE BuildsOnce'
  BY <1>1 DEF Begin, BuildsOnce, HolderInv, Cached, TypeOK, replica, environment,
      history, At, Goto
<1>2. ASSUME NEW r \in Request, Lookup(r) PROVE BuildsOnce'
  BY <1>2 DEF Lookup, BuildsOnce, HolderInv, Cached, TypeOK, replica, environment,
      history, At, Goto
<1>3. ASSUME NEW r \in Request, Enter(r) PROVE BuildsOnce'
  BY <1>3 DEF Enter, BuildsOnce, HolderInv, Cached, TypeOK, replica, environment,
      history, At, Goto
<1>4. ASSUME NEW r \in Request, CheckAgain(r) PROVE BuildsOnce'
  BY <1>4 DEF CheckAgain, BuildsOnce, HolderInv, Cached, TypeOK, replica, environment,
      history, At, Goto
<1>5. ASSUME NEW r \in Request, Populate(r) PROVE BuildsOnce'
  BY <1>5 DEF Populate, BuildsOnce, HolderInv, Cached, TypeOK, replica, environment,
      history, At, Goto
<1>6. ASSUME NEW r \in Request, Store(r) PROVE BuildsOnce'
  BY <1>6 DEF Store, BuildsOnce, HolderInv, Cached, TypeOK, replica, environment,
      history, At, Goto
<1>7. ASSUME NEW r \in Request, Release(r) PROVE BuildsOnce'
  BY <1>7 DEF Release, BuildsOnce, HolderInv, Cached, TypeOK, replica, environment,
      history, At, Goto
<1>8. ASSUME NEW t \in Tenant, Announce(t) PROVE BuildsOnce'
  BY <1>8 DEF Announce, BuildsOnce, HolderInv, Cached, TypeOK, replica, environment,
      history, At, Goto
<1>9. ASSUME NEW t \in Tenant, Change(t) PROVE BuildsOnce'
  BY <1>9 DEF Change, BuildsOnce, HolderInv, Cached, TypeOK, replica, environment,
      history, At, Goto
<1>10. ASSUME NEW t \in Tenant, Evict(t) PROVE BuildsOnce'
  BY <1>10 DEF Evict, BuildsOnce, HolderInv, Cached, TypeOK, replica, environment,
      history, At, Goto
<1>11. ASSUME NEW t \in Tenant, NEW v \in Version, Invalidate(t, v) PROVE BuildsOnce'
  BY <1>11 DEF Invalidate, BuildsOnce, HolderInv, Cached, TypeOK, replica, environment,
      history, At, Goto
<1>12. CASE UNCHANGED vars
  BY <1>12 DEF vars, BuildsOnce, HolderInv, Cached, TypeOK, replica, environment,
      history, At, Goto
<1> QED BY <1>1, <1>2, <1>3, <1>4, <1>5, <1>6, <1>7, <1>8, <1>9, <1>10, <1>11, <1>12 DEF Next, RequestStep

\* No event and no invalidation is ahead of the model.
LEMMA KnownStep ==
  ASSUME TypeOK, KnownInv, [Next]_vars
  PROVE  KnownInv'
<1>1. ASSUME NEW r \in Request, Begin(r) PROVE KnownInv'
  BY <1>1, Versions DEF Begin, KnownInv, TypeOK, replica, environment, history, At, Goto
<1>2. ASSUME NEW r \in Request, Lookup(r) PROVE KnownInv'
  BY <1>2, Versions DEF Lookup, KnownInv, TypeOK, replica, environment, history, At,
      Goto
<1>3. ASSUME NEW r \in Request, Enter(r) PROVE KnownInv'
  BY <1>3, Versions DEF Enter, KnownInv, TypeOK, replica, environment, history, At, Goto
<1>4. ASSUME NEW r \in Request, CheckAgain(r) PROVE KnownInv'
  BY <1>4, Versions DEF CheckAgain, KnownInv, TypeOK, replica, environment, history, At,
      Goto
<1>5. ASSUME NEW r \in Request, Populate(r) PROVE KnownInv'
  BY <1>5, Versions DEF Populate, KnownInv, TypeOK, replica, environment, history, At,
      Goto
<1>6. ASSUME NEW r \in Request, Store(r) PROVE KnownInv'
  BY <1>6, Versions DEF Store, KnownInv, TypeOK, replica, environment, history, At, Goto
<1>7. ASSUME NEW r \in Request, Release(r) PROVE KnownInv'
  BY <1>7, Versions DEF Release, KnownInv, TypeOK, replica, environment, history, At,
      Goto
<1>8. ASSUME NEW t \in Tenant, Announce(t) PROVE KnownInv'
  BY <1>8, Versions DEF Announce, KnownInv, TypeOK, replica, environment, history, At,
      Goto
<1>9. ASSUME NEW t \in Tenant, Change(t) PROVE KnownInv'
  BY <1>9, Versions DEF Change, KnownInv, TypeOK, replica, environment, history, At,
      Goto
<1>10. ASSUME NEW t \in Tenant, Evict(t) PROVE KnownInv'
  BY <1>10, Versions DEF Evict, KnownInv, TypeOK, replica, environment, history, At,
      Goto
<1>11. ASSUME NEW t \in Tenant, NEW v \in Version, Invalidate(t, v) PROVE KnownInv'
  BY <1>11, Versions DEF Invalidate, KnownInv, TypeOK, replica, environment, history,
      At, Goto
<1>12. CASE UNCHANGED vars
  BY <1>12, Versions DEF vars, KnownInv, TypeOK, replica, environment, history, At, Goto
<1> QED BY <1>1, <1>2, <1>3, <1>4, <1>5, <1>6, <1>7, <1>8, <1>9, <1>10, <1>11, <1>12 DEF Next, RequestStep

\* What is cached is as new as the invalidations.
LEMMA CachedStep ==
  ASSUME TypeOK, KnownInv, CachedInv, BuiltInv, [Next]_vars
  PROVE  CachedInv'
<1>1. ASSUME NEW r \in Request, Begin(r) PROVE CachedInv'
  BY <1>1, Versions DEF Begin, CachedInv, TypeOK, Schema, replica, environment, history,
      At, Goto
<1>2. ASSUME NEW r \in Request, Lookup(r) PROVE CachedInv'
  BY <1>2, Versions DEF Lookup, CachedInv, TypeOK, Schema, replica, environment,
      history, At, Goto
<1>3. ASSUME NEW r \in Request, Enter(r) PROVE CachedInv'
  BY <1>3, Versions DEF Enter, CachedInv, TypeOK, Schema, replica, environment, history,
      At, Goto
<1>4. ASSUME NEW r \in Request, CheckAgain(r) PROVE CachedInv'
  BY <1>4, Versions DEF CheckAgain, CachedInv, TypeOK, Schema, replica, environment,
      history, At, Goto
<1>5. ASSUME NEW r \in Request, Populate(r) PROVE CachedInv'
  BY <1>5, Versions DEF Populate, CachedInv, TypeOK, Schema, replica, environment,
      history, At, Goto
<1>6. ASSUME NEW r \in Request, Store(r) PROVE CachedInv'
  BY <1>6, Versions DEF Store, BuiltInv, CachedInv, TypeOK, Schema, replica,
      environment, history, At, Goto
<1>7. ASSUME NEW r \in Request, Release(r) PROVE CachedInv'
  BY <1>7, Versions DEF Release, CachedInv, TypeOK, Schema, replica, environment,
      history, At, Goto
<1>8. ASSUME NEW t \in Tenant, Announce(t) PROVE CachedInv'
  BY <1>8, Versions DEF Announce, CachedInv, TypeOK, Schema, replica, environment,
      history, At, Goto
<1>9. ASSUME NEW t \in Tenant, Change(t) PROVE CachedInv'
  BY <1>9, Versions DEF Change, CachedInv, TypeOK, Schema, replica, environment,
      history, At, Goto
<1>10. ASSUME NEW t \in Tenant, Evict(t) PROVE CachedInv'
  BY <1>10, Versions DEF Evict, CachedInv, TypeOK, Schema, replica, environment,
      history, At, Goto
<1>11. ASSUME NEW t \in Tenant, NEW v \in Version, Invalidate(t, v) PROVE CachedInv'
  BY <1>11, Versions DEF Invalidate, CachedInv, TypeOK, Schema, replica, environment,
      history, At, Goto
<1>12. CASE UNCHANGED vars
  BY <1>12, Versions DEF vars, CachedInv, TypeOK, Schema, replica, environment, history,
      At, Goto
<1> QED BY <1>1, <1>2, <1>3, <1>4, <1>5, <1>6, <1>7, <1>8, <1>9, <1>10, <1>11, <1>12 DEF Next, RequestStep

\* What is about to be stored is as new as the invalidations.
LEMMA BuiltStep ==
  ASSUME TypeOK, HolderInv, KnownInv, BuiltInv, [Next]_vars
  PROVE  BuiltInv'
<1>1. ASSUME NEW r \in Request, Begin(r) PROVE BuiltInv'
  BY <1>1, Versions DEF Begin, BuiltInv, Announced, TypeOK, Schema, replica,
      environment, history, At, Goto
<1>2. ASSUME NEW r \in Request, Lookup(r) PROVE BuiltInv'
  BY <1>2, Versions DEF Lookup, BuiltInv, Announced, TypeOK, Schema, replica,
      environment, history, At, Goto
<1>3. ASSUME NEW r \in Request, Enter(r) PROVE BuiltInv'
  BY <1>3, Versions DEF Enter, BuiltInv, Announced, TypeOK, Schema, replica,
      environment, history, At, Goto
<1>4. ASSUME NEW r \in Request, CheckAgain(r) PROVE BuiltInv'
  BY <1>4, Versions DEF CheckAgain, BuiltInv, Announced, TypeOK, Schema, replica,
      environment, history, At, Goto
<1>5. ASSUME NEW r \in Request, Populate(r) PROVE BuiltInv'
  BY <1>5, Versions DEF Populate, HolderInv, KnownInv, BuiltInv, Announced, TypeOK,
      Schema, replica, environment, history, At, Goto
<1>6. ASSUME NEW r \in Request, Store(r) PROVE BuiltInv'
  BY <1>6, Versions DEF Store, BuiltInv, Announced, TypeOK, Schema, replica,
      environment, history, At, Goto
<1>7. ASSUME NEW r \in Request, Release(r) PROVE BuiltInv'
  BY <1>7, Versions DEF Release, BuiltInv, Announced, TypeOK, Schema, replica,
      environment, history, At, Goto
<1>8. ASSUME NEW t \in Tenant, Announce(t) PROVE BuiltInv'
  BY <1>8, Versions DEF Announce, BuiltInv, Announced, TypeOK, Schema, replica,
      environment, history, At, Goto
<1>9. ASSUME NEW t \in Tenant, Change(t) PROVE BuiltInv'
  <2> SUFFICES ASSUME NEW r \in Request, At(r, "store")'
               PROVE  /\ result[r] # None
                      /\ known[asks[r]] <= result[r]
                      /\ result[r] <= model'[asks[r]]
                      /\ result[r] < model'[asks[r]] => Announced(asks[r], result[r])'
    BY <1>9 DEF Change, BuiltInv, replica, history
  <2>1. At(r, "store") /\ asks[r] \in Tenant /\ result[r] \in Version
    BY <1>9, Versions DEF Change, At, replica, TypeOK, Schema, BuiltInv
  <2>2. CASE asks[r] = t
    <3>1. model'[t] = model[t] + 1 /\ model'[t] \in Version /\ <<t, model'[t]>> \in events'
      BY <1>9 DEF Change, TypeOK, Version
    <3>2. result[r] < model'[t]
      BY <2>1, <2>2, <3>1 DEF BuiltInv, TypeOK, Version
    <3> QED BY <1>9, <2>1, <2>2, <3>1, <3>2 DEF Change, BuiltInv, Announced, replica, history, TypeOK, Version
  <2>3. CASE asks[r] # t
    <3>1. model'[asks[r]] = model[asks[r]] /\ events \subseteq events' /\ lost' = lost
      BY <1>9, <2>1, <2>3 DEF Change, TypeOK, history
    <3> QED BY <1>9, <2>1, <3>1 DEF BuiltInv, Announced, Change, replica
  <2> QED BY <2>2, <2>3
<1>10. ASSUME NEW t \in Tenant, Evict(t) PROVE BuiltInv'
  BY <1>10, Versions DEF Evict, BuiltInv, Announced, TypeOK, Schema, replica,
      environment, history, At, Goto
<1>11. ASSUME NEW t \in Tenant, NEW v \in Version, Invalidate(t, v) PROVE BuiltInv'
  <2> SUFFICES ASSUME NEW r \in Request, At(r, "store")'
               PROVE  /\ result[r] # None
                      /\ known'[asks[r]] <= result[r]
                      /\ result[r] <= model[asks[r]]
                      /\ result[r] < model[asks[r]] => Announced(asks[r], result[r])'
    BY <1>11 DEF Invalidate, BuiltInv
  <2>1. At(r, "store") /\ asks[r] \in Tenant /\ result[r] \in Version
    BY <1>11, Versions DEF Invalidate, At, TypeOK, Schema, BuiltInv
  <2>2. known[asks[r]] <= result[r] /\ result[r] <= model[asks[r]]
    BY <2>1 DEF BuiltInv
  <2>3. CASE asks[r] = t
    <3>1. Overlapped(t, v) \/ v <= result[r]
      BY <2>1, <2>3, Versions DEF Overlapped
    <3>2. known'[t] = IF Overlapped(t, v) THEN known[t] ELSE Larger(known[t], v)
      BY <1>11 DEF Invalidate, TypeOK
    <3>3. known'[t] <= result[r]
      BY <2>1, <2>2, <2>3, <3>1, <3>2, Versions DEF TypeOK
    <3>4. Building(t)
      BY <2>1, <2>3 DEF Building
    <3>5. lost'[t] = (Overlapped(t, v) \/ (lost[t] /\ Building(t)))
      BY <1>11 DEF Invalidate, TypeOK
    <3>6. ASSUME result[r] < model[t] PROVE Announced(t, result[r])'
      <4>1. CASE lost'[t]
        BY <1>11, <4>1 DEF Announced, Invalidate
      <4>2. CASE ~lost'[t]
        <5>1. ~lost[t] /\ ~(result[r] < v)
          BY <3>4, <3>5, <4>2, <2>1, <2>3 DEF Overlapped
        <5>2. PICK w \in Version : <<t, w>> \in events /\ result[r] < w
          BY <3>6, <5>1, <2>1, <2>3 DEF BuiltInv, Announced
        <5>3. <<t, w>> \in events'
          BY <1>11, <5>1, <5>2 DEF Invalidate
        <5> QED BY <1>11, <5>2, <5>3 DEF Announced, Invalidate
      <4> QED BY <4>1, <4>2
    <3>7. asks' = asks /\ result' = result
      BY <1>11 DEF Invalidate
    <3> QED BY <2>1, <2>2, <2>3, <3>3, <3>6, <3>7 DEF BuiltInv, Announced
  <2>4. CASE asks[r] # t
    <3>1. known'[asks[r]] = known[asks[r]] /\ lost'[asks[r]] = lost[asks[r]]
      BY <1>11, <2>1, <2>4 DEF Invalidate, TypeOK
    <3>2. \A w : <<asks[r], w>> \in events => <<asks[r], w>> \in events'
      BY <1>11, <2>4 DEF Invalidate
    <3> QED BY <1>11, <2>1, <3>1, <3>2 DEF BuiltInv, Announced, Invalidate
  <2> QED BY <2>3, <2>4
<1>12. CASE UNCHANGED vars
  BY <1>12, Versions DEF vars, BuiltInv, Announced, TypeOK, Schema, replica,
      environment, history, At, Goto
<1> QED BY <1>1, <1>2, <1>3, <1>4, <1>5, <1>6, <1>7, <1>8, <1>9, <1>10, <1>11, <1>12 DEF Next, RequestStep

\* An answer is as new as the invalidations before its request.
LEMMA AnswersStep ==
  ASSUME TypeOK, KnownInv, CachedInv, AnswersKnown, [Next]_vars
  PROVE  AnswersKnown'
<1>1. ASSUME NEW r \in Request, Begin(r) PROVE AnswersKnown'
  BY <1>1, Versions DEF Begin, AnswersKnown, TypeOK, Schema, replica, environment,
      history, At, Goto
<1>2. ASSUME NEW r \in Request, Lookup(r) PROVE AnswersKnown'
  BY <1>2, Versions DEF Lookup, KnownInv, CachedInv, Cached, AnswersKnown, TypeOK,
      Schema, replica, environment, history, At, Goto
<1>3. ASSUME NEW r \in Request, Enter(r) PROVE AnswersKnown'
  BY <1>3, Versions DEF Enter, AnswersKnown, TypeOK, Schema, replica, environment,
      history, At, Goto
<1>4. ASSUME NEW r \in Request, CheckAgain(r) PROVE AnswersKnown'
  BY <1>4, Versions DEF CheckAgain, KnownInv, CachedInv, Cached, AnswersKnown, TypeOK,
      Schema, replica, environment, history, At, Goto
<1>5. ASSUME NEW r \in Request, Populate(r) PROVE AnswersKnown'
  BY <1>5, Versions DEF Populate, KnownInv, AnswersKnown, TypeOK, Schema, replica,
      environment, history, At, Goto
<1>6. ASSUME NEW r \in Request, Store(r) PROVE AnswersKnown'
  BY <1>6, Versions DEF Store, AnswersKnown, TypeOK, Schema, replica, environment,
      history, At, Goto
<1>7. ASSUME NEW r \in Request, Release(r) PROVE AnswersKnown'
  BY <1>7, Versions DEF Release, AnswersKnown, TypeOK, Schema, replica, environment,
      history, At, Goto
<1>8. ASSUME NEW t \in Tenant, Announce(t) PROVE AnswersKnown'
  BY <1>8, Versions DEF Announce, AnswersKnown, TypeOK, Schema, replica, environment,
      history, At, Goto
<1>9. ASSUME NEW t \in Tenant, Change(t) PROVE AnswersKnown'
  BY <1>9, Versions DEF Change, AnswersKnown, TypeOK, Schema, replica, environment,
      history, At, Goto
<1>10. ASSUME NEW t \in Tenant, Evict(t) PROVE AnswersKnown'
  BY <1>10, Versions DEF Evict, AnswersKnown, TypeOK, Schema, replica, environment,
      history, At, Goto
<1>11. ASSUME NEW t \in Tenant, NEW v \in Version, Invalidate(t, v) PROVE AnswersKnown'
  BY <1>11, Versions DEF Invalidate, AnswersKnown, TypeOK, Schema, replica, environment,
      history, At, Goto
<1>12. CASE UNCHANGED vars
  BY <1>12, Versions DEF vars, AnswersKnown, TypeOK, Schema, replica, environment,
      history, At, Goto
<1> QED BY <1>1, <1>2, <1>3, <1>4, <1>5, <1>6, <1>7, <1>8, <1>9, <1>10, <1>11, <1>12 DEF Next, RequestStep

\* A stale schema is announced, or its invalidation was lost.
LEMMA StaleStep ==
  ASSUME TypeOK, BuildsOnce, CachedInv, BuiltInv, StaleIsAnnounced, [Next]_vars
  PROVE  StaleIsAnnounced'
<1>1. ASSUME NEW r \in Request, Begin(r) PROVE StaleIsAnnounced'
  BY <1>1, Versions DEF Begin, StaleIsAnnounced, Announced, TypeOK, Schema, replica,
      environment, history, At, Goto
<1>2. ASSUME NEW r \in Request, Lookup(r) PROVE StaleIsAnnounced'
  BY <1>2, Versions DEF Lookup, StaleIsAnnounced, Announced, TypeOK, Schema, replica,
      environment, history, At, Goto
<1>3. ASSUME NEW r \in Request, Enter(r) PROVE StaleIsAnnounced'
  BY <1>3, Versions DEF Enter, StaleIsAnnounced, Announced, TypeOK, Schema, replica,
      environment, history, At, Goto
<1>4. ASSUME NEW r \in Request, CheckAgain(r) PROVE StaleIsAnnounced'
  BY <1>4, Versions DEF CheckAgain, StaleIsAnnounced, Announced, TypeOK, Schema,
      replica, environment, history, At, Goto
<1>5. ASSUME NEW r \in Request, Populate(r) PROVE StaleIsAnnounced'
  BY <1>5, Versions DEF Populate, BuildsOnce, Cached, StaleIsAnnounced, Announced,
      TypeOK, Schema, replica, environment, history, At, Goto
<1>6. ASSUME NEW r \in Request, Store(r) PROVE StaleIsAnnounced'
  BY <1>6, Versions DEF Store, BuiltInv, StaleIsAnnounced, Announced, TypeOK, Schema,
      replica, environment, history, At, Goto
<1>7. ASSUME NEW r \in Request, Release(r) PROVE StaleIsAnnounced'
  BY <1>7, Versions DEF Release, StaleIsAnnounced, Announced, TypeOK, Schema, replica,
      environment, history, At, Goto
<1>8. ASSUME NEW t \in Tenant, Announce(t) PROVE StaleIsAnnounced'
  BY <1>8, Versions DEF Announce, StaleIsAnnounced, Announced, TypeOK, Schema, replica,
      environment, history, At, Goto
<1>9. ASSUME NEW t \in Tenant, Change(t) PROVE StaleIsAnnounced'
  <2> SUFFICES ASSUME NEW u \in Tenant, cache[u] # None, cache[u] < model'[u]
               PROVE  Announced(u, cache[u])'
    BY <1>9 DEF Change, StaleIsAnnounced, replica
  <2>1. cache[u] \in Version
    BY DEF TypeOK, Schema
  <2>2. CASE u = t
    <3>1. model'[t] \in Version /\ <<t, model'[t]>> \in events'
      BY <1>9 DEF Change, TypeOK, Version
    <3> QED BY <1>9, <2>1, <2>2, <3>1 DEF Change, Announced, replica, history
  <2>3. CASE u # t
    <3>1. model'[u] = model[u] /\ events \subseteq events' /\ lost' = lost /\ cache' = cache
      BY <1>9, <2>3 DEF Change, TypeOK, history, replica
    <3> QED BY <3>1 DEF StaleIsAnnounced, Announced
  <2> QED BY <2>2, <2>3
<1>10. ASSUME NEW t \in Tenant, Evict(t) PROVE StaleIsAnnounced'
  BY <1>10, Versions DEF Evict, StaleIsAnnounced, Announced, TypeOK, Schema, replica,
      environment, history, At, Goto
<1>11. ASSUME NEW t \in Tenant, NEW v \in Version, Invalidate(t, v)
      PROVE  StaleIsAnnounced'
  BY <1>11, Versions DEF Invalidate, StaleIsAnnounced, Announced, TypeOK, Schema,
      replica, environment, history, At, Goto
<1>12. CASE UNCHANGED vars
  BY <1>12, Versions DEF vars, StaleIsAnnounced, Announced, TypeOK, Schema, replica,
      environment, history, At, Goto
<1> QED BY <1>1, <1>2, <1>3, <1>4, <1>5, <1>6, <1>7, <1>8, <1>9, <1>10, <1>11, <1>12 DEF Next, RequestStep

-----------------------------------------------------------------------------
LEMMA InitInv == Init => IInv
BY DEF Init, IInv, TypeOK, HolderInv, BuildsOnce, KnownInv, CachedInv, BuiltInv, AnswersKnown,
       StaleIsAnnounced, At, PC, Schema, Version

LEMMA NextInv == IInv /\ [Next]_vars => IInv'
BY TypeStep, HolderStep, BuildsStep, KnownStep, CachedStep, BuiltStep, AnswersStep, StaleStep
   DEF IInv

\* The cache keeps the inductive invariant.
THEOREM InductiveInvariant == Spec => []IInv
BY InitInv, NextInv, PTL DEF Spec

\* The types, for any number of requests and tenants.
THEOREM TypesHold == Spec => []TypeOK
<1>1. IInv => TypeOK
  BY DEF IInv
<1> QED BY <1>1, InductiveInvariant, PTL

\* No schema is built twice at the same time, and none that is cached.
THEOREM BuildsOnceHolds == Spec => []BuildsOnce
<1>1. IInv => BuildsOnce
  BY DEF IInv
<1> QED BY <1>1, InductiveInvariant, PTL

\* No answer is older than the invalidations before its request.
THEOREM AnswersKnownHolds == Spec => []AnswersKnown
<1>1. IInv => AnswersKnown
  BY DEF IInv
<1> QED BY <1>1, InductiveInvariant, PTL

\* A stale schema is announced, or its invalidation came while it was built.
THEOREM StaleIsAnnouncedHolds == Spec => []StaleIsAnnounced
<1>1. IInv => StaleIsAnnounced
  BY DEF IInv
<1> QED BY <1>1, InductiveInvariant, PTL
=============================================================================
