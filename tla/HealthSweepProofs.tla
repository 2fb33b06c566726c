------------------------- MODULE HealthSweepProofs -------------------------
(***************************************************************************)
(* Proofs about HealthSweep for any tenants, any looks of their libraries  *)
(* and any staleness window.                                               *)
(***************************************************************************)
EXTENDS HealthSweep, TLAPS

USE StatusAssumption, WindowAssumption, NoneAssumption

\* What is published of a tenant is a snapshot.
LEMMA Snapshots ==
  /\ \A s : Faults(s) \in TenantSnapshot
  /\ Unreachable \in TenantSnapshot /\ Unreachable.faults = {}
BY DEF Faults, Unreachable, TenantSnapshot, Evaluate

\* Every step keeps the types.
LEMMA TypeStep ==
  ASSUME TypeOK, ReadInv, [Next]_vars
  PROVE  TypeOK'
<1>1. ASSUME Wake PROVE TypeOK'
  BY <1>1, Snapshots DEF Wake, TypeOK, tenants, Phase
<1>2. ASSUME List PROVE TypeOK'
  BY <1>2, Snapshots DEF List, TypeOK, tenants, Phase
<1>3. ASSUME ListFails PROVE TypeOK'
  BY <1>3, Snapshots DEF ListFails, TypeOK, tenants, Phase
<1>4. ASSUME OptInUnreadable PROVE TypeOK'
  BY <1>4, Snapshots DEF OptInUnreadable, ReadInv, TypeOK, tenants, Phase
<1>5. ASSUME OptedOut PROVE TypeOK'
  BY <1>5, Snapshots DEF OptedOut, ReadInv, TypeOK, tenants, Phase
<1>6. ASSUME OptedIn PROVE TypeOK'
  BY <1>6, Snapshots DEF OptedIn, ReadInv, TypeOK, tenants, Phase
<1>7. ASSUME TenantRead PROVE TypeOK'
  BY <1>7, Snapshots DEF TenantRead, ReadInv, TypeOK, tenants, Phase
<1>8. ASSUME TenantUnreachable PROVE TypeOK'
  BY <1>8, Snapshots DEF TenantUnreachable, TypeOK, tenants, Phase
<1>9. ASSUME Complete PROVE TypeOK'
  BY <1>9, Snapshots DEF Complete, TypeOK, tenants, Phase
<1>10. ASSUME Stop PROVE TypeOK'
  BY <1>10, Snapshots DEF Stop, TypeOK, tenants, Phase
<1>11. ASSUME Tick PROVE TypeOK'
  BY <1>11, Snapshots DEF Tick, TypeOK, tenants, Phase
<1>12. ASSUME NEW t \in Tenant, Change(t) PROVE TypeOK'
  <2>1. mode' \in [Tenant -> Mode] /\ status' \in [Tenant -> Status]
    BY <1>12 DEF Change, TypeOK
  <2> QED BY <1>12, <2>1 DEF Change, TypeOK
<1>13. ASSUME NEW t \in Tenant, Ask(t) PROVE TypeOK'
  BY <1>13, Snapshots DEF Ask, TypeOK, tenants, Phase
<1>14. CASE UNCHANGED vars
  BY <1>14, Snapshots DEF vars, TypeOK, tenants, Phase
<1> QED BY <1>1, <1>2, <1>3, <1>4, <1>5, <1>6, <1>7, <1>8, <1>9, <1>10, <1>11, <1>12,
      <1>13, <1>14 DEF Next, OwnStep, Answer

\* The tenant that is being read.
LEMMA ReadStep ==
  ASSUME TypeOK, ReadInv, [Next]_vars
  PROVE  ReadInv'
<1>1. ASSUME Wake PROVE ReadInv'
  BY <1>1 DEF Wake, ReadInv, TypeOK, tenants
<1>2. ASSUME List PROVE ReadInv'
  BY <1>2 DEF List, ReadInv, TypeOK, tenants
<1>3. ASSUME ListFails PROVE ReadInv'
  BY <1>3 DEF ListFails, ReadInv, TypeOK, tenants
<1>4. ASSUME OptInUnreadable PROVE ReadInv'
  BY <1>4 DEF OptInUnreadable, ReadInv, TypeOK, tenants
<1>5. ASSUME OptedOut PROVE ReadInv'
  BY <1>5 DEF OptedOut, ReadInv, TypeOK, tenants
<1>6. ASSUME OptedIn PROVE ReadInv'
  BY <1>6 DEF OptedIn, ReadInv, TypeOK, tenants
<1>7. ASSUME TenantRead PROVE ReadInv'
  BY <1>7 DEF TenantRead, ReadInv, TypeOK, tenants
<1>8. ASSUME TenantUnreachable PROVE ReadInv'
  BY <1>8 DEF TenantUnreachable, ReadInv, TypeOK, tenants
<1>9. ASSUME Complete PROVE ReadInv'
  BY <1>9 DEF Complete, ReadInv, TypeOK, tenants
<1>10. ASSUME Stop PROVE ReadInv'
  BY <1>10 DEF Stop, ReadInv, TypeOK, tenants
<1>11. ASSUME Tick PROVE ReadInv'
  BY <1>11 DEF Tick, ReadInv, TypeOK, tenants
<1>12. ASSUME NEW t \in Tenant, Change(t) PROVE ReadInv'
  BY <1>12 DEF Change, ReadInv, TypeOK, tenants
<1>13. ASSUME NEW t \in Tenant, Ask(t) PROVE ReadInv'
  BY <1>13 DEF Ask, ReadInv, TypeOK, tenants
<1>14. CASE UNCHANGED vars
  BY <1>14 DEF vars, ReadInv, TypeOK, tenants
<1> QED BY <1>1, <1>2, <1>3, <1>4, <1>5, <1>6, <1>7, <1>8, <1>9, <1>10, <1>11, <1>12,
      <1>13, <1>14 DEF Next, OwnStep, Answer

\* What this sweep has observed or will observe.
LEMMA SteadyStep ==
  ASSUME TypeOK, ReadInv, SteadyInv, [Next]_vars
  PROVE  SteadyInv'
<1>1. ASSUME Wake PROVE SteadyInv'
  BY <1>1 DEF Wake, SteadyInv, TypeOK, tenants, Mode
<1>2. ASSUME List PROVE SteadyInv'
  BY <1>2 DEF List, SteadyInv, TypeOK, tenants, Mode
<1>3. ASSUME ListFails PROVE SteadyInv'
  BY <1>3 DEF ListFails, SteadyInv, TypeOK, tenants, Mode
<1>4. ASSUME OptInUnreadable PROVE SteadyInv'
  BY <1>4 DEF OptInUnreadable, SteadyInv, TypeOK, tenants, Mode
<1>5. ASSUME OptedOut PROVE SteadyInv'
  BY <1>5 DEF OptedOut, SteadyInv, TypeOK, tenants, Mode
<1>6. ASSUME OptedIn PROVE SteadyInv'
  BY <1>6 DEF OptedIn, SteadyInv, TypeOK, tenants, Mode
<1>7. ASSUME TenantRead PROVE SteadyInv'
  BY <1>7 DEF TenantRead, ReadInv, SteadyInv, TypeOK, tenants, Mode
<1>8. ASSUME TenantUnreachable PROVE SteadyInv'
  BY <1>8 DEF TenantUnreachable, ReadInv, SteadyInv, TypeOK, tenants, Mode
<1>9. ASSUME Complete PROVE SteadyInv'
  BY <1>9 DEF Complete, SteadyInv, TypeOK, tenants, Mode
<1>10. ASSUME Stop PROVE SteadyInv'
  BY <1>10 DEF Stop, SteadyInv, TypeOK, tenants, Mode
<1>11. ASSUME Tick PROVE SteadyInv'
  BY <1>11 DEF Tick, SteadyInv, TypeOK, tenants, Mode
<1>12. ASSUME NEW t \in Tenant, Change(t) PROVE SteadyInv'
  BY <1>12 DEF Change, SteadyInv, TypeOK, tenants, Mode
<1>13. ASSUME NEW t \in Tenant, Ask(t) PROVE SteadyInv'
  BY <1>13 DEF Ask, ReadInv, SteadyInv, TypeOK, tenants, Mode
<1>14. CASE UNCHANGED vars
  BY <1>14 DEF vars, SteadyInv, TypeOK, tenants, Mode
<1> QED BY <1>1, <1>2, <1>3, <1>4, <1>5, <1>6, <1>7, <1>8, <1>9, <1>10, <1>11, <1>12,
      <1>13, <1>14 DEF Next, OwnStep, Answer

\* What is published of the steady tenants.
LEMMA ExportStep ==
  ASSUME TypeOK, ReadInv, SteadyInv, SteadyIsExported, [Next]_vars
  PROVE  SteadyIsExported'
<1>1. ASSUME Wake PROVE SteadyIsExported'
  BY <1>1 DEF Wake, SteadyIsExported, Expected, ReadInv, TypeOK, tenants
<1>2. ASSUME List PROVE SteadyIsExported'
  BY <1>2 DEF List, SteadyIsExported, Expected, ReadInv, TypeOK, tenants
<1>3. ASSUME ListFails PROVE SteadyIsExported'
  BY <1>3 DEF ListFails, SteadyIsExported, Expected, ReadInv, TypeOK, tenants
<1>4. ASSUME OptInUnreadable PROVE SteadyIsExported'
  BY <1>4 DEF OptInUnreadable, SteadyIsExported, Expected, ReadInv, TypeOK, tenants
<1>5. ASSUME OptedOut PROVE SteadyIsExported'
  BY <1>5 DEF OptedOut, SteadyIsExported, Expected, ReadInv, TypeOK, tenants
<1>6. ASSUME OptedIn PROVE SteadyIsExported'
  BY <1>6 DEF OptedIn, SteadyIsExported, Expected, ReadInv, TypeOK, tenants
<1>7. ASSUME TenantRead PROVE SteadyIsExported'
  BY <1>7 DEF TenantRead, Reachable, SteadyIsExported, Expected, ReadInv, TypeOK,
      tenants
<1>8. ASSUME TenantUnreachable PROVE SteadyIsExported'
  BY <1>8 DEF TenantUnreachable, Reachable, SteadyIsExported, Expected, ReadInv, TypeOK,
      tenants
<1>9. ASSUME Complete PROVE SteadyIsExported'
  BY <1>9 DEF Complete, SteadyInv, SteadyIsExported, Expected, ReadInv, TypeOK, tenants
<1>10. ASSUME Stop PROVE SteadyIsExported'
  BY <1>10 DEF Stop, SteadyIsExported, Expected, ReadInv, TypeOK, tenants
<1>11. ASSUME Tick PROVE SteadyIsExported'
  BY <1>11 DEF Tick, SteadyIsExported, Expected, ReadInv, TypeOK, tenants
<1>12. ASSUME NEW t \in Tenant, Change(t) PROVE SteadyIsExported'
  BY <1>12 DEF Change, SteadyIsExported, Expected, ReadInv, TypeOK, tenants
<1>13. ASSUME NEW t \in Tenant, Ask(t) PROVE SteadyIsExported'
  BY <1>13 DEF Ask, SteadyIsExported, Expected, ReadInv, TypeOK, tenants
<1>14. CASE UNCHANGED vars
  BY <1>14 DEF vars, SteadyIsExported, Expected, ReadInv, TypeOK, tenants
<1> QED BY <1>1, <1>2, <1>3, <1>4, <1>5, <1>6, <1>7, <1>8, <1>9, <1>10, <1>11, <1>12,
      <1>13, <1>14 DEF Next, OwnStep, Answer

\* The faults of a tenant are exported only while they are reported.
LEMMA ReportedStep ==
  ASSUME TypeOK, ReadInv, ReportedInv, [Next]_vars
  PROVE  ReportedInv'
<1>1. ASSUME Wake PROVE ReportedInv'
  BY <1>1 DEF Wake, ReportedInv, HasFaults, TypeOK, tenants
<1>2. ASSUME List PROVE ReportedInv'
  BY <1>2 DEF List, ReportedInv, HasFaults, TypeOK, tenants
<1>3. ASSUME ListFails PROVE ReportedInv'
  BY <1>3 DEF ListFails, ReportedInv, HasFaults, TypeOK, tenants
<1>4. ASSUME OptInUnreadable PROVE ReportedInv'
  BY <1>4 DEF OptInUnreadable, ReportedInv, HasFaults, TypeOK, tenants
<1>5. ASSUME OptedOut PROVE ReportedInv'
  BY <1>5 DEF OptedOut, ReportedInv, HasFaults, TypeOK, tenants
<1>6. ASSUME OptedIn PROVE ReportedInv'
  BY <1>6 DEF OptedIn, ReportedInv, HasFaults, TypeOK, tenants
<1>7. ASSUME TenantRead PROVE ReportedInv'
  BY <1>7 DEF TenantRead, ReportedInv, HasFaults, TypeOK, tenants
<1>8. ASSUME TenantUnreachable PROVE ReportedInv'
  BY <1>8, Snapshots DEF TenantUnreachable, ReportedInv, HasFaults, TypeOK
<1>9. ASSUME Complete PROVE ReportedInv'
  BY <1>9 DEF Complete, ReportedInv, HasFaults, TypeOK, tenants
<1>10. ASSUME Stop PROVE ReportedInv'
  BY <1>10 DEF Stop, ReportedInv, HasFaults, TypeOK, tenants
<1>11. ASSUME Tick PROVE ReportedInv'
  BY <1>11 DEF Tick, ReportedInv, HasFaults, TypeOK, tenants
<1>12. ASSUME NEW t \in Tenant, Change(t) PROVE ReportedInv'
  BY <1>12 DEF Change, ReportedInv, HasFaults, TypeOK, tenants
<1>13. ASSUME NEW t \in Tenant, Ask(t) PROVE ReportedInv'
  BY <1>13 DEF Ask, ReportedInv, HasFaults, TypeOK, tenants
<1>14. CASE UNCHANGED vars
  BY <1>14 DEF vars, ReportedInv, HasFaults, TypeOK, tenants
<1> QED BY <1>1, <1>2, <1>3, <1>4, <1>5, <1>6, <1>7, <1>8, <1>9, <1>10, <1>11, <1>12,
      <1>13, <1>14 DEF Next, OwnStep, Answer

\* Between two sweeps the faults are those of the last one.
LEMMA ObservedStep ==
  ASSUME TypeOK, ReportedInv, ObservedInv, [Next]_vars
  PROVE  ObservedInv'
<1>1. ASSUME Wake PROVE ObservedInv'
  BY <1>1 DEF Wake, ObservedInv, HasFaults, TypeOK, tenants
<1>2. ASSUME List PROVE ObservedInv'
  BY <1>2 DEF List, ObservedInv, HasFaults, TypeOK, tenants
<1>3. ASSUME ListFails PROVE ObservedInv'
  BY <1>3 DEF ListFails, ObservedInv, HasFaults, TypeOK, tenants
<1>4. ASSUME OptInUnreadable PROVE ObservedInv'
  BY <1>4 DEF OptInUnreadable, ObservedInv, HasFaults, TypeOK, tenants
<1>5. ASSUME OptedOut PROVE ObservedInv'
  BY <1>5 DEF OptedOut, ObservedInv, HasFaults, TypeOK, tenants
<1>6. ASSUME OptedIn PROVE ObservedInv'
  BY <1>6 DEF OptedIn, ObservedInv, HasFaults, TypeOK, tenants
<1>7. ASSUME TenantRead PROVE ObservedInv'
  BY <1>7 DEF TenantRead, ObservedInv, HasFaults, TypeOK, tenants
<1>8. ASSUME TenantUnreachable PROVE ObservedInv'
  BY <1>8 DEF TenantUnreachable, ObservedInv, HasFaults, TypeOK, tenants
<1>9. ASSUME Complete PROVE ObservedInv'
  BY <1>9 DEF Complete, ReportedInv, ObservedInv, HasFaults, TypeOK, tenants
<1>10. ASSUME Stop PROVE ObservedInv'
  BY <1>10 DEF Stop, ObservedInv, HasFaults, TypeOK, tenants
<1>11. ASSUME Tick PROVE ObservedInv'
  BY <1>11 DEF Tick, ObservedInv, HasFaults, TypeOK, tenants
<1>12. ASSUME NEW t \in Tenant, Change(t) PROVE ObservedInv'
  BY <1>12 DEF Change, ObservedInv, HasFaults, TypeOK, tenants
<1>13. ASSUME NEW t \in Tenant, Ask(t) PROVE ObservedInv'
  BY <1>13 DEF Ask, ObservedInv, HasFaults, TypeOK, tenants
<1>14. CASE UNCHANGED vars
  BY <1>14 DEF vars, ObservedInv, HasFaults, TypeOK, tenants
<1> QED BY <1>1, <1>2, <1>3, <1>4, <1>5, <1>6, <1>7, <1>8, <1>9, <1>10, <1>11, <1>12,
      <1>13, <1>14 DEF Next, OwnStep, Answer

-----------------------------------------------------------------------------
LEMMA InitInv == Init => IInv
BY DEF Init, IInv, TypeOK, ReadInv, SteadyInv, SteadyIsExported, ReportedInv, ObservedInv,
       HasFaults, Phase

LEMMA NextInv == IInv /\ [Next]_vars => IInv'
BY TypeStep, ReadStep, SteadyStep, ExportStep, ReportedStep, ObservedStep DEF IInv

\* The service and its instruments keep the inductive invariant.
THEOREM InductiveInvariant == Spec => []IInv
BY InitInv, NextInv, PTL DEF Spec

\* No library is ever published with two faults.
THEOREM TypesHold == Spec => []TypeOK
<1>1. IInv => TypeOK
  BY DEF IInv
<1> QED BY <1>1, InductiveInvariant, PTL

\* A tenant that has not changed since the sweep looked at it is exported as it is.
THEOREM SteadyIsExportedHolds == Spec => []SteadyIsExported
<1>1. IInv => SteadyIsExported
  BY DEF IInv
<1> QED BY <1>1, InductiveInvariant, PTL

\* Between two sweeps there are no faults of a tenant that the last completed
\* sweep has not observed.
THEOREM FaultsAreObservedHolds == Spec => []FaultsAreObserved
<1>1. IInv => FaultsAreObserved
  BY DEF IInv, ObservedInv, FaultsAreObserved
<1> QED BY <1>1, InductiveInvariant, PTL
=============================================================================
