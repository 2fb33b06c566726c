----------------------- MODULE TenantLifecycleProofs -----------------------
(***************************************************************************)
(* Proofs about TenantLifecycle for any number of requests, with or        *)
(* without a lifecycle record of the tenant.                               *)
(***************************************************************************)
EXTENDS TenantLifecycle, TLAPS

USE RequestAssumption, OwnerAssumption, OfferAssumption

\* Every step keeps the types.
LEMMA TypeStep ==
  ASSUME TypeOK, [Next]_vars
  PROVE  TypeOK'
<1>1. ASSUME NEW r \in Request, Begin(r) PROVE TypeOK'
  <2>1. PICK o \in Offered :
          op' = [op EXCEPT ![r] = o] /\ pc' = [pc EXCEPT ![r] = FirstStep(o)]
    BY <1>1 DEF Begin, Goto
  <2>2. o \in Operation /\ FirstStep(o) \in PC
    BY DEF FirstStep, PC
  <2>3. mixed' \subseteq Request
    BY <1>1 DEF Begin, Running, TypeOK
  <2> QED BY <1>1, <2>1, <2>2, <2>3 DEF Begin, stores, TypeOK
<1>2. ASSUME NEW r \in Request, CheckNotDeleting(r) PROVE TypeOK'
  BY <1>2 DEF CheckNotDeleting, At, Goto, stores, Adding, Removing, TypeOK, PC, Ours,
      Lifecycle, Database, Operation, Running
<1>3. ASSUME NEW r \in Request, CheckRegistered(r) PROVE TypeOK'
  BY <1>3 DEF CheckRegistered, AfterCheck, At, Goto, stores, Adding, Removing, TypeOK,
      PC, Ours, Lifecycle, Database, Operation, Running
<1>4. ASSUME NEW r \in Request, WriteMarker(r) PROVE TypeOK'
  BY <1>4 DEF WriteMarker, At, Goto, stores, Adding, Removing, TypeOK, PC, Ours,
      Lifecycle, Database, Operation, Running
<1>5. ASSUME NEW r \in Request, Make(r) PROVE TypeOK'
  BY <1>5 DEF Make, Failed, IdFree, NoInsertOpen, At, Goto, stores, Adding, Removing,
      TypeOK, PC, Ours, Lifecycle, Database, Operation, Running
<1>6. ASSUME NEW r \in Request, Register(r) PROVE TypeOK'
  BY <1>6 DEF Register, Failed, LifeOfNew, At, Goto, stores, Adding, Removing, TypeOK,
      PC, Ours, Lifecycle, Database, Operation, Running
<1>7. ASSUME NEW r \in Request, RegisterFails(r) PROVE TypeOK'
  BY <1>7 DEF RegisterFails, Failed, AbandonMade, At, Goto, stores, Adding, Removing,
      TypeOK, PC, Ours, Lifecycle, Database, Operation, Running
<1>8. ASSUME NEW r \in Request, CompareMarker(r) PROVE TypeOK'
  BY <1>8 DEF CompareMarker, At, Goto, stores, Adding, Removing, TypeOK, PC, Ours,
      Lifecycle, Database, Operation, Running
<1>9. ASSUME NEW r \in Request, TakeBackMarker(r) PROVE TypeOK'
  BY <1>9 DEF TakeBackMarker, At, Goto, stores, Adding, Removing, TypeOK, PC, Ours,
      Lifecycle, Database, Operation, Running
<1>10. ASSUME NEW r \in Request, ProbeChild(r) PROVE TypeOK'
  BY <1>10 DEF ProbeChild, At, Goto, stores, Adding, Removing, TypeOK, PC, Ours,
      Lifecycle, Database, Operation, Running
<1>11. ASSUME NEW r \in Request, RemoveStaleRow(r) PROVE TypeOK'
  BY <1>11 DEF RemoveStaleRow, Stale, At, Goto, stores, Adding, Removing, TypeOK, PC,
      Ours, Lifecycle, Database, Operation, Running
<1>12. ASSUME NEW r \in Request, CheckNotCreating(r) PROVE TypeOK'
  BY <1>12 DEF CheckNotCreating, At, Goto, stores, Adding, Removing, TypeOK, PC, Ours,
      Lifecycle, Database, Operation, Running
<1>13. ASSUME NEW r \in Request, CheckCapabilities(r) PROVE TypeOK'
  BY <1>13 DEF CheckCapabilities, At, Goto, stores, Adding, Removing, TypeOK, PC, Ours,
      Lifecycle, Database, Operation, Running
<1>14. ASSUME NEW r \in Request, MarkDeleting(r) PROVE TypeOK'
  BY <1>14 DEF MarkDeleting, At, Goto, stores, Adding, Removing, TypeOK, PC, Ours,
      Lifecycle, Database, Operation, Running
<1>15. ASSUME NEW r \in Request, Unlink(r) PROVE TypeOK'
  BY <1>15 DEF Unlink, AfterUnlink, At, Goto, stores, Adding, Removing, TypeOK, PC,
      Ours, Lifecycle, Database, Operation, Running
<1>16. ASSUME NEW r \in Request, UnlinkFails(r) PROVE TypeOK'
  BY <1>16 DEF UnlinkFails, At, Goto, stores, Adding, Removing, TypeOK, PC, Ours,
      Lifecycle, Database, Operation, Running
<1>17. ASSUME NEW r \in Request, DropDatabase(r) PROVE TypeOK'
  BY <1>17 DEF DropDatabase, At, Goto, stores, Adding, Removing, TypeOK, PC, Ours,
      Lifecycle, Database, Operation, Running
<1>18. ASSUME NEW r \in Request, ClearRetries(r) PROVE TypeOK'
  BY <1>18 DEF ClearRetries, At, Goto, stores, Adding, Removing, TypeOK, PC, Ours,
      Lifecycle, Database, Operation, Running
<1>19. ASSUME NEW r \in Request, EnsureDeleting(r) PROVE TypeOK'
  BY <1>19 DEF EnsureDeleting, At, Goto, stores, Adding, Removing, TypeOK, PC, Ours,
      Lifecycle, Database, Operation, Running
<1>20. ASSUME NEW r \in Request, ReadMarker(r) PROVE TypeOK'
  BY <1>20 DEF ReadMarker, AfterMarker, At, Goto, stores, Adding, Removing, TypeOK, PC,
      Ours, Lifecycle, Database, Operation, Running
<1>21. ASSUME NEW r \in Request, DropMarker(r) PROVE TypeOK'
  BY <1>21 DEF DropMarker, AfterMarker, At, Goto, stores, Adding, Removing, TypeOK, PC,
      Ours, Lifecycle, Database, Operation, Running
<1>22. ASSUME NEW r \in Request, Requeue(r) PROVE TypeOK'
  BY <1>22 DEF Requeue, At, Goto, stores, Adding, Removing, TypeOK, PC, Ours, Lifecycle,
      Database, Operation, Running
<1>23. ASSUME NEW r \in Request, Throw(r) PROVE TypeOK'
  BY <1>23 DEF Throw, AfterThrow, AfterMarker, BestEffort, Running, At, Goto, stores,
      Adding, Removing, TypeOK, PC, Ours, Lifecycle, Database, Operation
<1>24. ASSUME NEW r \in Request, Crash(r) PROVE TypeOK'
  BY <1>24 DEF Crash, AbandonMade, Running, At, Goto, stores, Adding, Removing, TypeOK,
      PC, Ours, Lifecycle, Database, Operation
<1>25. ASSUME SetupEnds PROVE TypeOK'
  BY <1>25 DEF SetupEnds, At, Goto, stores, Adding, Removing, TypeOK, PC, Ours,
      Lifecycle, Database, Operation, Running
<1>26. ASSUME Resurrect PROVE TypeOK'
  BY <1>26 DEF Resurrect, At, Goto, stores, Adding, Removing, TypeOK, PC, Ours,
      Lifecycle, Database, Operation, Running
<1>27. ASSUME LateEnds PROVE TypeOK'
  BY <1>27 DEF LateEnds, At, Goto, stores, Adding, Removing, TypeOK, PC, Ours,
      Lifecycle, Database, Operation, Running
<1>28. ASSUME Settle PROVE TypeOK'
  BY <1>28 DEF Settle, At, Goto, stores, Adding, Removing, TypeOK, PC, Ours, Lifecycle,
      Database, Operation, Running
<1>29. CASE UNCHANGED vars
  BY <1>29 DEF vars, At, Goto, stores, Adding, Removing, TypeOK, PC, Ours, Lifecycle,
      Database, Operation, Running
<1> QED BY <1>1, <1>2, <1>3, <1>4, <1>5, <1>6, <1>7, <1>8, <1>9, <1>10, <1>11, <1>12,
      <1>13, <1>14, <1>15, <1>16, <1>17, <1>18, <1>19, <1>20, <1>21, <1>22, <1>23,
      <1>24, <1>25, <1>26, <1>27, <1>28, <1>29 DEF Next, RequestStep, AddStep, RemoveStep

\* Every step keeps the places of the operations.
LEMMA PlaceStep ==
  ASSUME TypeOK, PlaceInv, [Next]_vars
  PROVE  PlaceInv'
<1>1. ASSUME NEW r \in Request, Begin(r) PROVE PlaceInv'
  BY <1>1 DEF Begin, FirstStep, Operation, At, Goto, stores, Adding, Removing, TypeOK,
      PlaceInv
<1>2. ASSUME NEW r \in Request, CheckNotDeleting(r) PROVE PlaceInv'
  BY <1>2 DEF CheckNotDeleting, At, Goto, stores, Adding, Removing, TypeOK, PlaceInv
<1>3. ASSUME NEW r \in Request, CheckRegistered(r) PROVE PlaceInv'
  BY <1>3 DEF CheckRegistered, AfterCheck, At, Goto, stores, Adding, Removing, TypeOK,
      PlaceInv
<1>4. ASSUME NEW r \in Request, WriteMarker(r) PROVE PlaceInv'
  BY <1>4 DEF WriteMarker, At, Goto, stores, Adding, Removing, TypeOK, PlaceInv
<1>5. ASSUME NEW r \in Request, Make(r) PROVE PlaceInv'
  BY <1>5 DEF Make, Failed, IdFree, NoInsertOpen, At, Goto, stores, Adding, Removing,
      TypeOK, PlaceInv
<1>6. ASSUME NEW r \in Request, Register(r) PROVE PlaceInv'
  BY <1>6 DEF Register, Failed, LifeOfNew, At, Goto, stores, Adding, Removing, TypeOK,
      PlaceInv
<1>7. ASSUME NEW r \in Request, RegisterFails(r) PROVE PlaceInv'
  BY <1>7 DEF RegisterFails, Failed, AbandonMade, At, Goto, stores, Adding, Removing,
      TypeOK, PlaceInv
<1>8. ASSUME NEW r \in Request, CompareMarker(r) PROVE PlaceInv'
  BY <1>8 DEF CompareMarker, At, Goto, stores, Adding, Removing, TypeOK, PlaceInv
<1>9. ASSUME NEW r \in Request, TakeBackMarker(r) PROVE PlaceInv'
  BY <1>9 DEF TakeBackMarker, At, Goto, stores, Adding, Removing, TypeOK, PlaceInv
<1>10. ASSUME NEW r \in Request, ProbeChild(r) PROVE PlaceInv'
  BY <1>10 DEF ProbeChild, At, Goto, stores, Adding, Removing, TypeOK, PlaceInv
<1>11. ASSUME NEW r \in Request, RemoveStaleRow(r) PROVE PlaceInv'
  BY <1>11 DEF RemoveStaleRow, Stale, At, Goto, stores, Adding, Removing, TypeOK,
      PlaceInv
<1>12. ASSUME NEW r \in Request, CheckNotCreating(r) PROVE PlaceInv'
  BY <1>12 DEF CheckNotCreating, At, Goto, stores, Adding, Removing, TypeOK, PlaceInv
<1>13. ASSUME NEW r \in Request, CheckCapabilities(r) PROVE PlaceInv'
  BY <1>13 DEF CheckCapabilities, At, Goto, stores, Adding, Removing, TypeOK, PlaceInv
<1>14. ASSUME NEW r \in Request, MarkDeleting(r) PROVE PlaceInv'
  BY <1>14 DEF MarkDeleting, At, Goto, stores, Adding, Removing, TypeOK, PlaceInv
<1>15. ASSUME NEW r \in Request, Unlink(r) PROVE PlaceInv'
  BY <1>15 DEF Unlink, AfterUnlink, At, Goto, stores, Adding, Removing, TypeOK, PlaceInv
<1>16. ASSUME NEW r \in Request, UnlinkFails(r) PROVE PlaceInv'
  BY <1>16 DEF UnlinkFails, At, Goto, stores, Adding, Removing, TypeOK, PlaceInv
<1>17. ASSUME NEW r \in Request, DropDatabase(r) PROVE PlaceInv'
  BY <1>17 DEF DropDatabase, At, Goto, stores, Adding, Removing, TypeOK, PlaceInv
<1>18. ASSUME NEW r \in Request, ClearRetries(r) PROVE PlaceInv'
  BY <1>18 DEF ClearRetries, At, Goto, stores, Adding, Removing, TypeOK, PlaceInv
<1>19. ASSUME NEW r \in Request, EnsureDeleting(r) PROVE PlaceInv'
  BY <1>19 DEF EnsureDeleting, At, Goto, stores, Adding, Removing, TypeOK, PlaceInv
<1>20. ASSUME NEW r \in Request, ReadMarker(r) PROVE PlaceInv'
  BY <1>20 DEF ReadMarker, AfterMarker, At, Goto, stores, Adding, Removing, TypeOK,
      PlaceInv
<1>21. ASSUME NEW r \in Request, DropMarker(r) PROVE PlaceInv'
  BY <1>21 DEF DropMarker, AfterMarker, At, Goto, stores, Adding, Removing, TypeOK,
      PlaceInv
<1>22. ASSUME NEW r \in Request, Requeue(r) PROVE PlaceInv'
  BY <1>22 DEF Requeue, At, Goto, stores, Adding, Removing, TypeOK, PlaceInv
<1>23. ASSUME NEW r \in Request, Throw(r) PROVE PlaceInv'
  BY <1>23 DEF Throw, AfterThrow, AfterMarker, BestEffort, Running, At, Goto, stores,
      Adding, Removing, TypeOK, PlaceInv
<1>24. ASSUME NEW r \in Request, Crash(r) PROVE PlaceInv'
  BY <1>24 DEF Crash, AbandonMade, Running, At, Goto, stores, Adding, Removing, TypeOK,
      PlaceInv
<1>25. ASSUME SetupEnds PROVE PlaceInv'
  BY <1>25 DEF SetupEnds, At, Goto, stores, Adding, Removing, TypeOK, PlaceInv
<1>26. ASSUME Resurrect PROVE PlaceInv'
  BY <1>26 DEF Resurrect, At, Goto, stores, Adding, Removing, TypeOK, PlaceInv
<1>27. ASSUME LateEnds PROVE PlaceInv'
  BY <1>27 DEF LateEnds, At, Goto, stores, Adding, Removing, TypeOK, PlaceInv
<1>28. ASSUME Settle PROVE PlaceInv'
  BY <1>28 DEF Settle, At, Goto, stores, Adding, Removing, TypeOK, PlaceInv
<1>29. CASE UNCHANGED vars
  BY <1>29 DEF vars, At, Goto, stores, Adding, Removing, TypeOK, PlaceInv
<1> QED BY <1>1, <1>2, <1>3, <1>4, <1>5, <1>6, <1>7, <1>8, <1>9, <1>10, <1>11, <1>12,
      <1>13, <1>14, <1>15, <1>16, <1>17, <1>18, <1>19, <1>20, <1>21, <1>22, <1>23,
      <1>24, <1>25, <1>26, <1>27, <1>28, <1>29 DEF Next, RequestStep, AddStep, RemoveStep

\* Who runs beside another is mixed.
LEMMA MixedStep ==
  ASSUME TypeOK, MixedInv, [Next]_vars
  PROVE  MixedInv'
<1>1. ASSUME NEW r \in Request, Begin(r) PROVE MixedInv'
  BY <1>1 DEF Begin, FirstStep, At, Goto, stores, Adding, Removing, TypeOK, MixedInv,
      Running
<1>2. ASSUME NEW r \in Request, CheckNotDeleting(r) PROVE MixedInv'
  BY <1>2 DEF CheckNotDeleting, At, Goto, stores, Adding, Removing, TypeOK, MixedInv,
      Running
<1>3. ASSUME NEW r \in Request, CheckRegistered(r) PROVE MixedInv'
  BY <1>3 DEF CheckRegistered, AfterCheck, At, Goto, stores, Adding, Removing, TypeOK,
      MixedInv, Running
<1>4. ASSUME NEW r \in Request, WriteMarker(r) PROVE MixedInv'
  BY <1>4 DEF WriteMarker, At, Goto, stores, Adding, Removing, TypeOK, MixedInv, Running
<1>5. ASSUME NEW r \in Request, Make(r) PROVE MixedInv'
  BY <1>5 DEF Make, Failed, IdFree, NoInsertOpen, At, Goto, stores, Adding, Removing,
      TypeOK, MixedInv, Running
<1>6. ASSUME NEW r \in Request, Register(r) PROVE MixedInv'
  BY <1>6 DEF Register, Failed, LifeOfNew, At, Goto, stores, Adding, Removing, TypeOK,
      MixedInv, Running
<1>7. ASSUME NEW r \in Request, RegisterFails(r) PROVE MixedInv'
  BY <1>7 DEF RegisterFails, Failed, AbandonMade, At, Goto, stores, Adding, Removing,
      TypeOK, MixedInv, Running
<1>8. ASSUME NEW r \in Request, CompareMarker(r) PROVE MixedInv'
  BY <1>8 DEF CompareMarker, At, Goto, stores, Adding, Removing, TypeOK, MixedInv,
      Running
<1>9. ASSUME NEW r \in Request, TakeBackMarker(r) PROVE MixedInv'
  BY <1>9 DEF TakeBackMarker, At, Goto, stores, Adding, Removing, TypeOK, MixedInv,
      Running
<1>10. ASSUME NEW r \in Request, ProbeChild(r) PROVE MixedInv'
  BY <1>10 DEF ProbeChild, At, Goto, stores, Adding, Removing, TypeOK, MixedInv, Running
<1>11. ASSUME NEW r \in Request, RemoveStaleRow(r) PROVE MixedInv'
  BY <1>11 DEF RemoveStaleRow, Stale, At, Goto, stores, Adding, Removing, TypeOK,
      MixedInv, Running
<1>12. ASSUME NEW r \in Request, CheckNotCreating(r) PROVE MixedInv'
  BY <1>12 DEF CheckNotCreating, At, Goto, stores, Adding, Removing, TypeOK, MixedInv,
      Running
<1>13. ASSUME NEW r \in Request, CheckCapabilities(r) PROVE MixedInv'
  BY <1>13 DEF CheckCapabilities, At, Goto, stores, Adding, Removing, TypeOK, MixedInv,
      Running
<1>14. ASSUME NEW r \in Request, MarkDeleting(r) PROVE MixedInv'
  BY <1>14 DEF MarkDeleting, At, Goto, stores, Adding, Removing, TypeOK, MixedInv,
      Running
<1>15. ASSUME NEW r \in Request, Unlink(r) PROVE MixedInv'
  BY <1>15 DEF Unlink, AfterUnlink, At, Goto, stores, Adding, Removing, TypeOK,
      MixedInv, Running
<1>16. ASSUME NEW r \in Request, UnlinkFails(r) PROVE MixedInv'
  BY <1>16 DEF UnlinkFails, At, Goto, stores, Adding, Removing, TypeOK, MixedInv,
      Running
<1>17. ASSUME NEW r \in Request, DropDatabase(r) PROVE MixedInv'
  BY <1>17 DEF DropDatabase, At, Goto, stores, Adding, Removing, TypeOK, MixedInv,
      Running
<1>18. ASSUME NEW r \in Request, ClearRetries(r) PROVE MixedInv'
  BY <1>18 DEF ClearRetries, At, Goto, stores, Adding, Removing, TypeOK, MixedInv,
      Running
<1>19. ASSUME NEW r \in Request, EnsureDeleting(r) PROVE MixedInv'
  BY <1>19 DEF EnsureDeleting, At, Goto, stores, Adding, Removing, TypeOK, MixedInv,
      Running
<1>20. ASSUME NEW r \in Request, ReadMarker(r) PROVE MixedInv'
  BY <1>20 DEF ReadMarker, AfterMarker, At, Goto, stores, Adding, Removing, TypeOK,
      MixedInv, Running
<1>21. ASSUME NEW r \in Request, DropMarker(r) PROVE MixedInv'
  BY <1>21 DEF DropMarker, AfterMarker, At, Goto, stores, Adding, Removing, TypeOK,
      MixedInv, Running
<1>22. ASSUME NEW r \in Request, Requeue(r) PROVE MixedInv'
  BY <1>22 DEF Requeue, At, Goto, stores, Adding, Removing, TypeOK, MixedInv, Running
<1>23. ASSUME NEW r \in Request, Throw(r) PROVE MixedInv'
  BY <1>23 DEF Throw, AfterThrow, AfterMarker, BestEffort, Running, At, Goto, stores,
      Adding, Removing, TypeOK, MixedInv
<1>24. ASSUME NEW r \in Request, Crash(r) PROVE MixedInv'
  BY <1>24 DEF Crash, AbandonMade, Running, At, Goto, stores, Adding, Removing, TypeOK,
      MixedInv
<1>25. ASSUME SetupEnds PROVE MixedInv'
  BY <1>25 DEF SetupEnds, At, Goto, stores, Adding, Removing, TypeOK, MixedInv, Running
<1>26. ASSUME Resurrect PROVE MixedInv'
  BY <1>26 DEF Resurrect, At, Goto, stores, Adding, Removing, TypeOK, MixedInv, Running
<1>27. ASSUME LateEnds PROVE MixedInv'
  BY <1>27 DEF LateEnds, At, Goto, stores, Adding, Removing, TypeOK, MixedInv, Running
<1>28. ASSUME Settle PROVE MixedInv'
  BY <1>28 DEF Settle, At, Goto, stores, Adding, Removing, TypeOK, MixedInv, Running
<1>29. CASE UNCHANGED vars
  BY <1>29 DEF vars, At, Goto, stores, Adding, Removing, TypeOK, MixedInv, Running
<1> QED BY <1>1, <1>2, <1>3, <1>4, <1>5, <1>6, <1>7, <1>8, <1>9, <1>10, <1>11, <1>12,
      <1>13, <1>14, <1>15, <1>16, <1>17, <1>18, <1>19, <1>20, <1>21, <1>22, <1>23,
      <1>24, <1>25, <1>26, <1>27, <1>28, <1>29 DEF Next, RequestStep, AddStep, RemoveStep

\* An attach that has run beside another has done so for ever.
LEMMA AloneStep ==
  ASSUME TypeOK, MixedInv, [Next]_vars
  PROVE  AttachAlone' => AttachAlone
<1>1. ASSUME NEW r \in Request, Begin(r) PROVE AttachAlone' => AttachAlone
  BY <1>1 DEF Begin, FirstStep, At, Goto, stores, Adding, Removing, TypeOK, MixedInv,
      AttachAlone
<1>2. ASSUME NEW r \in Request, CheckNotDeleting(r) PROVE AttachAlone' => AttachAlone
  BY <1>2 DEF CheckNotDeleting, At, Goto, stores, Adding, Removing, TypeOK, MixedInv,
      AttachAlone
<1>3. ASSUME NEW r \in Request, CheckRegistered(r) PROVE AttachAlone' => AttachAlone
  BY <1>3 DEF CheckRegistered, AfterCheck, At, Goto, stores, Adding, Removing, TypeOK,
      MixedInv, AttachAlone
<1>4. ASSUME NEW r \in Request, WriteMarker(r) PROVE AttachAlone' => AttachAlone
  BY <1>4 DEF WriteMarker, At, Goto, stores, Adding, Removing, TypeOK, MixedInv,
      AttachAlone
<1>5. ASSUME NEW r \in Request, Make(r) PROVE AttachAlone' => AttachAlone
  BY <1>5 DEF Make, Failed, IdFree, NoInsertOpen, At, Goto, stores, Adding, Removing,
      TypeOK, MixedInv, AttachAlone
<1>6. ASSUME NEW r \in Request, Register(r) PROVE AttachAlone' => AttachAlone
  BY <1>6 DEF Register, Failed, LifeOfNew, At, Goto, stores, Adding, Removing, TypeOK,
      MixedInv, AttachAlone
<1>7. ASSUME NEW r \in Request, RegisterFails(r) PROVE AttachAlone' => AttachAlone
  BY <1>7 DEF RegisterFails, Failed, AbandonMade, At, Goto, stores, Adding, Removing,
      TypeOK, MixedInv, AttachAlone
<1>8. ASSUME NEW r \in Request, CompareMarker(r) PROVE AttachAlone' => AttachAlone
  BY <1>8 DEF CompareMarker, At, Goto, stores, Adding, Removing, TypeOK, MixedInv,
      AttachAlone
<1>9. ASSUME NEW r \in Request, TakeBackMarker(r) PROVE AttachAlone' => AttachAlone
  BY <1>9 DEF TakeBackMarker, At, Goto, stores, Adding, Removing, TypeOK, MixedInv,
      AttachAlone
<1>10. ASSUME NEW r \in Request, ProbeChild(r) PROVE AttachAlone' => AttachAlone
  BY <1>10 DEF ProbeChild, At, Goto, stores, Adding, Removing, TypeOK, MixedInv,
      AttachAlone
<1>11. ASSUME NEW r \in Request, RemoveStaleRow(r) PROVE AttachAlone' => AttachAlone
  BY <1>11 DEF RemoveStaleRow, Stale, At, Goto, stores, Adding, Removing, TypeOK,
      MixedInv, AttachAlone
<1>12. ASSUME NEW r \in Request, CheckNotCreating(r) PROVE AttachAlone' => AttachAlone
  BY <1>12 DEF CheckNotCreating, At, Goto, stores, Adding, Removing, TypeOK, MixedInv,
      AttachAlone
<1>13. ASSUME NEW r \in Request, CheckCapabilities(r) PROVE AttachAlone' => AttachAlone
  BY <1>13 DEF CheckCapabilities, At, Goto, stores, Adding, Removing, TypeOK, MixedInv,
      AttachAlone
<1>14. ASSUME NEW r \in Request, MarkDeleting(r) PROVE AttachAlone' => AttachAlone
  BY <1>14 DEF MarkDeleting, At, Goto, stores, Adding, Removing, TypeOK, MixedInv,
      AttachAlone
<1>15. ASSUME NEW r \in Request, Unlink(r) PROVE AttachAlone' => AttachAlone
  BY <1>15 DEF Unlink, AfterUnlink, At, Goto, stores, Adding, Removing, TypeOK,
      MixedInv, AttachAlone
<1>16. ASSUME NEW r \in Request, UnlinkFails(r) PROVE AttachAlone' => AttachAlone
  BY <1>16 DEF UnlinkFails, At, Goto, stores, Adding, Removing, TypeOK, MixedInv,
      AttachAlone
<1>17. ASSUME NEW r \in Request, DropDatabase(r) PROVE AttachAlone' => AttachAlone
  BY <1>17 DEF DropDatabase, At, Goto, stores, Adding, Removing, TypeOK, MixedInv,
      AttachAlone
<1>18. ASSUME NEW r \in Request, ClearRetries(r) PROVE AttachAlone' => AttachAlone
  BY <1>18 DEF ClearRetries, At, Goto, stores, Adding, Removing, TypeOK, MixedInv,
      AttachAlone
<1>19. ASSUME NEW r \in Request, EnsureDeleting(r) PROVE AttachAlone' => AttachAlone
  BY <1>19 DEF EnsureDeleting, At, Goto, stores, Adding, Removing, TypeOK, MixedInv,
      AttachAlone
<1>20. ASSUME NEW r \in Request, ReadMarker(r) PROVE AttachAlone' => AttachAlone
  BY <1>20 DEF ReadMarker, AfterMarker, At, Goto, stores, Adding, Removing, TypeOK,
      MixedInv, AttachAlone
<1>21. ASSUME NEW r \in Request, DropMarker(r) PROVE AttachAlone' => AttachAlone
  BY <1>21 DEF DropMarker, AfterMarker, At, Goto, stores, Adding, Removing, TypeOK,
      MixedInv, AttachAlone
<1>22. ASSUME NEW r \in Request, Requeue(r) PROVE AttachAlone' => AttachAlone
  BY <1>22 DEF Requeue, At, Goto, stores, Adding, Removing, TypeOK, MixedInv,
      AttachAlone
<1>23. ASSUME NEW r \in Request, Throw(r) PROVE AttachAlone' => AttachAlone
  BY <1>23 DEF Throw, AfterThrow, AfterMarker, BestEffort, Running, At, Goto, stores,
      Adding, Removing, TypeOK, MixedInv, AttachAlone
<1>24. ASSUME NEW r \in Request, Crash(r) PROVE AttachAlone' => AttachAlone
  BY <1>24 DEF Crash, AbandonMade, Running, At, Goto, stores, Adding, Removing, TypeOK,
      MixedInv, AttachAlone
<1>25. ASSUME SetupEnds PROVE AttachAlone' => AttachAlone
  BY <1>25 DEF SetupEnds, At, Goto, stores, Adding, Removing, TypeOK, MixedInv,
      AttachAlone
<1>26. ASSUME Resurrect PROVE AttachAlone' => AttachAlone
  BY <1>26 DEF Resurrect, At, Goto, stores, Adding, Removing, TypeOK, MixedInv,
      AttachAlone
<1>27. ASSUME LateEnds PROVE AttachAlone' => AttachAlone
  BY <1>27 DEF LateEnds, At, Goto, stores, Adding, Removing, TypeOK, MixedInv,
      AttachAlone
<1>28. ASSUME Settle PROVE AttachAlone' => AttachAlone
  BY <1>28 DEF Settle, At, Goto, stores, Adding, Removing, TypeOK, MixedInv, AttachAlone
<1>29. CASE UNCHANGED vars
  BY <1>29 DEF vars, At, Goto, stores, Adding, Removing, TypeOK, MixedInv, AttachAlone
<1> QED BY <1>1, <1>2, <1>3, <1>4, <1>5, <1>6, <1>7, <1>8, <1>9, <1>10, <1>11, <1>12,
      <1>13, <1>14, <1>15, <1>16, <1>17, <1>18, <1>19, <1>20, <1>21, <1>22, <1>23,
      <1>24, <1>25, <1>26, <1>27, <1>28, <1>29 DEF Next, RequestStep, AddStep, RemoveStep

\* One insert of the id is open at most.
LEMMA InsertStep ==
  ASSUME TypeOK, InsertInv, [Next]_vars
  PROVE  InsertInv'
<1>1. ASSUME NEW r \in Request, Begin(r) PROVE InsertInv'
  BY <1>1 DEF Begin, FirstStep, At, Goto, stores, Adding, Removing, TypeOK, InsertInv,
      Ours
<1>2. ASSUME NEW r \in Request, CheckNotDeleting(r) PROVE InsertInv'
  BY <1>2 DEF CheckNotDeleting, At, Goto, stores, Adding, Removing, TypeOK, InsertInv,
      Ours
<1>3. ASSUME NEW r \in Request, CheckRegistered(r) PROVE InsertInv'
  BY <1>3 DEF CheckRegistered, AfterCheck, At, Goto, stores, Adding, Removing, TypeOK,
      InsertInv, Ours
<1>4. ASSUME NEW r \in Request, WriteMarker(r) PROVE InsertInv'
  BY <1>4 DEF WriteMarker, At, Goto, stores, Adding, Removing, TypeOK, InsertInv, Ours
<1>5. ASSUME NEW r \in Request, Make(r) PROVE InsertInv'
  BY <1>5 DEF Make, Failed, IdFree, NoInsertOpen, At, Goto, stores, Adding, Removing,
      TypeOK, InsertInv, Ours
<1>6. ASSUME NEW r \in Request, Register(r) PROVE InsertInv'
  BY <1>6 DEF Register, Failed, LifeOfNew, At, Goto, stores, Adding, Removing, TypeOK,
      InsertInv, Ours
<1>7. ASSUME NEW r \in Request, RegisterFails(r) PROVE InsertInv'
  BY <1>7 DEF RegisterFails, Failed, AbandonMade, At, Goto, stores, Adding, Removing,
      TypeOK, InsertInv, Ours
<1>8. ASSUME NEW r \in Request, CompareMarker(r) PROVE InsertInv'
  BY <1>8 DEF CompareMarker, At, Goto, stores, Adding, Removing, TypeOK, InsertInv, Ours
<1>9. ASSUME NEW r \in Request, TakeBackMarker(r) PROVE InsertInv'
  BY <1>9 DEF TakeBackMarker, At, Goto, stores, Adding, Removing, TypeOK, InsertInv,
      Ours
<1>10. ASSUME NEW r \in Request, ProbeChild(r) PROVE InsertInv'
  BY <1>10 DEF ProbeChild, At, Goto, stores, Adding, Removing, TypeOK, InsertInv, Ours
<1>11. ASSUME NEW r \in Request, RemoveStaleRow(r) PROVE InsertInv'
  BY <1>11 DEF RemoveStaleRow, Stale, At, Goto, stores, Adding, Removing, TypeOK,
      InsertInv, Ours
<1>12. ASSUME NEW r \in Request, CheckNotCreating(r) PROVE InsertInv'
  BY <1>12 DEF CheckNotCreating, At, Goto, stores, Adding, Removing, TypeOK, InsertInv,
      Ours
<1>13. ASSUME NEW r \in Request, CheckCapabilities(r) PROVE InsertInv'
  BY <1>13 DEF CheckCapabilities, At, Goto, stores, Adding, Removing, TypeOK, InsertInv,
      Ours
<1>14. ASSUME NEW r \in Request, MarkDeleting(r) PROVE InsertInv'
  BY <1>14 DEF MarkDeleting, At, Goto, stores, Adding, Removing, TypeOK, InsertInv, Ours
<1>15. ASSUME NEW r \in Request, Unlink(r) PROVE InsertInv'
  BY <1>15 DEF Unlink, AfterUnlink, At, Goto, stores, Adding, Removing, TypeOK,
      InsertInv, Ours
<1>16. ASSUME NEW r \in Request, UnlinkFails(r) PROVE InsertInv'
  BY <1>16 DEF UnlinkFails, At, Goto, stores, Adding, Removing, TypeOK, InsertInv, Ours
<1>17. ASSUME NEW r \in Request, DropDatabase(r) PROVE InsertInv'
  BY <1>17 DEF DropDatabase, At, Goto, stores, Adding, Removing, TypeOK, InsertInv, Ours
<1>18. ASSUME NEW r \in Request, ClearRetries(r) PROVE InsertInv'
  BY <1>18 DEF ClearRetries, At, Goto, stores, Adding, Removing, TypeOK, InsertInv, Ours
<1>19. ASSUME NEW r \in Request, EnsureDeleting(r) PROVE InsertInv'
  BY <1>19 DEF EnsureDeleting, At, Goto, stores, Adding, Removing, TypeOK, InsertInv,
      Ours
<1>20. ASSUME NEW r \in Request, ReadMarker(r) PROVE InsertInv'
  BY <1>20 DEF ReadMarker, AfterMarker, At, Goto, stores, Adding, Removing, TypeOK,
      InsertInv, Ours
<1>21. ASSUME NEW r \in Request, DropMarker(r) PROVE InsertInv'
  BY <1>21 DEF DropMarker, AfterMarker, At, Goto, stores, Adding, Removing, TypeOK,
      InsertInv, Ours
<1>22. ASSUME NEW r \in Request, Requeue(r) PROVE InsertInv'
  BY <1>22 DEF Requeue, At, Goto, stores, Adding, Removing, TypeOK, InsertInv, Ours
<1>23. ASSUME NEW r \in Request, Throw(r) PROVE InsertInv'
  BY <1>23 DEF Throw, AfterThrow, AfterMarker, BestEffort, Running, At, Goto, stores,
      Adding, Removing, TypeOK, InsertInv, Ours
<1>24. ASSUME NEW r \in Request, Crash(r) PROVE InsertInv'
  BY <1>24 DEF Crash, AbandonMade, Running, At, Goto, stores, Adding, Removing, TypeOK,
      InsertInv, Ours
<1>25. ASSUME SetupEnds PROVE InsertInv'
  BY <1>25 DEF SetupEnds, At, Goto, stores, Adding, Removing, TypeOK, InsertInv, Ours
<1>26. ASSUME Resurrect PROVE InsertInv'
  BY <1>26 DEF Resurrect, At, Goto, stores, Adding, Removing, TypeOK, InsertInv, Ours
<1>27. ASSUME LateEnds PROVE InsertInv'
  BY <1>27 DEF LateEnds, At, Goto, stores, Adding, Removing, TypeOK, InsertInv, Ours
<1>28. ASSUME Settle PROVE InsertInv'
  BY <1>28 DEF Settle, At, Goto, stores, Adding, Removing, TypeOK, InsertInv, Ours
<1>29. CASE UNCHANGED vars
  BY <1>29 DEF vars, At, Goto, stores, Adding, Removing, TypeOK, InsertInv, Ours
<1> QED BY <1>1, <1>2, <1>3, <1>4, <1>5, <1>6, <1>7, <1>8, <1>9, <1>10, <1>11, <1>12,
      <1>13, <1>14, <1>15, <1>16, <1>17, <1>18, <1>19, <1>20, <1>21, <1>22, <1>23,
      <1>24, <1>25, <1>26, <1>27, <1>28, <1>29 DEF Next, RequestStep, AddStep, RemoveStep

\* A delete that has passed its checks is about a child of this parent.
LEMMA ChildStep ==
  ASSUME TypeOK, PlaceInv, ChildInv, [Next]_vars
  PROVE  ChildInv'
<1>1. ASSUME NEW r \in Request, Begin(r) PROVE ChildInv'
  BY <1>1 DEF Begin, FirstStep, At, Goto, stores, Adding, Removing, TypeOK, PlaceInv,
      ChildInv, Ours
<1>2. ASSUME NEW r \in Request, CheckNotDeleting(r) PROVE ChildInv'
  BY <1>2 DEF CheckNotDeleting, At, Goto, stores, Adding, Removing, TypeOK, PlaceInv,
      ChildInv, Ours
<1>3. ASSUME NEW r \in Request, CheckRegistered(r) PROVE ChildInv'
  BY <1>3 DEF CheckRegistered, AfterCheck, At, Goto, stores, Adding, Removing, TypeOK,
      PlaceInv, ChildInv, Ours
<1>4. ASSUME NEW r \in Request, WriteMarker(r) PROVE ChildInv'
  BY <1>4 DEF WriteMarker, At, Goto, stores, Adding, Removing, TypeOK, PlaceInv,
      ChildInv, Ours
<1>5. ASSUME NEW r \in Request, Make(r) PROVE ChildInv'
  BY <1>5 DEF Make, Failed, IdFree, NoInsertOpen, At, Goto, stores, Adding, Removing,
      TypeOK, PlaceInv, ChildInv, Ours
<1>6. ASSUME NEW r \in Request, Register(r) PROVE ChildInv'
  BY <1>6 DEF Register, Failed, LifeOfNew, At, Goto, stores, Adding, Removing, TypeOK,
      PlaceInv, ChildInv, Ours
<1>7. ASSUME NEW r \in Request, RegisterFails(r) PROVE ChildInv'
  BY <1>7 DEF RegisterFails, Failed, AbandonMade, At, Goto, stores, Adding, Removing,
      TypeOK, PlaceInv, ChildInv, Ours
<1>8. ASSUME NEW r \in Request, CompareMarker(r) PROVE ChildInv'
  BY <1>8 DEF CompareMarker, At, Goto, stores, Adding, Removing, TypeOK, PlaceInv,
      ChildInv, Ours
<1>9. ASSUME NEW r \in Request, TakeBackMarker(r) PROVE ChildInv'
  BY <1>9 DEF TakeBackMarker, At, Goto, stores, Adding, Removing, TypeOK, PlaceInv,
      ChildInv, Ours
<1>10. ASSUME NEW r \in Request, ProbeChild(r) PROVE ChildInv'
  BY <1>10 DEF ProbeChild, At, Goto, stores, Adding, Removing, TypeOK, PlaceInv,
      ChildInv, Ours
<1>11. ASSUME NEW r \in Request, RemoveStaleRow(r) PROVE ChildInv'
  BY <1>11 DEF RemoveStaleRow, Stale, At, Goto, stores, Adding, Removing, TypeOK,
      PlaceInv, ChildInv, Ours
<1>12. ASSUME NEW r \in Request, CheckNotCreating(r) PROVE ChildInv'
  BY <1>12 DEF CheckNotCreating, At, Goto, stores, Adding, Removing, TypeOK, PlaceInv,
      ChildInv, Ours
<1>13. ASSUME NEW r \in Request, CheckCapabilities(r) PROVE ChildInv'
  BY <1>13 DEF CheckCapabilities, At, Goto, stores, Adding, Removing, TypeOK, PlaceInv,
      ChildInv, Ours
<1>14. ASSUME NEW r \in Request, MarkDeleting(r) PROVE ChildInv'
  BY <1>14 DEF MarkDeleting, At, Goto, stores, Adding, Removing, TypeOK, PlaceInv,
      ChildInv, Ours
<1>15. ASSUME NEW r \in Request, Unlink(r) PROVE ChildInv'
  BY <1>15 DEF Unlink, AfterUnlink, At, Goto, stores, Adding, Removing, TypeOK,
      PlaceInv, ChildInv, Ours
<1>16. ASSUME NEW r \in Request, UnlinkFails(r) PROVE ChildInv'
  BY <1>16 DEF UnlinkFails, At, Goto, stores, Adding, Removing, TypeOK, PlaceInv,
      ChildInv, Ours
<1>17. ASSUME NEW r \in Request, DropDatabase(r) PROVE ChildInv'
  BY <1>17 DEF DropDatabase, At, Goto, stores, Adding, Removing, TypeOK, PlaceInv,
      ChildInv, Ours
<1>18. ASSUME NEW r \in Request, ClearRetries(r) PROVE ChildInv'
  BY <1>18 DEF ClearRetries, At, Goto, stores, Adding, Removing, TypeOK, PlaceInv,
      ChildInv, Ours
<1>19. ASSUME NEW r \in Request, EnsureDeleting(r) PROVE ChildInv'
  BY <1>19 DEF EnsureDeleting, At, Goto, stores, Adding, Removing, TypeOK, PlaceInv,
      ChildInv, Ours
<1>20. ASSUME NEW r \in Request, ReadMarker(r) PROVE ChildInv'
  BY <1>20 DEF ReadMarker, AfterMarker, At, Goto, stores, Adding, Removing, TypeOK,
      PlaceInv, ChildInv, Ours
<1>21. ASSUME NEW r \in Request, DropMarker(r) PROVE ChildInv'
  BY <1>21 DEF DropMarker, AfterMarker, At, Goto, stores, Adding, Removing, TypeOK,
      PlaceInv, ChildInv, Ours
<1>22. ASSUME NEW r \in Request, Requeue(r) PROVE ChildInv'
  BY <1>22 DEF Requeue, At, Goto, stores, Adding, Removing, TypeOK, PlaceInv, ChildInv,
      Ours
<1>23. ASSUME NEW r \in Request, Throw(r) PROVE ChildInv'
  BY <1>23 DEF Throw, AfterThrow, AfterMarker, BestEffort, Running, At, Goto, stores,
      Adding, Removing, TypeOK, PlaceInv, ChildInv, Ours
<1>24. ASSUME NEW r \in Request, Crash(r) PROVE ChildInv'
  BY <1>24 DEF Crash, AbandonMade, Running, At, Goto, stores, Adding, Removing, TypeOK,
      PlaceInv, ChildInv, Ours
<1>25. ASSUME SetupEnds PROVE ChildInv'
  BY <1>25 DEF SetupEnds, At, Goto, stores, Adding, Removing, TypeOK, PlaceInv,
      ChildInv, Ours
<1>26. ASSUME Resurrect PROVE ChildInv'
  BY <1>26 DEF Resurrect, At, Goto, stores, Adding, Removing, TypeOK, PlaceInv,
      ChildInv, Ours
<1>27. ASSUME LateEnds PROVE ChildInv'
  BY <1>27 DEF LateEnds, At, Goto, stores, Adding, Removing, TypeOK, PlaceInv, ChildInv,
      Ours
<1>28. ASSUME Settle PROVE ChildInv'
  BY <1>28 DEF Settle, At, Goto, stores, Adding, Removing, TypeOK, PlaceInv, ChildInv,
      Ours
<1>29. CASE UNCHANGED vars
  BY <1>29 DEF vars, At, Goto, stores, Adding, Removing, TypeOK, PlaceInv, ChildInv,
      Ours
<1> QED BY <1>1, <1>2, <1>3, <1>4, <1>5, <1>6, <1>7, <1>8, <1>9, <1>10, <1>11, <1>12,
      <1>13, <1>14, <1>15, <1>16, <1>17, <1>18, <1>19, <1>20, <1>21, <1>22, <1>23,
      <1>24, <1>25, <1>26, <1>27, <1>28, <1>29 DEF Next, RequestStep, AddStep, RemoveStep

\* How far requests come with a tenant of another parent.
LEMMA OtherStep ==
  ASSUME TypeOK, PlaceInv, InsertInv, ChildInv, OtherInv, [Next]_vars
  PROVE  OtherInv'
<1>1. ASSUME NEW r \in Request, Begin(r) PROVE OtherInv'
  BY <1>1 DEF Begin, FirstStep, At, Goto, stores, Adding, Removing, TypeOK, PlaceInv,
      ChildInv, OtherInv, Operation, Ours
<1>2. ASSUME NEW r \in Request, CheckNotDeleting(r) PROVE OtherInv'
  BY <1>2 DEF CheckNotDeleting, At, Goto, stores, Adding, Removing, TypeOK, PlaceInv,
      ChildInv, OtherInv, Operation, Ours
<1>3. ASSUME NEW r \in Request, CheckRegistered(r) PROVE OtherInv'
  BY <1>3 DEF CheckRegistered, AfterCheck, At, Goto, stores, Adding, Removing, TypeOK,
      PlaceInv, ChildInv, OtherInv, Operation, Ours
<1>4. ASSUME NEW r \in Request, WriteMarker(r) PROVE OtherInv'
  BY <1>4 DEF WriteMarker, At, Goto, stores, Adding, Removing, TypeOK, PlaceInv,
      ChildInv, OtherInv, Operation, Ours
<1>5. ASSUME NEW r \in Request, Make(r) PROVE OtherInv'
  BY <1>5 DEF Make, Failed, IdFree, NoInsertOpen, At, Goto, stores, Adding, Removing,
      TypeOK, PlaceInv, ChildInv, OtherInv, Operation, Ours
<1>6. ASSUME NEW r \in Request, Register(r) PROVE OtherInv'
  BY <1>6 DEF Register, Failed, LifeOfNew, InsertInv, At, Goto, stores, Adding,
      Removing, TypeOK, PlaceInv, ChildInv, OtherInv, Operation, Ours
<1>7. ASSUME NEW r \in Request, RegisterFails(r) PROVE OtherInv'
  BY <1>7 DEF RegisterFails, Failed, AbandonMade, At, Goto, stores, Adding, Removing,
      TypeOK, PlaceInv, ChildInv, OtherInv, Operation, Ours
<1>8. ASSUME NEW r \in Request, CompareMarker(r) PROVE OtherInv'
  BY <1>8 DEF CompareMarker, At, Goto, stores, Adding, Removing, TypeOK, PlaceInv,
      ChildInv, OtherInv, Operation, Ours
<1>9. ASSUME NEW r \in Request, TakeBackMarker(r) PROVE OtherInv'
  BY <1>9 DEF TakeBackMarker, At, Goto, stores, Adding, Removing, TypeOK, PlaceInv,
      ChildInv, OtherInv, Operation, Ours
<1>10. ASSUME NEW r \in Request, ProbeChild(r) PROVE OtherInv'
  BY <1>10 DEF ProbeChild, At, Goto, stores, Adding, Removing, TypeOK, PlaceInv,
      ChildInv, OtherInv, Operation, Ours
<1>11. ASSUME NEW r \in Request, RemoveStaleRow(r) PROVE OtherInv'
  BY <1>11 DEF RemoveStaleRow, Stale, At, Goto, stores, Adding, Removing, TypeOK,
      PlaceInv, ChildInv, OtherInv, Operation, Ours
<1>12. ASSUME NEW r \in Request, CheckNotCreating(r) PROVE OtherInv'
  BY <1>12 DEF CheckNotCreating, At, Goto, stores, Adding, Removing, TypeOK, PlaceInv,
      ChildInv, OtherInv, Operation, Ours
<1>13. ASSUME NEW r \in Request, CheckCapabilities(r) PROVE OtherInv'
  BY <1>13 DEF CheckCapabilities, At, Goto, stores, Adding, Removing, TypeOK, PlaceInv,
      ChildInv, OtherInv, Operation, Ours
<1>14. ASSUME NEW r \in Request, MarkDeleting(r) PROVE OtherInv'
  BY <1>14 DEF MarkDeleting, At, Goto, stores, Adding, Removing, TypeOK, PlaceInv,
      ChildInv, OtherInv, Operation, Ours
<1>15. ASSUME NEW r \in Request, Unlink(r) PROVE OtherInv'
  BY <1>15 DEF Unlink, AfterUnlink, At, Goto, stores, Adding, Removing, TypeOK,
      PlaceInv, ChildInv, OtherInv, Operation, Ours
<1>16. ASSUME NEW r \in Request, UnlinkFails(r) PROVE OtherInv'
  BY <1>16 DEF UnlinkFails, At, Goto, stores, Adding, Removing, TypeOK, PlaceInv,
      ChildInv, OtherInv, Operation, Ours
<1>17. ASSUME NEW r \in Request, DropDatabase(r) PROVE OtherInv'
  BY <1>17 DEF DropDatabase, At, Goto, stores, Adding, Removing, TypeOK, PlaceInv,
      ChildInv, OtherInv, Operation, Ours
<1>18. ASSUME NEW r \in Request, ClearRetries(r) PROVE OtherInv'
  BY <1>18 DEF ClearRetries, At, Goto, stores, Adding, Removing, TypeOK, PlaceInv,
      ChildInv, OtherInv, Operation, Ours
<1>19. ASSUME NEW r \in Request, EnsureDeleting(r) PROVE OtherInv'
  BY <1>19 DEF EnsureDeleting, At, Goto, stores, Adding, Removing, TypeOK, PlaceInv,
      ChildInv, OtherInv, Operation, Ours
<1>20. ASSUME NEW r \in Request, ReadMarker(r) PROVE OtherInv'
  BY <1>20 DEF ReadMarker, AfterMarker, At, Goto, stores, Adding, Removing, TypeOK,
      PlaceInv, ChildInv, OtherInv, Operation, Ours
<1>21. ASSUME NEW r \in Request, DropMarker(r) PROVE OtherInv'
  BY <1>21 DEF DropMarker, AfterMarker, At, Goto, stores, Adding, Removing, TypeOK,
      PlaceInv, ChildInv, OtherInv, Operation, Ours
<1>22. ASSUME NEW r \in Request, Requeue(r) PROVE OtherInv'
  BY <1>22 DEF Requeue, At, Goto, stores, Adding, Removing, TypeOK, PlaceInv, ChildInv,
      OtherInv, Operation, Ours
<1>23. ASSUME NEW r \in Request, Throw(r) PROVE OtherInv'
  BY <1>23 DEF Throw, AfterThrow, AfterMarker, BestEffort, Running, At, Goto, stores,
      Adding, Removing, TypeOK, PlaceInv, ChildInv, OtherInv, Operation, Ours
<1>24. ASSUME NEW r \in Request, Crash(r) PROVE OtherInv'
  BY <1>24 DEF Crash, AbandonMade, Running, At, Goto, stores, Adding, Removing, TypeOK,
      PlaceInv, ChildInv, OtherInv, Operation, Ours
<1>25. ASSUME SetupEnds PROVE OtherInv'
  BY <1>25 DEF SetupEnds, At, Goto, stores, Adding, Removing, TypeOK, PlaceInv,
      ChildInv, OtherInv, Operation, Ours
<1>26. ASSUME Resurrect PROVE OtherInv'
  BY <1>26 DEF Resurrect, At, Goto, stores, Adding, Removing, TypeOK, PlaceInv,
      ChildInv, OtherInv, Operation, Ours
<1>27. ASSUME LateEnds PROVE OtherInv'
  BY <1>27 DEF LateEnds, At, Goto, stores, Adding, Removing, TypeOK, PlaceInv, ChildInv,
      OtherInv, Operation, Ours
<1>28. ASSUME Settle PROVE OtherInv'
  BY <1>28 DEF Settle, At, Goto, stores, Adding, Removing, TypeOK, PlaceInv, ChildInv,
      OtherInv, Operation, Ours
<1>29. CASE UNCHANGED vars
  BY <1>29 DEF vars, At, Goto, stores, Adding, Removing, TypeOK, PlaceInv, ChildInv,
      OtherInv, Operation, Ours
<1> QED BY <1>1, <1>2, <1>3, <1>4, <1>5, <1>6, <1>7, <1>8, <1>9, <1>10, <1>11, <1>12,
      <1>13, <1>14, <1>15, <1>16, <1>17, <1>18, <1>19, <1>20, <1>21, <1>22, <1>23,
      <1>24, <1>25, <1>26, <1>27, <1>28, <1>29 DEF Next, RequestStep, AddStep, RemoveStep

\* A drop meets the database its request left, an insert the one it needs.
LEMMA DatabaseStep ==
  ASSUME TypeOK, MixedInv, PlaceInv, InsertInv, DatabaseInv, RegisteredHasDatabase, [Next]_vars
  PROVE  DatabaseInv'
<1>1. ASSUME NEW r \in Request, Begin(r) PROVE DatabaseInv'
  BY <1>1, AloneStep DEF Begin, FirstStep, Operation, At, Goto, stores, Adding,
      Removing, TypeOK, MixedInv, PlaceInv, InsertInv, DatabaseInv, AttachAlone, Running
<1>2. ASSUME NEW r \in Request, CheckNotDeleting(r) PROVE DatabaseInv'
  BY <1>2, AloneStep DEF CheckNotDeleting, At, Goto, stores, Adding, Removing, TypeOK,
      MixedInv, PlaceInv, InsertInv, DatabaseInv, AttachAlone, Running
<1>3. ASSUME NEW r \in Request, CheckRegistered(r) PROVE DatabaseInv'
  BY <1>3, AloneStep DEF CheckRegistered, AfterCheck, At, Goto, stores, Adding,
      Removing, TypeOK, MixedInv, PlaceInv, InsertInv, DatabaseInv, AttachAlone, Running
<1>4. ASSUME NEW r \in Request, WriteMarker(r) PROVE DatabaseInv'
  BY <1>4, AloneStep DEF WriteMarker, At, Goto, stores, Adding, Removing, TypeOK,
      MixedInv, PlaceInv, InsertInv, DatabaseInv, AttachAlone, Running
<1>5. ASSUME NEW r \in Request, Make(r) PROVE DatabaseInv'
  BY <1>5, AloneStep DEF Make, Failed, IdFree, NoInsertOpen, Leftover, At, Goto, stores,
      Adding, Removing, TypeOK, MixedInv, PlaceInv, InsertInv, DatabaseInv, AttachAlone,
      Running
<1>6. ASSUME NEW r \in Request, Register(r) PROVE DatabaseInv'
  BY <1>6, AloneStep DEF Register, Failed, LifeOfNew, Ours, At, Goto, stores, Adding,
      Removing, TypeOK, MixedInv, PlaceInv, InsertInv, DatabaseInv, AttachAlone, Running
<1>7. ASSUME NEW r \in Request, RegisterFails(r) PROVE DatabaseInv'
  BY <1>7, AloneStep DEF RegisterFails, Failed, AbandonMade, At, Goto, stores, Adding,
      Removing, TypeOK, MixedInv, PlaceInv, InsertInv, DatabaseInv, AttachAlone, Running
<1>8. ASSUME NEW r \in Request, CompareMarker(r) PROVE DatabaseInv'
  BY <1>8, AloneStep DEF CompareMarker, At, Goto, stores, Adding, Removing, TypeOK,
      MixedInv, PlaceInv, InsertInv, DatabaseInv, AttachAlone, Running
<1>9. ASSUME NEW r \in Request, TakeBackMarker(r) PROVE DatabaseInv'
  BY <1>9, AloneStep DEF TakeBackMarker, At, Goto, stores, Adding, Removing, TypeOK,
      MixedInv, PlaceInv, InsertInv, DatabaseInv, AttachAlone, Running
<1>10. ASSUME NEW r \in Request, ProbeChild(r) PROVE DatabaseInv'
  BY <1>10, AloneStep DEF ProbeChild, At, Goto, stores, Adding, Removing, TypeOK,
      MixedInv, PlaceInv, InsertInv, DatabaseInv, AttachAlone, Running
<1>11. ASSUME NEW r \in Request, RemoveStaleRow(r) PROVE DatabaseInv'
  BY <1>11, AloneStep DEF RemoveStaleRow, Stale, At, Goto, stores, Adding, Removing,
      TypeOK, MixedInv, PlaceInv, InsertInv, DatabaseInv, AttachAlone, Running
<1>12. ASSUME NEW r \in Request, CheckNotCreating(r) PROVE DatabaseInv'
  BY <1>12, AloneStep DEF CheckNotCreating, At, Goto, stores, Adding, Removing, TypeOK,
      MixedInv, PlaceInv, InsertInv, DatabaseInv, AttachAlone, Running
<1>13. ASSUME NEW r \in Request, CheckCapabilities(r) PROVE DatabaseInv'
  BY <1>13, AloneStep DEF CheckCapabilities, At, Goto, stores, Adding, Removing, TypeOK,
      MixedInv, PlaceInv, InsertInv, DatabaseInv, AttachAlone, Running
<1>14. ASSUME NEW r \in Request, MarkDeleting(r) PROVE DatabaseInv'
  BY <1>14, AloneStep DEF MarkDeleting, At, Goto, stores, Adding, Removing, TypeOK,
      MixedInv, PlaceInv, InsertInv, DatabaseInv, AttachAlone, Running
<1>15. ASSUME NEW r \in Request, Unlink(r) PROVE DatabaseInv'
  BY <1>15, AloneStep DEF Unlink, AfterUnlink, Ours, RegisteredHasDatabase, At, Goto,
      stores, Adding, Removing, TypeOK, MixedInv, PlaceInv, InsertInv, DatabaseInv,
      AttachAlone, Running
<1>16. ASSUME NEW r \in Request, UnlinkFails(r) PROVE DatabaseInv'
  BY <1>16, AloneStep DEF UnlinkFails, At, Goto, stores, Adding, Removing, TypeOK,
      MixedInv, PlaceInv, InsertInv, DatabaseInv, AttachAlone, Running
<1>17. ASSUME NEW r \in Request, DropDatabase(r) PROVE DatabaseInv'
  BY <1>17, AloneStep DEF DropDatabase, At, Goto, stores, Adding, Removing, TypeOK,
      MixedInv, PlaceInv, InsertInv, DatabaseInv, AttachAlone, Running
<1>18. ASSUME NEW r \in Request, ClearRetries(r) PROVE DatabaseInv'
  BY <1>18, AloneStep DEF ClearRetries, At, Goto, stores, Adding, Removing, TypeOK,
      MixedInv, PlaceInv, InsertInv, DatabaseInv, AttachAlone, Running
<1>19. ASSUME NEW r \in Request, EnsureDeleting(r) PROVE DatabaseInv'
  BY <1>19, AloneStep DEF EnsureDeleting, At, Goto, stores, Adding, Removing, TypeOK,
      MixedInv, PlaceInv, InsertInv, DatabaseInv, AttachAlone, Running
<1>20. ASSUME NEW r \in Request, ReadMarker(r) PROVE DatabaseInv'
  BY <1>20, AloneStep DEF ReadMarker, AfterMarker, At, Goto, stores, Adding, Removing,
      TypeOK, MixedInv, PlaceInv, InsertInv, DatabaseInv, AttachAlone, Running
<1>21. ASSUME NEW r \in Request, DropMarker(r) PROVE DatabaseInv'
  BY <1>21, AloneStep DEF DropMarker, AfterMarker, At, Goto, stores, Adding, Removing,
      TypeOK, MixedInv, PlaceInv, InsertInv, DatabaseInv, AttachAlone, Running
<1>22. ASSUME NEW r \in Request, Requeue(r) PROVE DatabaseInv'
  BY <1>22, AloneStep DEF Requeue, At, Goto, stores, Adding, Removing, TypeOK, MixedInv,
      PlaceInv, InsertInv, DatabaseInv, AttachAlone, Running
<1>23. ASSUME NEW r \in Request, Throw(r) PROVE DatabaseInv'
  BY <1>23, AloneStep DEF Throw, AfterThrow, AfterMarker, BestEffort, Running, At, Goto,
      stores, Adding, Removing, TypeOK, MixedInv, PlaceInv, InsertInv, DatabaseInv,
      AttachAlone
<1>24. ASSUME NEW r \in Request, Crash(r) PROVE DatabaseInv'
  BY <1>24, AloneStep DEF Crash, AbandonMade, Running, At, Goto, stores, Adding,
      Removing, TypeOK, MixedInv, PlaceInv, InsertInv, DatabaseInv, AttachAlone
<1>25. ASSUME SetupEnds PROVE DatabaseInv'
  BY <1>25, AloneStep DEF SetupEnds, At, Goto, stores, Adding, Removing, TypeOK,
      MixedInv, PlaceInv, InsertInv, DatabaseInv, AttachAlone, Running
<1>26. ASSUME Resurrect PROVE DatabaseInv'
  BY <1>26, AloneStep DEF Resurrect, At, Goto, stores, Adding, Removing, TypeOK,
      MixedInv, PlaceInv, InsertInv, DatabaseInv, AttachAlone, Running
<1>27. ASSUME LateEnds PROVE DatabaseInv'
  BY <1>27, AloneStep DEF LateEnds, At, Goto, stores, Adding, Removing, TypeOK,
      MixedInv, PlaceInv, InsertInv, DatabaseInv, AttachAlone, Running
<1>28. ASSUME Settle PROVE DatabaseInv'
  BY <1>28, AloneStep DEF Settle, PeriodOver, At, Goto, stores, Adding, Removing,
      TypeOK, MixedInv, PlaceInv, InsertInv, DatabaseInv, AttachAlone, Running
<1>29. CASE UNCHANGED vars
  BY <1>29, AloneStep DEF vars, At, Goto, stores, Adding, Removing, TypeOK, MixedInv,
      PlaceInv, InsertInv, DatabaseInv, AttachAlone, Running
<1> QED BY <1>1, <1>2, <1>3, <1>4, <1>5, <1>6, <1>7, <1>8, <1>9, <1>10, <1>11, <1>12,
      <1>13, <1>14, <1>15, <1>16, <1>17, <1>18, <1>19, <1>20, <1>21, <1>22, <1>23,
      <1>24, <1>25, <1>26, <1>27, <1>28, <1>29 DEF Next, RequestStep, AddStep, RemoveStep

\* A registered tenant keeps its database.
LEMMA RegisteredStep ==
  ASSUME TypeOK, MixedInv, PlaceInv, InsertInv, DatabaseInv, RegisteredHasDatabase, [Next]_vars
  PROVE  RegisteredHasDatabase'
<1>1. ASSUME NEW r \in Request, Begin(r) PROVE RegisteredHasDatabase'
  BY <1>1, AloneStep DEF Begin, FirstStep, At, Goto, stores, Adding, Removing, TypeOK,
      RegisteredHasDatabase, InsertInv, DatabaseInv, PlaceInv
<1>2. ASSUME NEW r \in Request, CheckNotDeleting(r) PROVE RegisteredHasDatabase'
  BY <1>2, AloneStep DEF CheckNotDeleting, At, Goto, stores, Adding, Removing, TypeOK,
      RegisteredHasDatabase, InsertInv, DatabaseInv, PlaceInv
<1>3. ASSUME NEW r \in Request, CheckRegistered(r) PROVE RegisteredHasDatabase'
  BY <1>3, AloneStep DEF CheckRegistered, AfterCheck, At, Goto, stores, Adding,
      Removing, TypeOK, RegisteredHasDatabase, InsertInv, DatabaseInv, PlaceInv
<1>4. ASSUME NEW r \in Request, WriteMarker(r) PROVE RegisteredHasDatabase'
  BY <1>4, AloneStep DEF WriteMarker, At, Goto, stores, Adding, Removing, TypeOK,
      RegisteredHasDatabase, InsertInv, DatabaseInv, PlaceInv
<1>5. ASSUME NEW r \in Request, Make(r) PROVE RegisteredHasDatabase'
  BY <1>5, AloneStep DEF Make, Failed, IdFree, NoInsertOpen, At, Goto, stores, Adding,
      Removing, TypeOK, RegisteredHasDatabase, InsertInv, DatabaseInv, PlaceInv
<1>6. ASSUME NEW r \in Request, Register(r) PROVE RegisteredHasDatabase'
  BY <1>6, AloneStep DEF Register, Failed, LifeOfNew, Ours, At, Goto, stores, Adding,
      Removing, TypeOK, RegisteredHasDatabase, InsertInv, DatabaseInv, PlaceInv
<1>7. ASSUME NEW r \in Request, RegisterFails(r) PROVE RegisteredHasDatabase'
  BY <1>7, AloneStep DEF RegisterFails, Failed, AbandonMade, At, Goto, stores, Adding,
      Removing, TypeOK, RegisteredHasDatabase, InsertInv, DatabaseInv, PlaceInv
<1>8. ASSUME NEW r \in Request, CompareMarker(r) PROVE RegisteredHasDatabase'
  BY <1>8, AloneStep DEF CompareMarker, At, Goto, stores, Adding, Removing, TypeOK,
      RegisteredHasDatabase, InsertInv, DatabaseInv, PlaceInv
<1>9. ASSUME NEW r \in Request, TakeBackMarker(r) PROVE RegisteredHasDatabase'
  BY <1>9, AloneStep DEF TakeBackMarker, At, Goto, stores, Adding, Removing, TypeOK,
      RegisteredHasDatabase, InsertInv, DatabaseInv, PlaceInv
<1>10. ASSUME NEW r \in Request, ProbeChild(r) PROVE RegisteredHasDatabase'
  BY <1>10, AloneStep DEF ProbeChild, At, Goto, stores, Adding, Removing, TypeOK,
      RegisteredHasDatabase, InsertInv, DatabaseInv, PlaceInv
<1>11. ASSUME NEW r \in Request, RemoveStaleRow(r) PROVE RegisteredHasDatabase'
  BY <1>11, AloneStep DEF RemoveStaleRow, Stale, At, Goto, stores, Adding, Removing,
      TypeOK, RegisteredHasDatabase, InsertInv, DatabaseInv, PlaceInv
<1>12. ASSUME NEW r \in Request, CheckNotCreating(r) PROVE RegisteredHasDatabase'
  BY <1>12, AloneStep DEF CheckNotCreating, At, Goto, stores, Adding, Removing, TypeOK,
      RegisteredHasDatabase, InsertInv, DatabaseInv, PlaceInv
<1>13. ASSUME NEW r \in Request, CheckCapabilities(r) PROVE RegisteredHasDatabase'
  BY <1>13, AloneStep DEF CheckCapabilities, At, Goto, stores, Adding, Removing, TypeOK,
      RegisteredHasDatabase, InsertInv, DatabaseInv, PlaceInv
<1>14. ASSUME NEW r \in Request, MarkDeleting(r) PROVE RegisteredHasDatabase'
  BY <1>14, AloneStep DEF MarkDeleting, At, Goto, stores, Adding, Removing, TypeOK,
      RegisteredHasDatabase, InsertInv, DatabaseInv, PlaceInv
<1>15. ASSUME NEW r \in Request, Unlink(r) PROVE RegisteredHasDatabase'
  BY <1>15, AloneStep DEF Unlink, AfterUnlink, Ours, At, Goto, stores, Adding, Removing,
      TypeOK, RegisteredHasDatabase, InsertInv, DatabaseInv, PlaceInv
<1>16. ASSUME NEW r \in Request, UnlinkFails(r) PROVE RegisteredHasDatabase'
  BY <1>16, AloneStep DEF UnlinkFails, At, Goto, stores, Adding, Removing, TypeOK,
      RegisteredHasDatabase, InsertInv, DatabaseInv, PlaceInv
<1>17. ASSUME NEW r \in Request, DropDatabase(r) PROVE RegisteredHasDatabase'
  BY <1>17, AloneStep DEF DropDatabase, At, Goto, stores, Adding, Removing, TypeOK,
      RegisteredHasDatabase, InsertInv, DatabaseInv, PlaceInv
<1>18. ASSUME NEW r \in Request, ClearRetries(r) PROVE RegisteredHasDatabase'
  BY <1>18, AloneStep DEF ClearRetries, At, Goto, stores, Adding, Removing, TypeOK,
      RegisteredHasDatabase, InsertInv, DatabaseInv, PlaceInv
<1>19. ASSUME NEW r \in Request, EnsureDeleting(r) PROVE RegisteredHasDatabase'
  BY <1>19, AloneStep DEF EnsureDeleting, At, Goto, stores, Adding, Removing, TypeOK,
      RegisteredHasDatabase, InsertInv, DatabaseInv, PlaceInv
<1>20. ASSUME NEW r \in Request, ReadMarker(r) PROVE RegisteredHasDatabase'
  BY <1>20, AloneStep DEF ReadMarker, AfterMarker, At, Goto, stores, Adding, Removing,
      TypeOK, RegisteredHasDatabase, InsertInv, DatabaseInv, PlaceInv
<1>21. ASSUME NEW r \in Request, DropMarker(r) PROVE RegisteredHasDatabase'
  BY <1>21, AloneStep DEF DropMarker, AfterMarker, At, Goto, stores, Adding, Removing,
      TypeOK, RegisteredHasDatabase, InsertInv, DatabaseInv, PlaceInv
<1>22. ASSUME NEW r \in Request, Requeue(r) PROVE RegisteredHasDatabase'
  BY <1>22, AloneStep DEF Requeue, At, Goto, stores, Adding, Removing, TypeOK,
      RegisteredHasDatabase, InsertInv, DatabaseInv, PlaceInv
<1>23. ASSUME NEW r \in Request, Throw(r) PROVE RegisteredHasDatabase'
  BY <1>23, AloneStep DEF Throw, AfterThrow, AfterMarker, BestEffort, Running, At, Goto,
      stores, Adding, Removing, TypeOK, RegisteredHasDatabase, InsertInv, DatabaseInv,
      PlaceInv
<1>24. ASSUME NEW r \in Request, Crash(r) PROVE RegisteredHasDatabase'
  BY <1>24, AloneStep DEF Crash, AbandonMade, Running, At, Goto, stores, Adding,
      Removing, TypeOK, RegisteredHasDatabase, InsertInv, DatabaseInv, PlaceInv
<1>25. ASSUME SetupEnds PROVE RegisteredHasDatabase'
  BY <1>25, AloneStep DEF SetupEnds, At, Goto, stores, Adding, Removing, TypeOK,
      RegisteredHasDatabase, InsertInv, DatabaseInv, PlaceInv
<1>26. ASSUME Resurrect PROVE RegisteredHasDatabase'
  BY <1>26, AloneStep DEF Resurrect, At, Goto, stores, Adding, Removing, TypeOK,
      RegisteredHasDatabase, InsertInv, DatabaseInv, PlaceInv
<1>27. ASSUME LateEnds PROVE RegisteredHasDatabase'
  BY <1>27, AloneStep DEF LateEnds, At, Goto, stores, Adding, Removing, TypeOK,
      RegisteredHasDatabase, InsertInv, DatabaseInv, PlaceInv
<1>28. ASSUME Settle PROVE RegisteredHasDatabase'
  BY <1>28, AloneStep DEF Settle, PeriodOver, At, Goto, stores, Adding, Removing,
      TypeOK, RegisteredHasDatabase, InsertInv, DatabaseInv, PlaceInv
<1>29. CASE UNCHANGED vars
  BY <1>29, AloneStep DEF vars, At, Goto, stores, Adding, Removing, TypeOK,
      RegisteredHasDatabase, InsertInv, DatabaseInv, PlaceInv
<1> QED BY <1>1, <1>2, <1>3, <1>4, <1>5, <1>6, <1>7, <1>8, <1>9, <1>10, <1>11, <1>12,
      <1>13, <1>14, <1>15, <1>16, <1>17, <1>18, <1>19, <1>20, <1>21, <1>22, <1>23,
      <1>24, <1>25, <1>26, <1>27, <1>28, <1>29 DEF Next, RequestStep, AddStep, RemoveStep

\* The tombstone of a delete stands from its mark on.
LEMMA RecordStep ==
  ASSUME TypeOK, MixedInv, PlaceInv, InsertInv, DatabaseInv, RecordInv, ChildInv,
         RegisteredHasDatabase, [Next]_vars
  PROVE  RecordInv'
<1>1. ASSUME NEW r \in Request, Begin(r) PROVE RecordInv'
  BY <1>1, AloneStep DEF Begin, FirstStep, Operation, At, Goto, stores, Adding,
      Removing, TypeOK, RecordInv, PlaceInv
<1>2. ASSUME NEW r \in Request, CheckNotDeleting(r) PROVE RecordInv'
  BY <1>2, AloneStep DEF CheckNotDeleting, At, Goto, stores, Adding, Removing, TypeOK,
      RecordInv, PlaceInv
<1>3. ASSUME NEW r \in Request, CheckRegistered(r) PROVE RecordInv'
  BY <1>3, AloneStep DEF CheckRegistered, AfterCheck, At, Goto, stores, Adding,
      Removing, TypeOK, RecordInv, PlaceInv
<1>4. ASSUME NEW r \in Request, WriteMarker(r) PROVE RecordInv'
  BY <1>4, AloneStep DEF WriteMarker, At, Goto, stores, Adding, Removing, TypeOK,
      RecordInv, PlaceInv
<1>5. ASSUME NEW r \in Request, Make(r) PROVE RecordInv'
  BY <1>5, AloneStep DEF Make, Failed, IdFree, NoInsertOpen, At, Goto, stores, Adding,
      Removing, TypeOK, RecordInv, PlaceInv
<1>6. ASSUME NEW r \in Request, Register(r) PROVE RecordInv'
  BY <1>6, AloneStep DEF Register, Failed, LifeOfNew, InsertInv, Ours, At, Goto, stores,
      Adding, Removing, TypeOK, RecordInv, PlaceInv
<1>7. ASSUME NEW r \in Request, RegisterFails(r) PROVE RecordInv'
  BY <1>7, AloneStep DEF RegisterFails, Failed, AbandonMade, At, Goto, stores, Adding,
      Removing, TypeOK, RecordInv, PlaceInv
<1>8. ASSUME NEW r \in Request, CompareMarker(r) PROVE RecordInv'
  BY <1>8, AloneStep DEF CompareMarker, At, Goto, stores, Adding, Removing, TypeOK,
      RecordInv, PlaceInv
<1>9. ASSUME NEW r \in Request, TakeBackMarker(r) PROVE RecordInv'
  BY <1>9, AloneStep DEF TakeBackMarker, At, Goto, stores, Adding, Removing, TypeOK,
      RecordInv, PlaceInv
<1>10. ASSUME NEW r \in Request, ProbeChild(r) PROVE RecordInv'
  BY <1>10, AloneStep DEF ProbeChild, At, Goto, stores, Adding, Removing, TypeOK,
      RecordInv, PlaceInv
<1>11. ASSUME NEW r \in Request, RemoveStaleRow(r) PROVE RecordInv'
  BY <1>11, AloneStep DEF RemoveStaleRow, Stale, At, Goto, stores, Adding, Removing,
      TypeOK, RecordInv, PlaceInv
<1>12. ASSUME NEW r \in Request, CheckNotCreating(r) PROVE RecordInv'
  BY <1>12, AloneStep DEF CheckNotCreating, At, Goto, stores, Adding, Removing, TypeOK,
      RecordInv, PlaceInv
<1>13. ASSUME NEW r \in Request, CheckCapabilities(r) PROVE RecordInv'
  BY <1>13, AloneStep DEF CheckCapabilities, ChildInv, Ours, At, Goto, stores, Adding,
      Removing, TypeOK, RecordInv, PlaceInv
<1>14. ASSUME NEW r \in Request, MarkDeleting(r) PROVE RecordInv'
  BY <1>14, AloneStep DEF MarkDeleting, At, Goto, stores, Adding, Removing, TypeOK,
      RecordInv, PlaceInv
<1>15. ASSUME NEW r \in Request, Unlink(r) PROVE RecordInv'
  BY <1>15, AloneStep DEF Unlink, AfterUnlink, Ours, RegisteredHasDatabase, At, Goto,
      stores, Adding, Removing, TypeOK, RecordInv, PlaceInv
<1>16. ASSUME NEW r \in Request, UnlinkFails(r) PROVE RecordInv'
  BY <1>16, AloneStep DEF UnlinkFails, At, Goto, stores, Adding, Removing, TypeOK,
      RecordInv, PlaceInv
<1>17. ASSUME NEW r \in Request, DropDatabase(r) PROVE RecordInv'
  BY <1>17, AloneStep DEF DropDatabase, DatabaseInv, At, Goto, stores, Adding, Removing,
      TypeOK, RecordInv, PlaceInv
<1>18. ASSUME NEW r \in Request, ClearRetries(r) PROVE RecordInv'
  BY <1>18, AloneStep DEF ClearRetries, At, Goto, stores, Adding, Removing, TypeOK,
      RecordInv, PlaceInv
<1>19. ASSUME NEW r \in Request, EnsureDeleting(r) PROVE RecordInv'
  BY <1>19, AloneStep DEF EnsureDeleting, At, Goto, stores, Adding, Removing, TypeOK,
      RecordInv, PlaceInv
<1>20. ASSUME NEW r \in Request, ReadMarker(r) PROVE RecordInv'
  BY <1>20, AloneStep DEF ReadMarker, AfterMarker, At, Goto, stores, Adding, Removing,
      TypeOK, RecordInv, PlaceInv
<1>21. ASSUME NEW r \in Request, DropMarker(r) PROVE RecordInv'
  BY <1>21, AloneStep DEF DropMarker, AfterMarker, At, Goto, stores, Adding, Removing,
      TypeOK, RecordInv, PlaceInv
<1>22. ASSUME NEW r \in Request, Requeue(r) PROVE RecordInv'
  BY <1>22, AloneStep DEF Requeue, At, Goto, stores, Adding, Removing, TypeOK,
      RecordInv, PlaceInv
<1>23. ASSUME NEW r \in Request, Throw(r) PROVE RecordInv'
  BY <1>23, AloneStep DEF Throw, AfterThrow, AfterMarker, BestEffort, Running, At, Goto,
      stores, Adding, Removing, TypeOK, RecordInv, PlaceInv
<1>24. ASSUME NEW r \in Request, Crash(r) PROVE RecordInv'
  BY <1>24, AloneStep DEF Crash, AbandonMade, Running, At, Goto, stores, Adding,
      Removing, TypeOK, RecordInv, PlaceInv
<1>25. ASSUME SetupEnds PROVE RecordInv'
  BY <1>25, AloneStep DEF SetupEnds, At, Goto, stores, Adding, Removing, TypeOK,
      RecordInv, PlaceInv
<1>26. ASSUME Resurrect PROVE RecordInv'
  BY <1>26, AloneStep DEF Resurrect, At, Goto, stores, Adding, Removing, TypeOK,
      RecordInv, PlaceInv
<1>27. ASSUME LateEnds PROVE RecordInv'
  BY <1>27, AloneStep DEF LateEnds, At, Goto, stores, Adding, Removing, TypeOK,
      RecordInv, PlaceInv
<1>28. ASSUME Settle PROVE RecordInv'
  BY <1>28, AloneStep DEF Settle, PeriodOver, At, Goto, stores, Adding, Removing,
      TypeOK, RecordInv, PlaceInv
<1>29. CASE UNCHANGED vars
  BY <1>29, AloneStep DEF vars, At, Goto, stores, Adding, Removing, TypeOK, RecordInv,
      PlaceInv
<1> QED BY <1>1, <1>2, <1>3, <1>4, <1>5, <1>6, <1>7, <1>8, <1>9, <1>10, <1>11, <1>12,
      <1>13, <1>14, <1>15, <1>16, <1>17, <1>18, <1>19, <1>20, <1>21, <1>22, <1>23,
      <1>24, <1>25, <1>26, <1>27, <1>28, <1>29 DEF Next, RequestStep, AddStep, RemoveStep

\* Who creates the tenant alone finds no marker but its own.
LEMMA MarkerStep ==
  ASSUME TypeOK, MixedInv, PlaceInv, InsertInv, MarkerInv, MarkerOfOwner, [Next]_vars
  PROVE  MarkerInv'
<1>1. ASSUME NEW r \in Request, Begin(r) PROVE MarkerInv'
  BY <1>1 DEF Begin, FirstStep, Operation, At, Goto, stores, Adding, Removing, TypeOK,
      MarkerInv, MixedInv, PlaceInv, Running, Ours
<1>2. ASSUME NEW r \in Request, CheckNotDeleting(r) PROVE MarkerInv'
  BY <1>2 DEF CheckNotDeleting, At, Goto, stores, Adding, Removing, TypeOK, MarkerInv,
      MixedInv, PlaceInv, Running, Ours
<1>3. ASSUME NEW r \in Request, CheckRegistered(r) PROVE MarkerInv'
  BY <1>3 DEF CheckRegistered, AfterCheck, At, Goto, stores, Adding, Removing, TypeOK,
      MarkerInv, MixedInv, PlaceInv, Running, Ours
<1>4. ASSUME NEW r \in Request, WriteMarker(r) PROVE MarkerInv'
  BY <1>4 DEF WriteMarker, At, Goto, stores, Adding, Removing, TypeOK, MarkerInv,
      MixedInv, PlaceInv, Running, Ours
<1>5. ASSUME NEW r \in Request, Make(r) PROVE MarkerInv'
  BY <1>5 DEF Make, Failed, IdFree, NoInsertOpen, At, Goto, stores, Adding, Removing,
      TypeOK, MarkerInv, MixedInv, PlaceInv, Running, Ours
<1>6. ASSUME NEW r \in Request, Register(r) PROVE MarkerInv'
  BY <1>6 DEF Register, Failed, LifeOfNew, InsertInv, At, Goto, stores, Adding,
      Removing, TypeOK, MarkerInv, MixedInv, PlaceInv, Running, Ours
<1>7. ASSUME NEW r \in Request, RegisterFails(r) PROVE MarkerInv'
  BY <1>7 DEF RegisterFails, Failed, AbandonMade, At, Goto, stores, Adding, Removing,
      TypeOK, MarkerInv, MixedInv, PlaceInv, Running, Ours
<1>8. ASSUME NEW r \in Request, CompareMarker(r) PROVE MarkerInv'
  BY <1>8 DEF CompareMarker, At, Goto, stores, Adding, Removing, TypeOK, MarkerInv,
      MixedInv, PlaceInv, Running, Ours
<1>9. ASSUME NEW r \in Request, TakeBackMarker(r) PROVE MarkerInv'
  BY <1>9 DEF TakeBackMarker, At, Goto, stores, Adding, Removing, TypeOK, MarkerInv,
      MixedInv, PlaceInv, Running, Ours
<1>10. ASSUME NEW r \in Request, ProbeChild(r) PROVE MarkerInv'
  BY <1>10 DEF ProbeChild, At, Goto, stores, Adding, Removing, TypeOK, MarkerInv,
      MixedInv, PlaceInv, Running, Ours
<1>11. ASSUME NEW r \in Request, RemoveStaleRow(r) PROVE MarkerInv'
  BY <1>11 DEF RemoveStaleRow, Stale, At, Goto, stores, Adding, Removing, TypeOK,
      MarkerInv, MixedInv, PlaceInv, Running, Ours
<1>12. ASSUME NEW r \in Request, CheckNotCreating(r) PROVE MarkerInv'
  BY <1>12 DEF CheckNotCreating, At, Goto, stores, Adding, Removing, TypeOK, MarkerInv,
      MixedInv, PlaceInv, Running, Ours
<1>13. ASSUME NEW r \in Request, CheckCapabilities(r) PROVE MarkerInv'
  BY <1>13 DEF CheckCapabilities, At, Goto, stores, Adding, Removing, TypeOK, MarkerInv,
      MixedInv, PlaceInv, Running, Ours
<1>14. ASSUME NEW r \in Request, MarkDeleting(r) PROVE MarkerInv'
  BY <1>14 DEF MarkDeleting, At, Goto, stores, Adding, Removing, TypeOK, MarkerInv,
      MixedInv, PlaceInv, Running, Ours
<1>15. ASSUME NEW r \in Request, Unlink(r) PROVE MarkerInv'
  BY <1>15 DEF Unlink, AfterUnlink, At, Goto, stores, Adding, Removing, TypeOK,
      MarkerInv, MixedInv, PlaceInv, Running, Ours
<1>16. ASSUME NEW r \in Request, UnlinkFails(r) PROVE MarkerInv'
  BY <1>16 DEF UnlinkFails, At, Goto, stores, Adding, Removing, TypeOK, MarkerInv,
      MixedInv, PlaceInv, Running, Ours
<1>17. ASSUME NEW r \in Request, DropDatabase(r) PROVE MarkerInv'
  BY <1>17 DEF DropDatabase, At, Goto, stores, Adding, Removing, TypeOK, MarkerInv,
      MixedInv, PlaceInv, Running, Ours
<1>18. ASSUME NEW r \in Request, ClearRetries(r) PROVE MarkerInv'
  BY <1>18 DEF ClearRetries, At, Goto, stores, Adding, Removing, TypeOK, MarkerInv,
      MixedInv, PlaceInv, Running, Ours
<1>19. ASSUME NEW r \in Request, EnsureDeleting(r) PROVE MarkerInv'
  BY <1>19 DEF EnsureDeleting, At, Goto, stores, Adding, Removing, TypeOK, MarkerInv,
      MixedInv, PlaceInv, Running, Ours
<1>20. ASSUME NEW r \in Request, ReadMarker(r) PROVE MarkerInv'
  BY <1>20 DEF ReadMarker, AfterMarker, At, Goto, stores, Adding, Removing, TypeOK,
      MarkerInv, MixedInv, PlaceInv, Running, Ours
<1>21. ASSUME NEW r \in Request, DropMarker(r) PROVE MarkerInv'
  BY <1>21 DEF DropMarker, AfterMarker, At, Goto, stores, Adding, Removing, TypeOK,
      MarkerInv, MixedInv, PlaceInv, Running, Ours
<1>22. ASSUME NEW r \in Request, Requeue(r) PROVE MarkerInv'
  BY <1>22 DEF Requeue, At, Goto, stores, Adding, Removing, TypeOK, MarkerInv, MixedInv,
      PlaceInv, Running, Ours
<1>23. ASSUME NEW r \in Request, Throw(r) PROVE MarkerInv'
  BY <1>23 DEF Throw, AfterThrow, AfterMarker, BestEffort, Running, At, Goto, stores,
      Adding, Removing, TypeOK, MarkerInv, MixedInv, PlaceInv, Ours
<1>24. ASSUME NEW r \in Request, Crash(r) PROVE MarkerInv'
  BY <1>24 DEF Crash, AbandonMade, Running, At, Goto, stores, Adding, Removing, TypeOK,
      MarkerInv, MixedInv, PlaceInv, Ours
<1>25. ASSUME SetupEnds PROVE MarkerInv'
  BY <1>25 DEF SetupEnds, At, Goto, stores, Adding, Removing, TypeOK, MarkerInv,
      MixedInv, PlaceInv, Running, Ours
<1>26. ASSUME Resurrect PROVE MarkerInv'
  BY <1>26 DEF Resurrect, At, Goto, stores, Adding, Removing, TypeOK, MarkerInv,
      MixedInv, PlaceInv, Running, Ours
<1>27. ASSUME LateEnds PROVE MarkerInv'
  BY <1>27 DEF LateEnds, At, Goto, stores, Adding, Removing, TypeOK, MarkerInv,
      MixedInv, PlaceInv, Running, Ours
<1>28. ASSUME Settle PROVE MarkerInv'
  BY <1>28 DEF Settle, At, Goto, stores, Adding, Removing, TypeOK, MarkerInv, MixedInv,
      PlaceInv, Running, Ours
<1>29. CASE UNCHANGED vars
  BY <1>29 DEF vars, At, Goto, stores, Adding, Removing, TypeOK, MarkerInv, MixedInv,
      PlaceInv, Running, Ours
<1> QED BY <1>1, <1>2, <1>3, <1>4, <1>5, <1>6, <1>7, <1>8, <1>9, <1>10, <1>11, <1>12,
      <1>13, <1>14, <1>15, <1>16, <1>17, <1>18, <1>19, <1>20, <1>21, <1>22, <1>23,
      <1>24, <1>25, <1>26, <1>27, <1>28, <1>29 DEF Next, RequestStep, AddStep, RemoveStep

\* Who registered the tenant alone finds no marker but its own.
LEMMA OwnerStep ==
  ASSUME TypeOK, MixedInv, PlaceInv, InsertInv, MarkerInv, MarkerOfOwner, [Next]_vars
  PROVE  MarkerOfOwner'
<1>1. ASSUME NEW r \in Request, Begin(r) PROVE MarkerOfOwner'
  BY <1>1 DEF Begin, FirstStep, Operation, InsertInv, At, Goto, stores, Adding,
      Removing, TypeOK, MarkerOfOwner, MixedInv, Running, Ours
<1>2. ASSUME NEW r \in Request, CheckNotDeleting(r) PROVE MarkerOfOwner'
  BY <1>2 DEF CheckNotDeleting, At, Goto, stores, Adding, Removing, TypeOK,
      MarkerOfOwner, MixedInv, Running, Ours
<1>3. ASSUME NEW r \in Request, CheckRegistered(r) PROVE MarkerOfOwner'
  BY <1>3 DEF CheckRegistered, AfterCheck, At, Goto, stores, Adding, Removing, TypeOK,
      MarkerOfOwner, MixedInv, Running, Ours
<1>4. ASSUME NEW r \in Request, WriteMarker(r) PROVE MarkerOfOwner'
  BY <1>4 DEF WriteMarker, MarkerInv, At, Goto, stores, Adding, Removing, TypeOK,
      MarkerOfOwner, MixedInv, Running, Ours
<1>5. ASSUME NEW r \in Request, Make(r) PROVE MarkerOfOwner'
  BY <1>5 DEF Make, Failed, IdFree, NoInsertOpen, At, Goto, stores, Adding, Removing,
      TypeOK, MarkerOfOwner, MixedInv, Running, Ours
<1>6. ASSUME NEW r \in Request, Register(r) PROVE MarkerOfOwner'
  BY <1>6 DEF Register, Failed, LifeOfNew, InsertInv, MarkerInv, At, Goto, stores,
      Adding, Removing, TypeOK, MarkerOfOwner, MixedInv, Running, Ours
<1>7. ASSUME NEW r \in Request, RegisterFails(r) PROVE MarkerOfOwner'
  BY <1>7 DEF RegisterFails, Failed, AbandonMade, At, Goto, stores, Adding, Removing,
      TypeOK, MarkerOfOwner, MixedInv, Running, Ours
<1>8. ASSUME NEW r \in Request, CompareMarker(r) PROVE MarkerOfOwner'
  BY <1>8 DEF CompareMarker, At, Goto, stores, Adding, Removing, TypeOK, MarkerOfOwner,
      MixedInv, Running, Ours
<1>9. ASSUME NEW r \in Request, TakeBackMarker(r) PROVE MarkerOfOwner'
  BY <1>9 DEF TakeBackMarker, At, Goto, stores, Adding, Removing, TypeOK, MarkerOfOwner,
      MixedInv, Running, Ours
<1>10. ASSUME NEW r \in Request, ProbeChild(r) PROVE MarkerOfOwner'
  BY <1>10 DEF ProbeChild, At, Goto, stores, Adding, Removing, TypeOK, MarkerOfOwner,
      MixedInv, Running, Ours
<1>11. ASSUME NEW r \in Request, RemoveStaleRow(r) PROVE MarkerOfOwner'
  BY <1>11 DEF RemoveStaleRow, Stale, At, Goto, stores, Adding, Removing, TypeOK,
      MarkerOfOwner, MixedInv, Running, Ours
<1>12. ASSUME NEW r \in Request, CheckNotCreating(r) PROVE MarkerOfOwner'
  BY <1>12 DEF CheckNotCreating, At, Goto, stores, Adding, Removing, TypeOK,
      MarkerOfOwner, MixedInv, Running, Ours
<1>13. ASSUME NEW r \in Request, CheckCapabilities(r) PROVE MarkerOfOwner'
  BY <1>13 DEF CheckCapabilities, At, Goto, stores, Adding, Removing, TypeOK,
      MarkerOfOwner, MixedInv, Running, Ours
<1>14. ASSUME NEW r \in Request, MarkDeleting(r) PROVE MarkerOfOwner'
  BY <1>14 DEF MarkDeleting, At, Goto, stores, Adding, Removing, TypeOK, MarkerOfOwner,
      MixedInv, Running, Ours
<1>15. ASSUME NEW r \in Request, Unlink(r) PROVE MarkerOfOwner'
  BY <1>15 DEF Unlink, AfterUnlink, At, Goto, stores, Adding, Removing, TypeOK,
      MarkerOfOwner, MixedInv, Running, Ours
<1>16. ASSUME NEW r \in Request, UnlinkFails(r) PROVE MarkerOfOwner'
  BY <1>16 DEF UnlinkFails, At, Goto, stores, Adding, Removing, TypeOK, MarkerOfOwner,
      MixedInv, Running, Ours
<1>17. ASSUME NEW r \in Request, DropDatabase(r) PROVE MarkerOfOwner'
  BY <1>17 DEF DropDatabase, At, Goto, stores, Adding, Removing, TypeOK, MarkerOfOwner,
      MixedInv, Running, Ours
<1>18. ASSUME NEW r \in Request, ClearRetries(r) PROVE MarkerOfOwner'
  BY <1>18 DEF ClearRetries, At, Goto, stores, Adding, Removing, TypeOK, MarkerOfOwner,
      MixedInv, Running, Ours
<1>19. ASSUME NEW r \in Request, EnsureDeleting(r) PROVE MarkerOfOwner'
  BY <1>19 DEF EnsureDeleting, At, Goto, stores, Adding, Removing, TypeOK,
      MarkerOfOwner, MixedInv, Running, Ours
<1>20. ASSUME NEW r \in Request, ReadMarker(r) PROVE MarkerOfOwner'
  BY <1>20 DEF ReadMarker, AfterMarker, At, Goto, stores, Adding, Removing, TypeOK,
      MarkerOfOwner, MixedInv, Running, Ours
<1>21. ASSUME NEW r \in Request, DropMarker(r) PROVE MarkerOfOwner'
  BY <1>21 DEF DropMarker, AfterMarker, At, Goto, stores, Adding, Removing, TypeOK,
      MarkerOfOwner, MixedInv, Running, Ours
<1>22. ASSUME NEW r \in Request, Requeue(r) PROVE MarkerOfOwner'
  BY <1>22 DEF Requeue, At, Goto, stores, Adding, Removing, TypeOK, MarkerOfOwner,
      MixedInv, Running, Ours
<1>23. ASSUME NEW r \in Request, Throw(r) PROVE MarkerOfOwner'
  BY <1>23 DEF Throw, AfterThrow, AfterMarker, BestEffort, Running, At, Goto, stores,
      Adding, Removing, TypeOK, MarkerOfOwner, MixedInv, Ours
<1>24. ASSUME NEW r \in Request, Crash(r) PROVE MarkerOfOwner'
  BY <1>24 DEF Crash, AbandonMade, Running, At, Goto, stores, Adding, Removing, TypeOK,
      MarkerOfOwner, MixedInv, Ours
<1>25. ASSUME SetupEnds PROVE MarkerOfOwner'
  BY <1>25 DEF SetupEnds, At, Goto, stores, Adding, Removing, TypeOK, MarkerOfOwner,
      MixedInv, Running, Ours
<1>26. ASSUME Resurrect PROVE MarkerOfOwner'
  BY <1>26 DEF Resurrect, At, Goto, stores, Adding, Removing, TypeOK, MarkerOfOwner,
      MixedInv, Running, Ours
<1>27. ASSUME LateEnds PROVE MarkerOfOwner'
  BY <1>27 DEF LateEnds, At, Goto, stores, Adding, Removing, TypeOK, MarkerOfOwner,
      MixedInv, Running, Ours
<1>28. ASSUME Settle PROVE MarkerOfOwner'
  BY <1>28 DEF Settle, At, Goto, stores, Adding, Removing, TypeOK, MarkerOfOwner,
      MixedInv, Running, Ours
<1>29. CASE UNCHANGED vars
  BY <1>29 DEF vars, At, Goto, stores, Adding, Removing, TypeOK, MarkerOfOwner,
      MixedInv, Running, Ours
<1> QED BY <1>1, <1>2, <1>3, <1>4, <1>5, <1>6, <1>7, <1>8, <1>9, <1>10, <1>11, <1>12,
      <1>13, <1>14, <1>15, <1>16, <1>17, <1>18, <1>19, <1>20, <1>21, <1>22, <1>23,
      <1>24, <1>25, <1>26, <1>27, <1>28, <1>29 DEF Next, RequestStep, AddStep, RemoveStep

\* A database whose tenant is gone stands under a tombstone.
LEMMA LeftoverStep ==
  ASSUME TypeOK, MixedInv, PlaceInv, InsertInv, DatabaseInv, RecordInv,
         LeftoverIsTombstoned, [Next]_vars
  PROVE  LeftoverIsTombstoned'
<1>1. ASSUME NEW r \in Request, Begin(r) PROVE LeftoverIsTombstoned'
  BY <1>1, AloneStep DEF Begin, FirstStep, At, Goto, stores, Adding, Removing, TypeOK,
      LeftoverIsTombstoned, PlaceInv, Leftover
<1>2. ASSUME NEW r \in Request, CheckNotDeleting(r) PROVE LeftoverIsTombstoned'
  BY <1>2, AloneStep DEF CheckNotDeleting, At, Goto, stores, Adding, Removing, TypeOK,
      LeftoverIsTombstoned, PlaceInv, Leftover
<1>3. ASSUME NEW r \in Request, CheckRegistered(r) PROVE LeftoverIsTombstoned'
  BY <1>3, AloneStep DEF CheckRegistered, AfterCheck, At, Goto, stores, Adding,
      Removing, TypeOK, LeftoverIsTombstoned, PlaceInv, Leftover
<1>4. ASSUME NEW r \in Request, WriteMarker(r) PROVE LeftoverIsTombstoned'
  BY <1>4, AloneStep DEF WriteMarker, At, Goto, stores, Adding, Removing, TypeOK,
      LeftoverIsTombstoned, PlaceInv, Leftover
<1>5. ASSUME NEW r \in Request, Make(r) PROVE LeftoverIsTombstoned'
  BY <1>5, AloneStep DEF Make, Failed, IdFree, NoInsertOpen, At, Goto, stores, Adding,
      Removing, TypeOK, LeftoverIsTombstoned, PlaceInv, Leftover
<1>6. ASSUME NEW r \in Request, Register(r) PROVE LeftoverIsTombstoned'
  BY <1>6, AloneStep DEF Register, Failed, LifeOfNew, InsertInv, Ours, At, Goto, stores,
      Adding, Removing, TypeOK, LeftoverIsTombstoned, PlaceInv, Leftover
<1>7. ASSUME NEW r \in Request, RegisterFails(r) PROVE LeftoverIsTombstoned'
  BY <1>7, AloneStep DEF RegisterFails, Failed, AbandonMade, DatabaseInv, At, Goto,
      stores, Adding, Removing, TypeOK, LeftoverIsTombstoned, PlaceInv, Leftover
<1>8. ASSUME NEW r \in Request, CompareMarker(r) PROVE LeftoverIsTombstoned'
  BY <1>8, AloneStep DEF CompareMarker, At, Goto, stores, Adding, Removing, TypeOK,
      LeftoverIsTombstoned, PlaceInv, Leftover
<1>9. ASSUME NEW r \in Request, TakeBackMarker(r) PROVE LeftoverIsTombstoned'
  BY <1>9, AloneStep DEF TakeBackMarker, At, Goto, stores, Adding, Removing, TypeOK,
      LeftoverIsTombstoned, PlaceInv, Leftover
<1>10. ASSUME NEW r \in Request, ProbeChild(r) PROVE LeftoverIsTombstoned'
  BY <1>10, AloneStep DEF ProbeChild, At, Goto, stores, Adding, Removing, TypeOK,
      LeftoverIsTombstoned, PlaceInv, Leftover
<1>11. ASSUME NEW r \in Request, RemoveStaleRow(r) PROVE LeftoverIsTombstoned'
  BY <1>11, AloneStep DEF RemoveStaleRow, Stale, At, Goto, stores, Adding, Removing,
      TypeOK, LeftoverIsTombstoned, PlaceInv, Leftover
<1>12. ASSUME NEW r \in Request, CheckNotCreating(r) PROVE LeftoverIsTombstoned'
  BY <1>12, AloneStep DEF CheckNotCreating, At, Goto, stores, Adding, Removing, TypeOK,
      LeftoverIsTombstoned, PlaceInv, Leftover
<1>13. ASSUME NEW r \in Request, CheckCapabilities(r) PROVE LeftoverIsTombstoned'
  BY <1>13, AloneStep DEF CheckCapabilities, At, Goto, stores, Adding, Removing, TypeOK,
      LeftoverIsTombstoned, PlaceInv, Leftover
<1>14. ASSUME NEW r \in Request, MarkDeleting(r) PROVE LeftoverIsTombstoned'
  BY <1>14, AloneStep DEF MarkDeleting, At, Goto, stores, Adding, Removing, TypeOK,
      LeftoverIsTombstoned, PlaceInv, Leftover
<1>15. ASSUME NEW r \in Request, Unlink(r) PROVE LeftoverIsTombstoned'
  BY <1>15, AloneStep DEF Unlink, AfterUnlink, Ours, RecordInv, At, Goto, stores,
      Adding, Removing, TypeOK, LeftoverIsTombstoned, PlaceInv, Leftover
<1>16. ASSUME NEW r \in Request, UnlinkFails(r) PROVE LeftoverIsTombstoned'
  BY <1>16, AloneStep DEF UnlinkFails, At, Goto, stores, Adding, Removing, TypeOK,
      LeftoverIsTombstoned, PlaceInv, Leftover
<1>17. ASSUME NEW r \in Request, DropDatabase(r) PROVE LeftoverIsTombstoned'
  BY <1>17, AloneStep DEF DropDatabase, At, Goto, stores, Adding, Removing, TypeOK,
      LeftoverIsTombstoned, PlaceInv, Leftover
<1>18. ASSUME NEW r \in Request, ClearRetries(r) PROVE LeftoverIsTombstoned'
  BY <1>18, AloneStep DEF ClearRetries, At, Goto, stores, Adding, Removing, TypeOK,
      LeftoverIsTombstoned, PlaceInv, Leftover
<1>19. ASSUME NEW r \in Request, EnsureDeleting(r) PROVE LeftoverIsTombstoned'
  BY <1>19, AloneStep DEF EnsureDeleting, At, Goto, stores, Adding, Removing, TypeOK,
      LeftoverIsTombstoned, PlaceInv, Leftover
<1>20. ASSUME NEW r \in Request, ReadMarker(r) PROVE LeftoverIsTombstoned'
  BY <1>20, AloneStep DEF ReadMarker, AfterMarker, At, Goto, stores, Adding, Removing,
      TypeOK, LeftoverIsTombstoned, PlaceInv, Leftover
<1>21. ASSUME NEW r \in Request, DropMarker(r) PROVE LeftoverIsTombstoned'
  BY <1>21, AloneStep DEF DropMarker, AfterMarker, At, Goto, stores, Adding, Removing,
      TypeOK, LeftoverIsTombstoned, PlaceInv, Leftover
<1>22. ASSUME NEW r \in Request, Requeue(r) PROVE LeftoverIsTombstoned'
  BY <1>22, AloneStep DEF Requeue, At, Goto, stores, Adding, Removing, TypeOK,
      LeftoverIsTombstoned, PlaceInv, Leftover
<1>23. ASSUME NEW r \in Request, Throw(r) PROVE LeftoverIsTombstoned'
  BY <1>23, AloneStep DEF Throw, AfterThrow, AfterMarker, BestEffort, Running, At, Goto,
      stores, Adding, Removing, TypeOK, LeftoverIsTombstoned, PlaceInv, Leftover
<1>24. ASSUME NEW r \in Request, Crash(r) PROVE LeftoverIsTombstoned'
  BY <1>24, AloneStep DEF Crash, AbandonMade, Running, DatabaseInv, At, Goto, stores,
      Adding, Removing, TypeOK, LeftoverIsTombstoned, PlaceInv, Leftover
<1>25. ASSUME SetupEnds PROVE LeftoverIsTombstoned'
  BY <1>25, AloneStep DEF SetupEnds, At, Goto, stores, Adding, Removing, TypeOK,
      LeftoverIsTombstoned, PlaceInv, Leftover
<1>26. ASSUME Resurrect PROVE LeftoverIsTombstoned'
  BY <1>26, AloneStep DEF Resurrect, RecordInv, At, Goto, stores, Adding, Removing,
      TypeOK, LeftoverIsTombstoned, PlaceInv, Leftover
<1>27. ASSUME LateEnds PROVE LeftoverIsTombstoned'
  BY <1>27, AloneStep DEF LateEnds, At, Goto, stores, Adding, Removing, TypeOK,
      LeftoverIsTombstoned, PlaceInv, Leftover
<1>28. ASSUME Settle PROVE LeftoverIsTombstoned'
  BY <1>28, AloneStep DEF Settle, PeriodOver, At, Goto, stores, Adding, Removing,
      TypeOK, LeftoverIsTombstoned, PlaceInv, Leftover
<1>29. CASE UNCHANGED vars
  BY <1>29, AloneStep DEF vars, At, Goto, stores, Adding, Removing, TypeOK,
      LeftoverIsTombstoned, PlaceInv, Leftover
<1> QED BY <1>1, <1>2, <1>3, <1>4, <1>5, <1>6, <1>7, <1>8, <1>9, <1>10, <1>11, <1>12,
      <1>13, <1>14, <1>15, <1>16, <1>17, <1>18, <1>19, <1>20, <1>21, <1>22, <1>23,
      <1>24, <1>25, <1>26, <1>27, <1>28, <1>29 DEF Next, RequestStep, AddStep, RemoveStep

-----------------------------------------------------------------------------
\* The inductive invariant holds before any request.
LEMMA InitInv == Init => IInv
<1> SUFFICES ASSUME Init PROVE IInv
  OBVIOUS
<1> USE DEF Init, At
<1>1. TypeOK
  BY DEF TypeOK, PC, Operation, Adding, Removing, Ours, Lifecycle, Database, Leftover
<1>2. MixedInv /\ PlaceInv /\ InsertInv /\ DatabaseInv /\ ChildInv
  BY DEF MixedInv, PlaceInv, InsertInv, DatabaseInv, ChildInv, Running
<1>3. RecordInv /\ LeftoverIsTombstoned
  BY DEF RecordInv, LeftoverIsTombstoned, Lifecycle, Leftover
<1>4. MarkerInv /\ OtherInv /\ MarkerOfOwner
  BY DEF MarkerInv, OtherInv, MarkerOfOwner, Ours
<1>5. RegisteredHasDatabase
  BY DEF RegisteredHasDatabase
<1> QED BY <1>1, <1>2, <1>3, <1>4, <1>5 DEF IInv

\* Every step keeps it.
LEMMA NextInv == IInv /\ [Next]_vars => IInv'
BY TypeStep, PlaceStep, MixedStep, InsertStep, ChildStep, OtherStep, DatabaseStep,
   RegisteredStep, RecordStep, MarkerStep, OwnerStep, LeftoverStep DEF IInv

\* The requests and the services around them keep the inductive invariant.
THEOREM InductiveInvariant == Spec => []IInv
BY InitInv, NextInv, PTL DEF Spec

\* The stores hold what the model says they may hold.
THEOREM TypesHold == Spec => []TypeOK
<1>1. IInv => TypeOK
  BY DEF IInv
<1> QED BY <1>1, InductiveInvariant, PTL

\* Any number of creates, detaches, deletes and crashes leave a registered tenant
\* its database, unless an attach ran at the same time as another request.
THEOREM RegisteredHasDatabaseHolds == Spec => []RegisteredHasDatabase
<1>1. IInv => RegisteredHasDatabase
  BY DEF IInv
<1> QED BY <1>1, InductiveInvariant, PTL

\* A tenant that was registered alone has the marker of its creator or none.
THEOREM MarkerOfOwnerHolds == Spec => []MarkerOfOwner
<1>1. IInv => MarkerOfOwner
  BY DEF IInv
<1> QED BY <1>1, InductiveInvariant, PTL

\* Wherever a delete stops, a database whose tenant is gone stands under its
\* tombstone.
THEOREM LeftoverIsTombstonedHolds == Spec => []LeftoverIsTombstoned
<1>1. IInv => LeftoverIsTombstoned
  BY DEF IInv
<1> QED BY <1>1, InductiveInvariant, PTL

\* No request takes the registration, the database or the marker of a tenant that
\* has the id under another parent, nor changes its lifecycle record or its retry
\* rows, but for ReRunSetup, which starts its setup again.
THEOREM OtherTenantUntouchedHolds == Spec => OtherTenantUntouched
<1> DEFINE otherTenant == <<reg, db, marker, life, retries>>
<1>1. IInv /\ [Next]_vars =>
       [reg = Other =>
          /\ UNCHANGED <<reg, db, marker>>
          /\ \/ UNCHANGED <<life, retries>>
             \/ SetupEnds
             \/ \E r \in Request : Requeue(r)]_vars
  <2> SUFFICES ASSUME IInv, [Next]_vars, reg = Other
               PROVE  /\ UNCHANGED <<reg, db, marker>>
                      /\ \/ UNCHANGED <<life, retries>>
                         \/ SetupEnds
                         \/ \E r \in Request : Requeue(r)
    OBVIOUS
  <2> USE DEF IInv, OtherInv, TypeOK, PlaceInv, At, Goto, stores, Ours, Adding, Removing
  <2>1. ASSUME NEW r \in Request, Begin(r) PROVE UNCHANGED otherTenant
    BY <2>1 DEF Begin, FirstStep
  <2>2. ASSUME NEW r \in Request, CheckNotDeleting(r) PROVE UNCHANGED otherTenant
    BY <2>2 DEF CheckNotDeleting
  <2>3. ASSUME NEW r \in Request, CheckRegistered(r) PROVE UNCHANGED otherTenant
    BY <2>3 DEF CheckRegistered, AfterCheck
  <2>4. ASSUME NEW r \in Request, WriteMarker(r) PROVE UNCHANGED otherTenant
    BY <2>4 DEF WriteMarker
  <2>5. ASSUME NEW r \in Request, Make(r) PROVE UNCHANGED otherTenant
    BY <2>5 DEF Make, Failed, IdFree, NoInsertOpen
  <2>6. ASSUME NEW r \in Request, Register(r) PROVE UNCHANGED otherTenant
    BY <2>6 DEF Register, Failed, LifeOfNew
  <2>7. ASSUME NEW r \in Request, RegisterFails(r) PROVE UNCHANGED otherTenant
    BY <2>7 DEF RegisterFails, Failed, AbandonMade
  <2>8. ASSUME NEW r \in Request, CompareMarker(r) PROVE UNCHANGED otherTenant
    BY <2>8 DEF CompareMarker
  <2>9. ASSUME NEW r \in Request, TakeBackMarker(r) PROVE UNCHANGED otherTenant
    BY <2>9 DEF TakeBackMarker
  <2>10. ASSUME NEW r \in Request, ProbeChild(r) PROVE UNCHANGED otherTenant
    BY <2>10 DEF ProbeChild
  <2>11. ASSUME NEW r \in Request, RemoveStaleRow(r) PROVE UNCHANGED otherTenant
    BY <2>11 DEF RemoveStaleRow, Stale
  <2>12. ASSUME NEW r \in Request, CheckNotCreating(r) PROVE UNCHANGED otherTenant
    BY <2>12 DEF CheckNotCreating
  <2>13. ASSUME NEW r \in Request, CheckCapabilities(r) PROVE UNCHANGED otherTenant
    BY <2>13 DEF CheckCapabilities
  <2>14. ASSUME NEW r \in Request, MarkDeleting(r) PROVE UNCHANGED otherTenant
    BY <2>14 DEF MarkDeleting
  <2>15. ASSUME NEW r \in Request, Unlink(r) PROVE UNCHANGED otherTenant
    BY <2>15 DEF Unlink, AfterUnlink
  <2>16. ASSUME NEW r \in Request, UnlinkFails(r) PROVE UNCHANGED otherTenant
    BY <2>16 DEF UnlinkFails
  <2>17. ASSUME NEW r \in Request, DropDatabase(r) PROVE UNCHANGED otherTenant
    BY <2>17 DEF DropDatabase
  <2>18. ASSUME NEW r \in Request, ClearRetries(r) PROVE UNCHANGED otherTenant
    BY <2>18 DEF ClearRetries
  <2>19. ASSUME NEW r \in Request, EnsureDeleting(r) PROVE UNCHANGED otherTenant
    BY <2>19 DEF EnsureDeleting
  <2>20. ASSUME NEW r \in Request, ReadMarker(r) PROVE UNCHANGED otherTenant
    BY <2>20 DEF ReadMarker, AfterMarker
  <2>21. ASSUME NEW r \in Request, DropMarker(r) PROVE UNCHANGED otherTenant
    BY <2>21 DEF DropMarker, AfterMarker
  <2>22. ASSUME NEW r \in Request, Requeue(r) PROVE UNCHANGED <<reg, db, marker>>
    BY <2>22 DEF Requeue
  <2>23. ASSUME NEW r \in Request, Throw(r) PROVE UNCHANGED otherTenant
    BY <2>23 DEF Throw, AfterThrow, AfterMarker, BestEffort, Running
  <2>24. ASSUME NEW r \in Request, Crash(r) PROVE UNCHANGED otherTenant
    BY <2>24 DEF Crash, AbandonMade, Running
  <2>25. ASSUME SetupEnds PROVE UNCHANGED <<reg, db, marker>>
    BY <2>25 DEF SetupEnds
  <2>26. ASSUME Resurrect PROVE UNCHANGED otherTenant
    BY <2>26 DEF Resurrect
  <2>27. ASSUME LateEnds PROVE UNCHANGED otherTenant
    BY <2>27 DEF LateEnds
  <2>28. ASSUME Settle PROVE UNCHANGED otherTenant
    BY <2>28 DEF Settle
  <2>29. CASE UNCHANGED vars
    BY <2>29 DEF vars
  <2> QED BY ONLY [Next]_vars, <2>1, <2>2, <2>3, <2>4, <2>5, <2>6, <2>7, <2>8, <2>9, <2>10,
        <2>11, <2>12, <2>13, <2>14, <2>15, <2>16, <2>17, <2>18, <2>19, <2>20, <2>21, <2>22,
        <2>23, <2>24, <2>25, <2>26, <2>27, <2>28, <2>29 DEF Next, RequestStep, AddStep, RemoveStep
<1> QED BY <1>1, InductiveInvariant, PTL DEF Spec, OtherTenantUntouched

=============================================================================
