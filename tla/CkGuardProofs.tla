---------------------------- MODULE CkGuardProofs --------------------------
(***************************************************************************)
(* Theorems about CkGuard: what the upgrade guard promises holds for every *)
(* catalog and tenant, and for every list of models that is sent to be     *)
(* imported.                                                               *)
(***************************************************************************)
EXTENDS CkGuard, SequenceTheorems, TLAPS

\* The requirements to be kept are admitted by what is installed, and by every
\* model that the job has yet to import.
Promised(d) ==
  /\ installed[d.name] # 0
  /\ Admits(d, installed[d.name])
  /\ \A i \in DOMAIN job : job[i].name = d.name => Admits(d, job[i].version)

IInv ==
  /\ TypeOK
  /\ pc = "running" => job # <<>>
  /\ pc = "offered" => kept = {}
  /\ calm => \A d \in kept : Promised(d)

\* Required is about the dependencies of a model there is: they are dependencies.
LEMMA RequiredType ==
  ASSUME catalog \in Catalogs, NEW m
  PROVE  Required(m) \subseteq Dependency
<1>1. CASE m \in DOMAIN catalog
  <2>1. catalog[m] \in Seq(Dependency)
    BY <1>1, CatalogsAssumption
  <2>2. ToSet(catalog[m]) \subseteq Dependency
    BY <2>1 DEF ToSet
  <2> QED BY <1>1, <2>2 DEF Required, Dependencies
<1>2. CASE m \notin DOMAIN catalog
  <2>1. ToSet(Dependencies(m)) = {}
    BY <1>2 DEF Dependencies, ToSet
  <2> QED BY <2>1 DEF Required
<1> QED BY <1>1, <1>2

\* A list of models names models, and so does its tail.
LEMMA TailModels ==
  ASSUME NEW s \in Seq(Model), s # <<>>
  PROVE  /\ Head(s) \in Model
         /\ Head(s) = s[1] /\ 1 \in DOMAIN s
         /\ Tail(s) \in Seq(Model)
         /\ \A i \in DOMAIN Tail(s) : i + 1 \in DOMAIN s /\ Tail(s)[i] = s[i + 1]
<1>1. Len(s) \in Nat /\ Len(s) # 0 /\ DOMAIN s = 1 .. Len(s)
  BY EmptySeq
<1>2. Len(Tail(s)) = Len(s) - 1 /\ DOMAIN Tail(s) = 1 .. Len(Tail(s))
  BY <1>1
<1> QED BY <1>1, <1>2

\* The models of a set that nothing blocks: each is admitted by every
\* requirement that the tenant satisfies.
LEMMA NothingBlocked ==
  ASSUME TypeOK, NEW set \in SUBSET Model, Blockers(set) = {},
         NEW d \in Satisfied(set), NEW m \in set, m.name = d.name
  PROVE  Admits(d, m.version)
<1>1. PICK n \in Dependents(set) : d \in Required(n) /\ d.name # n.name
  BY DEF Satisfied
<1>2. d.name \in NamesOf(set)
  BY DEF NamesOf
<1>3. m.name \notin Managed /\ installed[m.name] # 0 /\ Admits(d, installed[m.name])
  BY <1>2 DEF Satisfied
<1>4. CASE installed[m.name] = m.version
  BY <1>3, <1>4
<1>5. CASE installed[m.name] # m.version
  <2>1. IsReplacement(m)
    BY <1>3, <1>5 DEF IsReplacement
  <2>2. <<n, m>> \in Dependents(set) \X {k \in set : IsReplacement(k)}
    BY <1>1, <2>1
  <2>3. \A e \in Required(n) : ~(e.name = m.name /\ ~Admits(e, m.version))
    BY <1>1, <2>2 DEF Blockers
  <2> QED BY <1>1, <2>3
<1> QED BY <1>4, <1>5

\* An import that is not forced over a blocker keeps what it promises.
LEMMA QueueKeeps ==
  ASSUME TypeOK, NEW models \in Seq(Model), NEW force \in BOOLEAN,
         Allowed(models, force), Queue(models, force), installed' = installed
  PROVE  /\ kept' \subseteq Dependency
         /\ \A d \in kept' : Promised(d)'
<1> DEFINE set == ToSet(models)
<1>1. set \in SUBSET Model
  BY DEF ToSet
<1>2. Satisfied(set) \subseteq Dependency
  BY RequiredType DEF Satisfied, TypeOK
<1>3. kept' = {} \/ (kept' = Satisfied(set) /\ Blockers(set) = {})
  BY DEF Queue, Allowed
<1>4. ASSUME NEW d \in kept' PROVE Promised(d)'
  <2>1. kept' = Satisfied(set) /\ Blockers(set) = {} /\ d \in Satisfied(set)
    BY <1>3, <1>4
  <2>2. installed[d.name] # 0 /\ Admits(d, installed[d.name])
    BY <2>1 DEF Satisfied
  <2>3. ASSUME NEW i \in DOMAIN models, models[i].name = d.name
        PROVE  Admits(d, models[i].version)
    <3>1. models[i] \in set
      BY DEF ToSet
    <3> QED BY <1>1, <2>1, <2>3, <3>1, NothingBlocked
  <2> QED BY <2>2, <2>3 DEF Promised, Queue, Admits
<1> QED BY <1>2, <1>3, <1>4

\* GuardSpec starts in the invariant.
LEMMA InitIInv == Init => IInv
<1> SUFFICES ASSUME Init PROVE IInv
  OBVIOUS
<1>1. <<>> \in Seq(Model) /\ DOMAIN <<>> = {}
  BY EmptySeq
<1> QED BY <1>1, InstallsAssumption DEF Init, IInv, TypeOK, PC

\* The job takes the next model, and every requirement to be kept admits it.
LEMMA ImportNextIInv ==
  ASSUME IInv, ImportNext
  PROVE  IInv'
<1> USE DEF IInv
<1>1. CASE /\ installed' = [installed EXCEPT ![Head(job).name] = Head(job).version]
           /\ job' = Tail(job)
  <2>1. job \in Seq(Model) /\ job # <<>>
    BY DEF TypeOK, ImportNext
  <2>2. /\ Head(job) \in Model /\ Head(job) = job[1] /\ 1 \in DOMAIN job
        /\ Tail(job) \in Seq(Model)
        /\ \A i \in DOMAIN Tail(job) : i + 1 \in DOMAIN job /\ Tail(job)[i] = job[i + 1]
    BY <2>1, TailModels
  <2>3. installed \in [Name -> Version] /\ installed' \in [Name -> Version]
    BY <1>1, <2>2 DEF TypeOK, Model
  <2>4. TypeOK'
    BY <1>1, <2>2, <2>3 DEF TypeOK, ImportNext, PC
  <2>5. ASSUME calm', NEW d \in kept' PROVE Promised(d)'
    <3>1. calm /\ d \in kept /\ Promised(d) /\ d.name \in Name
      BY <2>5 DEF ImportNext, TypeOK, Dependency
    <3>2. CASE d.name = Head(job).name
      <4>1. installed'[d.name] = Head(job).version /\ Head(job).version # 0
        BY <1>1, <2>2, <2>3, <3>1, <3>2 DEF Model
      <4>2. Admits(d, Head(job).version)
        BY <2>2, <3>1, <3>2 DEF Promised
      <4> QED BY <1>1, <2>2, <3>1, <4>1, <4>2 DEF Promised, Admits
    <3>3. CASE d.name # Head(job).name
      <4>1. installed'[d.name] = installed[d.name]
        BY <1>1, <2>3, <3>1, <3>3
      <4> QED BY <1>1, <2>2, <3>1, <4>1 DEF Promised, Admits
    <3> QED BY <3>2, <3>3
  <2>6. (pc' = "running" => job' # <<>>) /\ pc' # "offered"
    BY DEF ImportNext
  <2> QED BY <2>4, <2>5, <2>6
<1>2. CASE job' = <<>> /\ UNCHANGED installed
  <2>1. <<>> \in Seq(Model) /\ DOMAIN <<>> = {}
    BY EmptySeq
  <2>2. TypeOK'
    BY <1>2, <2>1 DEF TypeOK, ImportNext, PC
  <2>3. ASSUME calm', NEW d \in kept' PROVE Promised(d)'
    BY <1>2, <2>1, <2>3 DEF ImportNext, Promised, Admits
  <2> QED BY <1>2, <2>2, <2>3 DEF ImportNext
<1> QED BY <1>1, <1>2 DEF ImportNext

\* Every step keeps the invariant.
LEMMA NextIInv == IInv /\ [GuardNext]_vars => IInv'
<1> SUFFICES ASSUME IInv, [GuardNext]_vars PROVE IInv'
  OBVIOUS
<1> USE DEF IInv
<1>1. CASE AnyDialog
  BY <1>1 DEF AnyDialog, Opened, TypeOK, PC
<1>2. CASE AnyImport
  <2>1. /\ pc = "offered" /\ roots' = <<>> /\ offer' = <<>> /\ calm' = TRUE
        /\ catalog' = catalog /\ installed' = installed
    BY <1>2 DEF AnyImport, Closed
  <2>2. <<>> \in Seq(Model) /\ DOMAIN <<>> = {}
    BY EmptySeq
  <2>3. CASE job' \in Seq(Model) /\ \E force \in BOOLEAN : Allowed(job', force) /\ Queue(job', force)
    <3>1. PICK force \in BOOLEAN : Allowed(job', force) /\ Queue(job', force)
      BY <2>3
    <3>2. kept' \subseteq Dependency /\ \A d \in kept' : Promised(d)'
      BY <2>1, <2>3, <3>1, QueueKeeps
    <3>3. pc' = "running" /\ job' # <<>>
      BY <3>1 DEF Queue, Allowed
    <3> QED BY <2>1, <2>2, <2>3, <3>2, <3>3 DEF TypeOK, PC
  <2>4. CASE Refuse
    <3>1. pc' = "idle" /\ job' = job /\ kept' = kept
      BY <2>4 DEF Refuse
    <3>2. TypeOK'
      BY <2>1, <2>2, <3>1 DEF TypeOK, PC
    <3> QED BY <2>1, <3>1, <3>2 DEF Promised, Admits
  <2> QED BY <1>2, <2>3, <2>4 DEF AnyImport
<1>3. CASE ImportNext
  BY <1>3, ImportNextIInv
<1>4. CASE OtherImport
  <2>1. PICK m \in Published : installed' = [installed EXCEPT ![m.name] = m.version]
    BY <1>4 DEF OtherImport
  <2>2. m \in Model
    BY CatalogsAssumption DEF TypeOK, Published
  <2>3. installed' \in [Name -> Version]
    BY <2>1, <2>2 DEF TypeOK, Model
  <2> QED BY <1>4, <2>3 DEF OtherImport, TypeOK
<1>5. CASE UNCHANGED vars
  BY <1>5 DEF vars, TypeOK, Promised, Admits
<1> QED BY <1>1, <1>2, <1>3, <1>4, <1>5 DEF GuardNext

\* The promises of the guard are an invariant of every import.
THEOREM InvariantOfGuard == GuardSpec => []IInv
BY InitIInv, NextIInv, PTL DEF GuardSpec

\* Every catalog, tenant and import has its type, however the models are chosen.
THEOREM GuardTypes == GuardSpec => []TypeOK
<1>1. IInv => TypeOK
  BY DEF IInv
<1> QED BY <1>1, InvariantOfGuard, PTL

\* CkDependentRequirementGuard.Evaluate: an import that is not forced over a
\* blocker takes from no dependent a model that it accepted.
THEOREM GuardProtectsDependents == GuardSpec => []SatisfiedStaySatisfied
<1>1. IInv => SatisfiedStaySatisfied
  BY DEF IInv, SatisfiedStaySatisfied, Promised
<1> QED BY <1>1, InvariantOfGuard, PTL
=============================================================================
