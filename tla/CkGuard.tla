------------------------------- MODULE CkGuard -----------------------------
(***************************************************************************)
(* What an import of CK models owes the upgrade guard, whatever the dialog *)
(* shows and whatever list of models is sent: the guard judges the list as *)
(* one set (Services/CkDependentRequirementGuard.cs), the models of the    *)
(* list are queued together or not at all, and a job imports one after the *)
(* other (TenantApi/v1/Controllers/ModelsController.cs).  CkImports        *)
(* implements it with the resolver behind the dialog.                      *)
(*                                                                         *)
(* A version is a number; its tens are the major version.  A model that    *)
(* does not resolve counts as not installed, as it does for this code.     *)
(* The engine's own guard, which may add blockers, and the job are         *)
(* external.                                                               *)
(***************************************************************************)
EXTENDS Naturals, SequencesExt

CONSTANTS
  Name,      \* names of CK models
  Managed,   \* those the platform owns: System and System.*
  Catalogs,  \* the models there may be: functions from models to dependencies
  Withdrawn, \* the models of them that tenants still have and no catalog publishes
  Installs,  \* what a tenant may have installed: the version of a name, or 0
  Roots      \* the models a user may ask for at a time

VARIABLES
  catalog,    \* the models there are and their dependencies
  installed,  \* installed[n]: the installed version of n, or 0
  pc,         \* where the import is
  roots,      \* the models asked for
  offer,      \* the models the dialog shows as to be imported
  job,        \* the models the job has yet to import
  kept,       \* requirements that were satisfied when the guard judged (history)
  calm        \* nothing else changed the models since then (history)

vars == <<catalog, installed, pc, roots, offer, job, kept, calm>>

Version == 0 .. 29

Model == [name : Name, version : Version \ {0}]

\* A dependency: the version it was compiled with, and the versions it accepts,
\* which is that version alone for a classic model.  A pin that a model with
\* ranges lists without a range is not direct.
Dependency == [name : Name, pin : Version, low : Version, high : Version, direct : BOOLEAN]

ASSUME ManagedAssumption == Managed \subseteq Name

ASSUME CatalogsAssumption ==
  \A c \in Catalogs :
    DOMAIN c \subseteq Model /\ \A m \in DOMAIN c : c[m] \in Seq(Dependency)

ASSUME WithdrawnAssumption == Withdrawn \subseteq Model

ASSUME InstallsAssumption == Installs \subseteq [Name -> Version]

PC == {"idle", "offered", "running"}

TypeOK ==
  /\ catalog \in Catalogs
  /\ installed \in [Name -> Version]
  /\ pc \in PC
  /\ roots \in Roots \cup {<<>>}
  /\ offer \in Seq(Model)
  /\ \A i, j \in DOMAIN offer : offer[i].name = offer[j].name => i = j
  /\ job \in Seq(Model)
  /\ kept \subseteq Dependency
  /\ calm \in BOOLEAN

Init ==
  /\ catalog \in Catalogs
  /\ installed \in Installs
  /\ pc = "idle"
  /\ roots = <<>>
  /\ offer = <<>>
  /\ job = <<>>
  /\ kept = {}
  /\ calm = TRUE

-----------------------------------------------------------------------------
(***************************************************************************)
(* CkDependentRequirementGuard.                                            *)
(***************************************************************************)

Published == DOMAIN catalog \ Withdrawn

\* What the model itself lists, in a catalog or in the tenant that has it.
Dependencies(m) == IF m \in DOMAIN catalog THEN catalog[m] ELSE <<>>

\* A transitive pin is judged where the model that needs it is resolved.
Required(m) == {d \in ToSet(Dependencies(m)) : d.direct}

Admits(d, v) == d.low <= v /\ v <= d.high

Installed ==
  {[name |-> n, version |-> installed[n]] : n \in {k \in Name : installed[k] # 0}}

NamesOf(models) == {m.name : m \in models}

\* The installed models that the set leaves alone, and the models of the set.
Dependents(set) == {m \in Installed : m.name \notin NamesOf(set)} \cup set

Major(v) == v \div 10

\* The variant that takes another major version for a parallel install.
IsReplacementOfMajor(m) ==
  /\ m.name \notin Managed
  /\ installed[m.name] \notin {0, m.version}
  /\ Major(installed[m.name]) = Major(m.version)

IsReplacement(m) == m.name \notin Managed /\ installed[m.name] \notin {0, m.version}

\* Evaluate: the dependents and the models of the set that they do not admit.
Blockers(set) ==
  {pair \in Dependents(set) \X {m \in set : IsReplacement(m)} :
     /\ pair[1].name # pair[2].name
     /\ \E d \in Required(pair[1]) : d.name = pair[2].name /\ ~Admits(d, pair[2].version)}

\* The requirements of the dependents of a set that the tenant satisfies; the
\* guard does not judge a model of the platform that the set brings.
Satisfied(set) ==
  {d \in UNION {{r \in Required(m) : r.name # m.name} : m \in Dependents(set)} :
     /\ installed[d.name] # 0 /\ Admits(d, installed[d.name])
     /\ d.name \in NamesOf(set) => d.name \notin Managed}

-----------------------------------------------------------------------------
(***************************************************************************)
(* The dialog, the import and the job.                                     *)
(***************************************************************************)

\* The endpoint takes any list of published models, and judges it as one set.
Allowed(models, force) ==
  /\ models # <<>>
  /\ ToSet(models) \subseteq Published
  /\ force \/ Blockers(ToSet(models)) = {}

\* An import that is forced over a blocker owes nothing.
Queue(models, force) ==
  /\ job' = models
  /\ pc' = "running"
  /\ kept' = IF force /\ Blockers(ToSet(models)) # {} THEN {} ELSE Satisfied(ToSet(models))

Refuse == pc' = "idle" /\ UNCHANGED <<job, kept>>

Opened ==
  /\ pc = "idle"
  /\ pc' = "offered"
  /\ calm' = TRUE
  /\ kept' = {}
  /\ UNCHANGED <<catalog, installed, job>>

Closed ==
  /\ pc = "offered"
  /\ roots' = <<>>
  /\ offer' = <<>>
  /\ calm' = TRUE
  /\ UNCHANGED <<catalog, installed>>

\* Whatever the resolver offers, in an order of its own, each name once.
AnyDialog ==
  /\ Opened
  /\ roots' \in Roots
  /\ offer' \in Seq(Model)
  /\ \A i, j \in DOMAIN offer' : offer'[i].name = offer'[j].name => i = j

\* Whatever list is sent, and for whatever reason it is refused.
AnyImport ==
  /\ Closed
  /\ \/ /\ job' \in Seq(Model)
        /\ \E force \in BOOLEAN : Allowed(job', force) /\ Queue(job', force)
     \/ Refuse

\* The job imports the next model (external), or fails and leaves out the rest.
ImportNext ==
  /\ pc = "running"
  /\ \/ /\ installed' = [installed EXCEPT ![Head(job).name] = Head(job).version]
        /\ job' = Tail(job)
     \/ /\ job' = <<>>
        /\ UNCHANGED installed
  /\ pc' = IF job' = <<>> THEN "idle" ELSE "running"
  /\ UNCHANGED <<catalog, roots, offer, kept, calm>>

\* Somebody else installs a model while the dialog is open or the job runs (external).
OtherImport ==
  /\ pc \in {"offered", "running"} /\ calm
  /\ \E m \in Published : installed' = [installed EXCEPT ![m.name] = m.version]
  /\ calm' = FALSE
  /\ UNCHANGED <<catalog, pc, roots, offer, job, kept>>

GuardNext == AnyDialog \/ AnyImport \/ ImportNext \/ OtherImport

\* What CkImports implements: its run checks GuardSpec as a property.
GuardSpec == Init /\ [][GuardNext]_vars

\* The upgrade guard: an import, however old the dialog is, takes from no
\* dependent what it had, while its job runs, when it has ended and when it
\* failed half-way, unless it was forced over a blocker or others import meanwhile.
SatisfiedStaySatisfied ==
  calm => \A d \in kept : installed[d.name] # 0 /\ Admits(d, installed[d.name])
=============================================================================
