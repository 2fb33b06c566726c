----------------------------- MODULE HealthSweep ---------------------------
(***************************************************************************)
(* The health of the CK models of the tenants that asked to be observed:   *)
(* the background sweep (Observability/CkModelObservabilitySweepService.cs)*)
(* reads one tenant after the other and publishes what it finds            *)
(* (CkModelObservabilityMetrics.cs, CkModelHealthEvaluator.cs,             *)
(* TenantObservabilityOptIn.cs).                                           *)
(*                                                                         *)
(* The exporter reads the published snapshots between any two steps.  All  *)
(* of it is in memory: a process that is started again begins in Init,     *)
(* with the tenants in any state.  A library stands for all libraries of a *)
(* tenant: they are judged one by one.  The set of unreachable tenants of  *)
(* the service decides about log lines only and is left out.               *)
(***************************************************************************)
EXTENDS Naturals

CONSTANTS
  Tenant,
  Status,   \* what the library of a tenant may look like: sets of facts about it
  Window,   \* the staleness window, in ticks
  None      \* no snapshot; no tenant

Fact == {"installed", "resolveFailed", "inconsistent"}

ASSUME StatusAssumption == Status \subseteq SUBSET Fact
ASSUME WindowAssumption == Window \in Nat
ASSUME NoneAssumption == None \notin Tenant

VARIABLES
  mode,      \* mode[t]: what the registry, the opt-in and the status of t answer
  status,    \* status[t]: the library of t
  phase,     \* where the sweep is
  todo,      \* tenants of this sweep that are not looked at yet
  now,       \* the tenant that is being looked at
  observed,  \* tenants of this or the last sweep that had opted in
  reported,  \* the tenants that _reportedFaults has an entry of
  exported,  \* exported[t]: the published snapshot of t
  age,       \* ticks since a sweep was completed
  steady     \* tenants that have not changed since they were looked at (history)

vars == <<mode, status, phase, todo, now, observed, reported, exported, age, steady>>
tenants == <<mode, status>>

\* A tenant is unknown, did not opt in, has an unreadable opt-in, has opted in
\* and cannot be read (or not in time), or has opted in and can be read.  The
\* database of a silent one answers nothing and refuses nothing.
Mode == {"gone", "out", "hidden", "unreadable", "in", "silent"}

Phase == {"off", "wait", "list", "next", "optIn", "read", "stopped"}

-----------------------------------------------------------------------------
(***************************************************************************)
(* CkModelHealthEvaluator and the snapshots of CkModelObservabilityMetrics.*)
(***************************************************************************)

CatalogInconsistency == 1
ResolveFailed == 2

\* The variant that reports both faults.
EvaluateBoth(s) ==
  {ResolveFailed : f \in s \cap {"resolveFailed"}} \cup
  {CatalogInconsistency : f \in s \cap {"inconsistent"}}

\* A model that does not resolve, or an installed one that the catalog cannot
\* repair: the first fault wins.
Evaluate(s) ==
  IF "resolveFailed" \in s THEN {ResolveFailed}
  ELSE IF {"inconsistent", "installed"} \subseteq s THEN {CatalogInconsistency}
  ELSE {}

\* The export carries one fault of a library at most.
TenantSnapshot ==
  [unreachable : BOOLEAN, faults : {{}, {CatalogInconsistency}, {ResolveFailed}}]

Faults(s) == [unreachable |-> FALSE, faults |-> Evaluate(s)]

Unreachable == [unreachable |-> TRUE, faults |-> {}]

\* IsFresh: without it nothing but the age of the last sweep is published.
IsFresh == phase # "off" /\ age <= Window

TypeOK ==
  /\ mode \in [Tenant -> Mode]
  /\ status \in [Tenant -> Status]
  /\ phase \in Phase
  /\ todo \subseteq Tenant
  /\ now \in Tenant \cup {None}
  /\ observed \subseteq Tenant
  /\ reported \subseteq Tenant
  /\ exported \in [Tenant -> TenantSnapshot \cup {None}]
  /\ age \in 0 .. Window + 1
  /\ steady \subseteq Tenant

\* A service that is switched off does not arm the instruments.
Init ==
  /\ mode \in [Tenant -> Mode]
  /\ status \in [Tenant -> Status]
  /\ phase \in {"off", "wait"}
  /\ todo = {}
  /\ now = None
  /\ observed = {}
  /\ reported = {}
  /\ exported = [t \in Tenant |-> None]
  /\ age = 0
  /\ steady = {}

-----------------------------------------------------------------------------
(***************************************************************************)
(* ExecuteAsync and SweepAsync.                                            *)
(***************************************************************************)

\* The delay of the start or between two sweeps is over.
Wake ==
  /\ phase = "wait"
  /\ phase' = "list"
  /\ UNCHANGED <<tenants, todo, now, observed, reported, exported, age, steady>>

\* GetTenantIdsAsync: all tenants of this moment.
List ==
  /\ phase = "list"
  /\ phase' = "next"
  /\ todo' = {t \in Tenant : mode[t] # "gone"}
  /\ observed' = {}
  /\ UNCHANGED <<tenants, now, reported, exported, age, steady>>

\* The variant that counts the failed sweep as a sweep.
ListFailsQuietly ==
  /\ phase = "list"
  /\ phase' = "wait"
  /\ age' = 0
  /\ UNCHANGED <<tenants, todo, now, observed, reported, exported, steady>>

\* The registry cannot be read: the sweep is given up, the last one stays.
ListFails ==
  /\ phase = "list"
  /\ phase' = "wait"
  /\ UNCHANGED <<tenants, todo, now, observed, reported, exported, age, steady>>

\* The next tenant is asked for its opt-in, in its own database, for as long as
\* that takes: the timeout per tenant begins with SweepTenantAsync.
Ask(t) ==
  /\ phase = "next" /\ t \in todo
  /\ phase' = "optIn"
  /\ todo' = todo \ {t}
  /\ now' = t
  /\ UNCHANGED <<tenants, observed, reported, exported, age, steady>>

\* The opt-in cannot be read: the tenant is not exported.
OptInUnreadable ==
  /\ phase = "optIn"
  /\ mode[now] = "hidden"
  /\ phase' = "next"
  /\ now' = None
  /\ exported' = [exported EXCEPT ![now] = None]
  /\ steady' = steady \cup {now}
  /\ UNCHANGED <<tenants, todo, observed, reported, age>>

\* The variant that passes over the tenant.
OptedOutPassed ==
  /\ phase = "optIn"
  /\ mode[now] \in {"gone", "out"}
  /\ phase' = "next"
  /\ now' = None
  /\ reported' = reported \ {now}
  /\ steady' = steady \cup {now}
  /\ UNCHANGED <<tenants, todo, observed, exported, age>>

\* It did not opt in, or is not there any more: it is not exported.
OptedOut ==
  /\ phase = "optIn"
  /\ mode[now] \in {"gone", "out"}
  /\ phase' = "next"
  /\ now' = None
  /\ exported' = [exported EXCEPT ![now] = None]
  /\ reported' = reported \ {now}
  /\ steady' = steady \cup {now}
  /\ UNCHANGED <<tenants, todo, observed, age>>

OptedIn ==
  /\ phase = "optIn"
  /\ mode[now] \in {"unreadable", "in"}
  /\ phase' = "read"
  /\ observed' = observed \cup {now}
  /\ steady' = steady \cup {now}
  /\ UNCHANGED <<tenants, todo, now, reported, exported, age>>

\* The status is read whatever the opt-in has become since.
Reachable(t) == mode[t] \notin {"gone", "unreadable", "silent"}

\* SweepTenantAsync: the faults replace those of the last sweep.
TenantRead ==
  /\ phase = "read"
  /\ Reachable(now)
  /\ exported' = [exported EXCEPT ![now] = Faults(status[now])]
  /\ reported' = reported \cup {now}
  /\ phase' = "next"
  /\ now' = None
  /\ UNCHANGED <<tenants, todo, observed, age, steady>>

\* The variant without a timeout and a catch per tenant.
TenantNeverAnswers ==
  /\ phase = "read"
  /\ mode[now] \in {"gone", "unreadable"}
  /\ UNCHANGED vars

\* The status cannot be read, or the catalogs do not answer in time: there are no
\* faults to publish.  The timeout does not reach the reads of the database.
TenantUnreachable ==
  /\ phase = "read"
  /\ mode[now] \in {"gone", "unreadable"}
  /\ exported' = [exported EXCEPT ![now] = Unreachable]
  /\ reported' = reported \ {now}
  /\ phase' = "next"
  /\ now' = None
  /\ UNCHANGED <<tenants, todo, observed, age, steady>>

\* The variant without the clean-up.
CompleteOnly ==
  /\ phase = "next" /\ todo = {}
  /\ phase' = "wait"
  /\ age' = 0
  /\ UNCHANGED <<tenants, todo, now, observed, reported, exported, steady>>

\* The clean-up goes over the tenants of the reported faults;
\* RecordSweepCompleted.
Complete ==
  /\ phase = "next" /\ todo = {}
  /\ exported' = [t \in Tenant |-> IF t \in reported \ observed THEN None ELSE exported[t]]
  /\ reported' = reported \cap observed
  /\ phase' = "wait"
  /\ age' = 0
  /\ UNCHANGED <<tenants, todo, now, observed, steady>>

\* The shutdown cancels the delay, or the sweep before its next tenant.
Stop ==
  /\ phase \in {"wait", "list", "next", "optIn", "read"}
  /\ phase' = "stopped"
  /\ UNCHANGED <<tenants, todo, now, observed, reported, exported, age, steady>>

-----------------------------------------------------------------------------
(***************************************************************************)
(* Time, and the tenants (external).                                       *)
(***************************************************************************)

Tick ==
  /\ age <= Window
  /\ age' = age + 1
  /\ UNCHANGED <<tenants, phase, todo, now, observed, reported, exported, steady>>

\* A tenant is created, deleted, opts in or out, breaks, fails, hangs or recovers.
Change(t) ==
  /\ \/ /\ \E m \in Mode \ {mode[t]} : mode' = [mode EXCEPT ![t] = m]
        /\ UNCHANGED status
     \/ /\ \E s \in Status \ {status[t]} : status' = [status EXCEPT ![t] = s]
        /\ UNCHANGED mode
  /\ steady' = steady \ {t}
  /\ UNCHANGED <<phase, todo, now, observed, reported, exported, age>>

\* What the database of the tenant and the catalogs let happen.
Answer == OptInUnreadable \/ OptedOut \/ OptedIn \/ TenantRead \/ TenantUnreachable

\* What the service does by itself.
OwnStep == Wake \/ (\E t \in Tenant : Ask(t)) \/ Complete

Next ==
  \/ OwnStep \/ List \/ ListFails \/ Answer \/ Stop
  \/ Tick
  \/ \E t \in Tenant : Change(t)

Spec == Init /\ [][Next]_vars

\* The service runs and time passes.  Nothing is said of the registry, which may
\* never be read, and of the databases, which may never answer.
Fairness == WF_vars(OwnStep) /\ WF_vars(Tick)

FairSpec == Spec /\ Fairness

-----------------------------------------------------------------------------
(***************************************************************************)
(* Properties.                                                             *)
(***************************************************************************)

Expected(t) ==
  IF mode[t] = "in" THEN Faults(status[t])
  ELSE IF mode[t] = "unreadable" THEN Unreachable
  ELSE None

\* SweepAsync: a tenant that stays as it was when the sweep looked at it is
\* exported as it is, through later sweeps, the changes of other tenants, failed
\* enumerations and clean-ups.
SteadyIsExported ==
  \A t \in steady \ {now} : exported[t] = Expected(t)

HasFaults(t) == exported[t] # None /\ exported[t].faults # {}

\* The clean-up of SweepAsync: between two sweeps the only faults on the wire are
\* those of tenants the last completed sweep has observed.
FaultsAreObserved ==
  phase = "wait" => \A t \in Tenant : HasFaults(t) => t \in observed

\* RecordSweepCompleted: the export stays fresh only as long as sweeps complete,
\* however often they are begun, given up or left hanging.
FreshIsSwept == []<>IsFresh => []<><<Complete>>_vars

\* The registry can be read now and then, and no database hangs for good: one that
\* is not silent again and again answers what it was asked, with an error if it
\* cannot be read.
DatabasesAnswer ==
  /\ SF_vars(List)
  /\ SF_vars(Answer)
  /\ \A t \in Tenant : []<>(mode[t] # "silent")

\* SweepAsync: as long as no database hangs for good, a tenant that opted in for
\* good is exported as it is for good, whatever happens to the others, whichever
\* of them cannot be read or time out, and however they come and go.
StableIsExported ==
  \A t \in Tenant, s \in Status :
    DatabasesAnswer /\ <>[](mode[t] = "in" /\ status[t] = s) =>
      <>[](exported[t] = Faults(s) \/ phase \in {"off", "stopped"})

-----------------------------------------------------------------------------
(***************************************************************************)
(* The inductive invariant behind the properties (see HealthSweepProofs).  *)
(***************************************************************************)

\* A tenant is being looked at exactly while the sweep stands there; while it is
\* read it is an observed one, which has opted in unless it has changed since.
ReadInv ==
  /\ phase = "optIn" => now \in Tenant
  /\ phase = "read" =>
       /\ now \in Tenant \cap observed
       /\ now \in steady => mode[now] \in {"unreadable", "in"}
  /\ phase \in {"wait", "list", "next"} => now = None

\* A steady tenant that is to be exported has been observed in this sweep, or will be.
SteadyInv ==
  phase \in {"next", "optIn", "read"} =>
    \A t \in steady \ {now} : mode[t] \in {"unreadable", "in"} => t \in observed \cup todo

\* The clean-up will find the tenant of every fault.
ReportedInv == \A t \in Tenant : HasFaults(t) => t \in reported

\* The faults are those of a sweep that is over.
ObservedInv ==
  phase \in {"wait", "list"} => \A t \in Tenant : HasFaults(t) => t \in observed

IInv == TypeOK /\ ReadInv /\ SteadyInv /\ SteadyIsExported /\ ReportedInv /\ ObservedInv
=============================================================================
