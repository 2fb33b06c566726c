------------------------------ MODULE CkImports ----------------------------
(***************************************************************************)
(* Imports of CK models from a catalog: the dialog resolves what an import *)
(* pulls in (Services/CkImportDependencyResolver.cs), and the import itself*)
(* is checked against the System models                                    *)
(* (Services/CkModelLibraryStatusService.cs) and by the upgrade guard of   *)
(* CkGuard, which also has the state, the job and the models.              *)
(***************************************************************************)
EXTENDS CkGuard

CONSTANT Broken  \* models a tenant may have that do not resolve

ASSUME BrokenAssumption == Broken \subseteq Model

VARIABLE broken  \* those the tenant has

importVars == <<vars, broken>>

ImportsInit ==
  /\ Init
  /\ broken \in {b \in SUBSET Broken : \A m \in b : installed[m.name] = 0}

\* The row of a model that is imported replaces the one of its name.
RowsReplaced == broken' = {m \in broken : installed'[m.name] = 0}

-----------------------------------------------------------------------------
(***************************************************************************)
(* CkImportDependencyResolver: the tree of a model, and its import set.    *)
(***************************************************************************)

ModelOf(d) == [name |-> d.name, version |-> d.pin]

\* What a published model requires, in its order.
Requirements(m) ==
  IF m \in Published THEN SelectSeq(Dependencies(m), LAMBDA d : d.direct) ELSE <<>>

IsSatisfiedBy(d, v) == Major(v) = Major(d.pin) /\ Admits(d, v)

\* The variant that offers a downgrade.
ActionEitherWay(m, d, existing) ==
  IF m \in existing THEN "none"
  ELSE IF installed[m.name] = 0 THEN IF m.name \in Managed THEN "none" ELSE "install"
  ELSE IF IsSatisfiedBy(d, installed[m.name]) THEN "none"
  ELSE IF m.name \in Managed THEN "incompatible"
  ELSE "install"

\* What importing the model m as the dependency d means for the tenant; existing
\* are the models that its caller takes for installed.
Action(m, d, existing) ==
  IF m \in existing THEN "none"
  ELSE IF installed[m.name] = 0 THEN IF m.name \in Managed THEN "none" ELSE "install"
  ELSE IF IsSatisfiedBy(d, installed[m.name]) THEN "none"
  ELSE IF m.name \in Managed \/ installed[m.name] > m.version THEN "incompatible"
  ELSE "install"

\* The variant that follows a name once.
FollowName(d, resolved) == \A e \in resolved : e.name # d.name

\* A dependency is followed once for each requirement.
Follow(d, resolved) == d \notin resolved

RECURSIVE Tree(_, _, _, _)

\* ResolveDependencyTreeAsync: the item of m, and the requirements followed so far.
\* A model that is not published has no dependencies to follow.
Tree(m, d, existing, resolved) ==
  LET visit(sofar, e) ==
        IF ~Follow(e, sofar.resolved) THEN sofar
        ELSE LET below == Tree(ModelOf(e), e, existing, sofar.resolved \cup {e})
             IN [items |-> Append(sofar.items, below.item), resolved |-> below.resolved]
      all == FoldLeft(visit, [items |-> <<>>, resolved |-> resolved], Requirements(m))
  IN [item |-> [model |-> m, action |-> Action(m, d, existing), items |-> all.items],
      resolved |-> all.resolved]

\* ResolveRootAsync: the root is judged against its own version.
RootTree(m, existing) ==
  Tree(m, [name |-> m.name, pin |-> m.version, low |-> m.version, high |-> m.version,
           direct |-> TRUE], existing, {}).item

RECURSIVE Loads(_)

\* The loader of the dialog finds every model of the tree in a catalog.
Loads(item) == item.model \in Published /\ \A i \in DOMAIN item.items : Loads(item.items[i])

RECURSIVE HasIncompatible(_)

HasIncompatible(item) ==
  item.action = "incompatible" \/ \E i \in DOMAIN item.items : HasIncompatible(item.items[i])

\* The variant that collects a name again.
CollectedAgain(models, m) == IF m \in ToSet(models) THEN models ELSE Append(models, m)

\* A name stays where it was first collected, with its highest version.
Collected(models, m) ==
  LET at == {i \in DOMAIN models : models[i].name = m.name}
  IN IF at = {} THEN Append(models, m)
     ELSE [i \in DOMAIN models |->
             IF i \in at /\ m.version > models[i].version THEN m ELSE models[i]]

RECURSIVE Collect(_, _)

\* CollectModelsToImport: the models of the tree, added to models.
Collect(models, item) ==
  LET below == FoldLeft(Collect, models, item.items)
  IN IF item.action = "install" /\ item.model.name \notin Managed /\ ~HasIncompatible(item)
     THEN Collected(below, item.model)
     ELSE below

\* ResolveDependencies and ResolveDependenciesBatch.
ImportSet(asked, existing) ==
  FoldLeft(LAMBDA models, m : Collect(models, RootTree(m, existing)), <<>>, asked)

\* ImportSetOfAsync for each root: the snapshot has the models that resolve, and a
\* model that is in no catalog is judged like one without dependencies.
ImportSetsOf(asked) ==
  FoldLeft(LAMBDA all, m : all \o Append(ImportSet(<<m>>, Installed), m), <<>>, asked)

\* The variant that keeps the version that came first.
UpdateSetOfFirst(asked) ==
  FoldLeft(LAMBDA models, m :
             IF \E i \in DOMAIN models : models[i].name = m.name THEN models ELSE Append(models, m),
           <<>>, ImportSetsOf(asked))

\* ResolveImportSetAsync: what a blueprint is judged with; every root is in it.
UpdateSet(asked) == FoldLeft(Collected, <<>>, ImportSetsOf(asked))

-----------------------------------------------------------------------------
(***************************************************************************)
(* CheckSystemCompatibilityAsync.                                          *)
(***************************************************************************)

RECURSIVE Compatible(_, _)

\* The models below m that the installed System models admit; a dependency is
\* checked once, whatever its parents require.
Compatible(m, visited) ==
  LET check(sofar, d) ==
        IF ~sofar.ok THEN sofar
        ELSE IF d.name \in Managed /\ ~d.direct THEN [sofar EXCEPT !.ok = installed[d.name] # 0]
        ELSE IF ModelOf(d) \in sofar.visited THEN sofar
        ELSE IF d.name \in Managed
          THEN [ok |-> Admits(d, installed[d.name]), visited |-> sofar.visited \cup {ModelOf(d)}]
        ELSE Compatible(ModelOf(d), sofar.visited \cup {ModelOf(d)})
  IN IF m \notin Published THEN [ok |-> FALSE, visited |-> visited]
     ELSE FoldLeft(check, [ok |-> TRUE, visited |-> visited], Dependencies(m))

-----------------------------------------------------------------------------
(***************************************************************************)
(* The dialog and the import.                                              *)
(***************************************************************************)

\* Whether the tenant takes a model that does not resolve for existing is up to the
\* engine (IsCkModelExistingAsync).
ResolveDependencies ==
  /\ Opened
  /\ \E asked \in Roots, existing \in {Installed, Installed \cup broken} :
       /\ \A m \in ToSet(asked) : Loads(RootTree(m, existing))
       /\ roots' = asked
       /\ offer' = ImportSet(asked, existing)
  /\ UNCHANGED broken

\* A dependency that is in no catalog makes the loader throw: the dialog is answered
\* with an error and shows nothing.
ResolveFails ==
  /\ pc = "idle"
  /\ \E asked \in Roots : \E m \in ToSet(asked) : ~Loads(RootTree(m, Installed))
  /\ UNCHANGED importVars

\* The variant that judges what the dialog shows, and a model alone not at all.
ImportOneUnjudged ==
  /\ Closed
  /\ \E models \in {offer, <<Head(roots)>>}, force \in BOOLEAN :
       IF (\A m \in ToSet(models) : Compatible(m, {}).ok) /\ Allowed(models, force \/ models # offer)
       THEN Queue(models, force)
       ELSE Refuse
  /\ UNCHANGED broken

\* ImportFromCatalog and ImportFromCatalogBatch: the models of the dialog, or
\* one model alone; none is queued unless all may be.
Import ==
  /\ Closed
  /\ \E models \in {offer, <<Head(roots)>>}, force \in BOOLEAN :
       IF (\A m \in ToSet(models) : Compatible(m, {}).ok) /\ Allowed(models, force)
       THEN Queue(models, force)
       ELSE Refuse
  /\ UNCHANGED broken

Next ==
  \/ ResolveDependencies \/ ResolveFails \/ Import
  \/ ImportNext /\ RowsReplaced
  \/ OtherImport /\ RowsReplaced

Spec == ImportsInit /\ [][Next]_importVars

-----------------------------------------------------------------------------
(***************************************************************************)
(* Properties.                                                             *)
(***************************************************************************)

Fresh == pc = "offered" /\ calm

\* ResolveDependencyTreeAsync: "a newer installed version is never offered for a
\* downgrade install": through every parent, requirement and repeated model the
\* import set only raises what is installed, and leaves System models alone.
OffersRaise ==
  Fresh =>
    \A i \in DOMAIN offer :
      offer[i].name \notin Managed /\ offer[i].version > installed[offer[i].name]

\* The version of n once the offer is imported.
After(n) ==
  IF n \in NamesOf(ToSet(offer))
  THEN (CHOOSE m \in ToSet(offer) : m.name = n).version
  ELSE installed[n]

\* CollectModelsToImport: unless a tree has an incompatible model, every
\* requirement of a model of the import set finds its model afterwards, if only as
\* one that does not resolve, and in no older version than it needs, though a
\* requirement is followed only once.
NothingIsMissing ==
  Fresh /\ (\A i \in DOMAIN roots : ~HasIncompatible(RootTree(roots[i], Installed))) =>
    \A m \in ToSet(offer) : \A d \in ToSet(Requirements(m)) :
      d.name \in Managed \/ ModelOf(d) \in broken \/ After(d.name) >= d.low

\* CollectModelsToImport: the models of a tree are collected "dependencies first".
DependenciesFirst ==
  Fresh =>
    \A i, j \in DOMAIN offer :
      (\E d \in ToSet(Requirements(offer[i])) : d.name = offer[j].name) => j < i

\* EvaluateImportSetBlockersAsync: a blueprint is judged with "the same set the
\* import dialog" judges, though it merges a set per root where the dialog collects
\* over all roots.  Wherever the dialog offers anything, it offers nothing that
\* escapes the judgement, and the sets are the same unless the dialog leaves out a
\* root or the tenant has models that do not resolve.
BlueprintAgrees ==
  Fresh =>
    /\ \A m \in ToSet(offer) :
         \E u \in ToSet(UpdateSet(roots)) : u.name = m.name /\ u.version >= m.version
    /\ broken = {} /\ (\A m \in ToSet(roots) : m \in ToSet(ImportSet(<<m>>, Installed))) =>
         ToSet(UpdateSet(roots)) = ToSet(offer)
=============================================================================
