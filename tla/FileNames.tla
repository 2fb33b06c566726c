----------------------------- MODULE FileNames ------------------------------
(***************************************************************************)
(* Unique sibling names and the folder tree of the platform file system:   *)
(* uploads (FilesController, FileSystemService) and the file system rules  *)
(* on the generic mutations (FileSystemMutationGuard), over the name lock  *)
(* that SiblingLocks promises.                                             *)
(*                                                                         *)
(* A request reads in two ways: through its own session, whose transaction *)
(* sees the snapshot of its first operation and its own writes, and        *)
(* through an unfiltered session, which sees what is committed.  A write   *)
(* to a document that another transaction wrote in the meantime fails; new *)
(* documents never conflict, which is why the names need a lock.           *)
(***************************************************************************)
EXTENDS Naturals, Sequences, FiniteSets

CONSTANTS
  Session,    \* requests
  ReplicaOf,  \* the replica a request runs on
  OldNode,    \* roots, folders and files there from the start
  Stem,       \* names, spelled in one case, without the suffix of a copy
  MaxCopy,    \* bound: copies "a (1)", "a (2)", ... of a name
  MaxNew,     \* bound: entries one request creates
  NoNode,     \* parent of a root; an unchanged parent
  NoName,     \* an unchanged name
  Initial,    \* the entries of OldNode
  Request     \* the requests that may be made: sequences of changes

VARIABLES
  tree,       \* tree[n]: the committed entry of n
  asked,      \* asked[s]: the request s makes
  todo,       \* todo[s]: its changes not carried out yet
  pc,         \* pc[s]: what s does next for the first of them
  place,      \* place[s]: the container it changes
  name,       \* name[s]: the name the entry gets there
  target,     \* target[s]: existing entries it writes
  view,       \* view[s]: the tree as the transaction of s sees it
  begun,      \* begun[s]: the transaction has its snapshot
  touched,    \* touched[s]: documents the transaction has written
  stale,      \* stale[s]: documents others committed after the snapshot
  owned, shared, open

New(s) == {<<s, i>> : i \in 1..MaxNew}
Node == OldNode \cup UNION {New(s) : s \in Session}
Name == Stem \X (0..MaxCopy)

\* What one upload asks for, and one field of a mutation.  They address entries by
\* their ids, which a client knows of entries that are there: the server makes them.
Upload ==
  [op : {"put"}, in : OldNode, name : Name, mode : {"fail", "replace", "keepBoth"}]
  \cup [op : {"putPath"}, in : OldNode, path : Seq(Name), name : Name,
        mode : {"fail", "replace", "keepBoth"}, create : BOOLEAN]
  \cup [op : {"putById"}, id : OldNode]

Field ==
  [op : {"create"}, in : OldNode, name : Name, kind : {"folder", "file"}]
  \cup [op : {"update"}, id : OldNode, name : Name \cup {NoName},
        from : OldNode \cup {NoNode}, to : OldNode \cup {NoNode}]
  \cup [op : {"delete"}, id : OldNode]

Locks == INSTANCE SiblingLocks WITH Key <- Node \X Name

lockVars == <<owned, shared, open>>
txVars == <<view, begun, touched, stale>>
changeVars == <<place, name, target>>
vars == <<tree, asked, todo, pc, changeVars, txVars, lockVars>>

Absent == [kind |-> "none", parent |-> NoNode, name |-> NoName]
Entry == [kind : {"folder", "file"}, parent : Node \cup {NoNode}, name : Name] \cup {Absent}

ASSUME BoundAssumption == MaxCopy \in Nat /\ MaxNew \in Nat
ASSUME NodeAssumption ==
  /\ NoNode \notin Node /\ NoName \notin Name
  /\ \A s \in Session : New(s) \cap OldNode = {}
ASSUME InitialAssumption ==
  /\ \A n \in OldNode : Initial[n] \in Entry
  /\ \A m, n \in OldNode :
       m # n /\ Initial[m] # Absent /\ Initial[n] # Absent /\ Initial[m].parent # NoNode =>
         <<Initial[m].parent, Initial[m].name>> # <<Initial[n].parent, Initial[n].name>>
\* Folders hold entries, files do not, and the folders that there are form trees; an
\* entry may have lost its folder.
ASSUME FirstTreeAssumption ==
  /\ \A n \in OldNode : Initial[n].parent # NoNode =>
       Initial[n].parent \in OldNode /\ Initial[Initial[n].parent].kind # "file"
  /\ \A loop \in SUBSET OldNode :
       loop # {} => \E n \in loop : Initial[n].parent \notin loop
ASSUME RequestAssumption ==
  \A r \in Request :
    \/ r \in Seq(Upload) /\ Len(r) = 1
    \/ r \in Seq(Field) /\ Len(r) > 0

\* An entry is one document, its place in the tree another (an association).
Documents(nodes) == nodes \X {"entry", "link"}

Writing == {"insertFolder", "insert", "update", "replace", "erase"}
InSession == {"walk", "visible", "next"} \cup Writing
PC == {"start", "hold", "begin", "change", "checkFolder", "ancestors", "grant",
       "share", "check", "release", "done"} \cup InSession

TypeOK ==
  /\ tree \in [Node -> Entry]
  /\ view \in [Session -> [Node -> Entry]]
  /\ pc \in [Session -> PC]
  /\ place \in [Session -> Node \cup {NoNode}]
  /\ name \in [Session -> Name \cup {NoName}]
  /\ target \in [Session -> SUBSET Node]
  /\ begun \in [Session -> BOOLEAN]
  /\ touched \in [Session -> SUBSET Documents(Node)]
  /\ stale \in [Session -> SUBSET Documents(Node)]
  /\ asked \in [Session -> Request]
  /\ todo \in [Session -> Seq(Upload \cup Field)]
  /\ Locks!LockTypeOK

NoTree == [n \in Node |-> Absent]

FirstTree == [n \in Node |-> IF n \in OldNode THEN Initial[n] ELSE Absent]

Init ==
  /\ tree = FirstTree
  /\ asked \in [Session -> Request]
  /\ todo = asked
  /\ pc = [s \in Session |-> "start"]
  /\ place = [s \in Session |-> NoNode]
  /\ name = [s \in Session |-> NoName]
  /\ target = [s \in Session |-> {}]
  /\ view = [s \in Session |-> NoTree]
  /\ begun = [s \in Session |-> FALSE]
  /\ touched = [s \in Session |-> {}]
  /\ stale = [s \in Session |-> {}]
  /\ Locks!LockInit

Change(s) == Head(todo[s])
Uploads(s) == Head(asked[s]).op \in {"put", "putPath", "putById"}

Children(t, p, n) == {c \in Node : t[c] # Absent /\ t[c].parent = p /\ t[c].name = n}
IsFolder(t, p) == p \in Node /\ t[p].kind = "folder"

\* p and everything above it in the tree t: what is in every set that has p and the
\* parents of its members.
Above(t, p) ==
  {n \in Node : \A up \in SUBSET Node :
     p \in up /\ (\A m \in up : t[m].parent \in up \cup {NoNode}) => n \in up}

\* What is there of p and of everything below it.
Below(t, p) ==
  LET there == {n \in Node : t[n] # Absent}
  IN {n \in there : \A down \in SUBSET there :
        (\A m \in there : m = p \/ t[m].parent \in down \cup {p} => m \in down) => n \in down}

\* There are no entries each of which has its parent among them.
Acyclic(t) ==
  \A loop \in SUBSET {n \in Node : t[n].parent # NoNode} :
    loop # {} => \E n \in loop : t[n].parent \notin loop

Goto(s, label) == pc' = [pc EXCEPT ![s] = label]

\* The transaction of s is over: its writes are gone from everybody's sight.
Close(s) ==
  /\ view' = [view EXCEPT ![s] = NoTree]
  /\ begun' = [begun EXCEPT ![s] = FALSE]
  /\ touched' = [touched EXCEPT ![s] = {}]
  /\ stale' = [stale EXCEPT ![s] = {}]

\* An upload that fails releases its names before its transaction is aborted,
\* a mutation aborts first.
Fail(s) ==
  /\ Goto(s, "release")
  /\ \/ Uploads(s) /\ UNCHANGED <<txVars, lockVars>>
     \/ ~Uploads(s) /\ Close(s) /\ Locks!End(s)
  /\ UNCHANGED <<tree, asked, todo, changeVars>>

-----------------------------------------------------------------------------
(***************************************************************************)
(* Uploads: FilesController, FileSystemService.                            *)
(***************************************************************************)

Begin(s) == Locks!Begin(s) /\ UNCHANGED <<tree, asked, txVars>>

\* The lock of the name n in p comes next, unless s holds it already.
Lock(s, p, n) ==
  /\ place' = [place EXCEPT ![s] = p]
  /\ name' = [name EXCEPT ![s] = n]
  /\ Goto(s, IF <<p, n>> \in owned[s] THEN "check" ELSE "grant")

\* Upload into a folder that is addressed by id: it is looked up before the
\* transaction is started.
PutIntoFolder(s) ==
  /\ pc[s] = "start"
  /\ Change(s).op = "put"
  /\ \/ /\ IsFolder(tree, Change(s).in)
        /\ Begin(s)
        /\ Lock(s, Change(s).in, Change(s).name)
        /\ UNCHANGED <<todo, target>>
     \/ ~IsFolder(tree, Change(s).in) /\ Fail(s)

\* New content for a file addressed by id: the document is read before the
\* transaction is started, and written with the name it had then.
PutById(s) ==
  LET id == Change(s).id
  IN /\ pc[s] = "start"
     /\ Change(s).op = "putById"
     /\ \/ /\ tree[id].kind = "file"
           /\ Begin(s)
           /\ target' = [target EXCEPT ![s] = {id}]
           /\ name' = [name EXCEPT ![s] = tree[id].name]
           /\ Goto(s, "replace")
           /\ UNCHANGED <<todo, place>>
        \/ tree[id].kind # "file" /\ Fail(s)

\* FindFirstMissingFolderKeyAsync: the first folder of the path that is not
\* committed yet; none when the path exists or cannot be walked.
FirstMissing(s) ==
  LET path == Change(s).path
      at[i \in 0..Len(path)] ==
        IF i = 0 THEN Change(s).in
        ELSE LET found == {c \in Node : at[i - 1] # NoNode /\ c \in Children(tree, at[i - 1], path[i])}
             IN IF Cardinality(found) = 1 THEN CHOOSE c \in found : TRUE ELSE NoNode
  IN {<<at[i - 1], path[i]>> : i \in {j \in 1..Len(path) :
        IsFolder(tree, at[j - 1]) /\ Children(tree, at[j - 1], path[j]) = {}}}

\* Upload by path with createFolders: the name of the first missing folder is
\* locked before the transaction is started, and without a tenant id.
HoldFirstMissing(s) ==
  /\ pc[s] = "start"
  /\ Change(s).op = "putPath"
  /\ Change(s).create
  /\ \E k \in FirstMissing(s) :
       place' = [place EXCEPT ![s] = k[1]] /\ name' = [name EXCEPT ![s] = k[2]]
  /\ Goto(s, "hold")
  /\ UNCHANGED <<tree, asked, todo, target, txVars, lockVars>>

Hold(s) ==
  /\ pc[s] = "hold"
  /\ Locks!Grant(s, <<place[s], name[s]>>)
  /\ Goto(s, "begin")
  /\ UNCHANGED <<tree, asked, todo, changeVars, txVars>>

BeginPath(s) ==
  /\ \/ pc[s] = "begin"
     \/ pc[s] = "start" /\ Change(s).op = "putPath" /\ (Change(s).create => FirstMissing(s) = {})
  /\ Begin(s)
  /\ place' = [place EXCEPT ![s] = Change(s).in]
  /\ Goto(s, "walk")
  /\ UNCHANGED <<todo, name, target>>

\* The first operation of a session in its transaction takes the snapshot.
Snapshot(s) ==
  /\ pc[s] \in InSession
  /\ s \in open
  /\ ~begun[s]
  /\ begun' = [begun EXCEPT ![s] = TRUE]
  /\ view' = [view EXCEPT ![s] = tree]
  /\ UNCHANGED <<tree, asked, todo, pc, changeVars, touched, stale, lockVars>>

StepDown(s) == todo' = [todo EXCEPT ![s][1].path = Tail(@)]

\* ResolveFolderAsync, segment by segment: an existing folder is entered, a
\* missing one created if the request says so; at the end the file name is locked.
Walk(s) ==
  LET path == Change(s).path
      found == Children(view[s], place[s], path[1])
  IN /\ pc[s] = "walk"
     /\ begun[s]
     /\ \/ /\ path = <<>>
           /\ Lock(s, place[s], Change(s).name)
           /\ UNCHANGED <<todo, target>>
        \/ /\ path # <<>>
           /\ Cardinality(found) = 1 /\ \A c \in found : IsFolder(view[s], c)
           /\ place' = [place EXCEPT ![s] = CHOOSE c \in found : TRUE]
           /\ StepDown(s)
           /\ UNCHANGED <<pc, name, target>>
        \/ /\ path # <<>>
           /\ found = {} /\ Change(s).create
           /\ name' = [name EXCEPT ![s] = path[1]]
           /\ Goto(s, "checkFolder")
           /\ UNCHANGED <<todo, place, target>>
     /\ UNCHANGED <<tree, asked, txVars, lockVars>>

WalkFails(s) ==
  LET path == Change(s).path
      found == Children(view[s], place[s], path[1])
  IN /\ pc[s] = "walk"
     /\ begun[s]
     /\ path # <<>>
     /\ \/ Cardinality(found) > 1
        \/ found = {} /\ ~Change(s).create
        \/ \E c \in found : ~IsFolder(view[s], c)
     /\ Fail(s)

\* CreateFolderAsync checks the committed siblings; the name is not locked.
CheckFolder(s) ==
  /\ pc[s] = "checkFolder"
  /\ \/ /\ Children(tree, place[s], name[s]) = {}
        /\ Goto(s, "insertFolder")
        /\ UNCHANGED <<tree, asked, todo, changeVars, txVars, lockVars>>
     \/ Children(tree, place[s], name[s]) # {} /\ Fail(s)

\* NextFreeName: the first of "a (1)", "a (2)", ... that is free; MaxCopy bounds them.
NextFreeName(n, taken) ==
  {m \in Name :
     /\ m[1] = n[1] /\ m[2] > 0 /\ m \notin taken
     /\ \A i \in 1..(m[2] - 1) : <<n[1], i>> \in taken}

\* UploadAsync: what becomes of the names that are there already.
CheckUpload(s) ==
  LET existing == Children(tree, place[s], name[s])
      taken == {tree[c].name : c \in {n \in Node : tree[n] # Absent /\ tree[n].parent = place[s]}}
      Replaces == /\ Change(s).mode = "replace"
                  /\ Cardinality(existing) = 1
                  /\ \A c \in existing : tree[c].kind = "file"
  IN /\ pc[s] = "check"
     /\ Uploads(s)
     /\ \/ /\ existing = {}
           /\ Goto(s, "insert")
           /\ UNCHANGED <<name, target>>
        \/ /\ existing # {} /\ Replaces
           /\ target' = [target EXCEPT ![s] = existing]
           /\ Goto(s, "replace")
           /\ UNCHANGED name
        \/ /\ existing # {} /\ Change(s).mode = "keepBoth"
           /\ \E free \in NextFreeName(name[s], taken) : name' = [name EXCEPT ![s] = free]
           /\ Goto(s, "insert")
           /\ UNCHANGED target
        \/ /\ existing # {} /\ ~Replaces /\ Change(s).mode # "keepBoth"
           /\ Goto(s, "release")
           /\ UNCHANGED <<name, target>>
     /\ UNCHANGED <<tree, asked, todo, place, txVars, lockVars>>

-----------------------------------------------------------------------------
(***************************************************************************)
(* Mutations: OctoSessionListener, FileSystemMutationGuard.                *)
(***************************************************************************)

BeginMutation(s) ==
  /\ pc[s] = "start"
  /\ ~Uploads(s)
  /\ Begin(s)
  /\ Goto(s, "change")
  /\ UNCHANGED <<todo, changeVars>>

\* BeforeCreateAsync.
Create(s) ==
  /\ pc[s] = "change"
  /\ Change(s).op = "create"
  /\ place' = [place EXCEPT ![s] = Change(s).in]
  /\ name' = [name EXCEPT ![s] = Change(s).name]
  /\ target' = [target EXCEPT ![s] = {}]
  /\ Goto(s, "visible")
  /\ UNCHANGED <<tree, asked, todo, txVars, lockVars>>

\* CheckExistingEntriesAsync: the committed entry says which name in which
\* folder the update leads to.  A move must take away the parent there is; a
\* name that stays needs no lock.  A root has no folder and stays without one; a
\* missing entry is left to the engine.
Update(s) ==
  LET change == Change(s)
      current == tree[change.id]
      moves == change.to # NoNode
      newName == IF change.name = NoName THEN current.name ELSE change.name
      Allowed == moves => current.parent # NoNode /\ change.from = current.parent
  IN /\ pc[s] = "change"
     /\ change.op = "update"
     /\ \/ /\ current = Absent \/ Allowed
           /\ target' = [target EXCEPT ![s] = {change.id}]
           /\ \/ /\ current # Absent /\ moves
                 /\ place' = [place EXCEPT ![s] = change.to]
                 /\ name' = [name EXCEPT ![s] = newName]
                 /\ Goto(s, "visible")
              \/ /\ current.parent # NoNode /\ ~moves /\ newName # current.name
                 /\ Lock(s, current.parent, newName)
              \/ /\ current = Absent \/ (~moves /\ (newName = current.name \/ current.parent = NoNode))
                 /\ Goto(s, "update")
                 /\ UNCHANGED <<place, name>>
           /\ UNCHANGED <<tree, asked, todo, txVars, lockVars>>
        \/ current # Absent /\ ~Allowed /\ Fail(s)

\* Faulty variant of Visible: the name in the new folder is not locked.
VisibleUnlocked(s) ==
  /\ pc[s] = "visible"
  /\ begun[s]
  /\ IsFolder(view[s], place[s])
  /\ Goto(s, "check")
  /\ UNCHANGED <<tree, asked, todo, changeVars, txVars, lockVars>>

\* EnsureVisibleContainerAsync, in the session of the caller.
Visible(s) ==
  /\ pc[s] = "visible"
  /\ begun[s]
  /\ \/ /\ IsFolder(view[s], place[s])
        /\ \/ /\ Change(s).op = "update" /\ \A n \in target[s] : tree[n].kind = "folder"
              /\ Goto(s, "ancestors")
              /\ UNCHANGED <<place, name>>
           \/ /\ ~(Change(s).op = "update" /\ \A n \in target[s] : tree[n].kind = "folder")
              /\ Lock(s, place[s], name[s])
        /\ UNCHANGED <<tree, asked, todo, target, txVars, lockVars>>
     \/ ~IsFolder(view[s], place[s]) /\ Fail(s)

\* Faulty variant of NotBelowItself: only the new folder itself is compared.
NotIntoItself(s) ==
  /\ pc[s] = "ancestors"
  /\ \/ /\ place[s] \notin target[s]
        /\ Lock(s, place[s], name[s])
        /\ UNCHANGED <<tree, asked, todo, target, txVars, lockVars>>
     \/ place[s] \in target[s] /\ Fail(s)

\* EnsureNotOwnDescendantAsync, over the committed tree.
NotBelowItself(s) ==
  /\ pc[s] = "ancestors"
  /\ \/ /\ target[s] \cap Above(tree, place[s]) = {}
        /\ Lock(s, place[s], name[s])
        /\ UNCHANGED <<tree, asked, todo, target, txVars, lockVars>>
     \/ target[s] \cap Above(tree, place[s]) # {} /\ Fail(s)

\* Faulty variant of CheckName: the name is looked for in the snapshot of the caller.
CheckNameInSession(s) ==
  LET seen == IF begun[s] THEN view[s] ELSE tree
      others == Children(seen, place[s], name[s]) \ target[s]
  IN /\ pc[s] = "check"
     /\ ~Uploads(s)
     /\ \/ /\ others = {}
           /\ Goto(s, IF Change(s).op = "create" THEN "insert" ELSE "update")
           /\ UNCHANGED <<tree, asked, todo, changeVars, txVars, lockVars>>
        \/ others # {} /\ Fail(s)

\* EnsureNameFreeAsync, over the committed tree.
CheckName(s) ==
  LET others == Children(tree, place[s], name[s]) \ target[s]
  IN /\ pc[s] = "check"
     /\ ~Uploads(s)
     /\ \/ /\ others = {}
           /\ Goto(s, IF Change(s).op = "create" THEN "insert" ELSE "update")
           /\ UNCHANGED <<tree, asked, todo, changeVars, txVars, lockVars>>
        \/ others # {} /\ Fail(s)

\* ExpandDeleteAsync, over the committed tree.
Delete(s) ==
  LET id == Change(s).id
  IN /\ pc[s] = "change"
     /\ Change(s).op = "delete"
     /\ target' = [target EXCEPT ![s] = Below(tree, id) \cup {id}]
     /\ Goto(s, "erase")
     /\ UNCHANGED <<tree, asked, todo, place, name, txVars, lockVars>>

-----------------------------------------------------------------------------
(***************************************************************************)
(* The name lock, seen from its callers.                                   *)
(***************************************************************************)

Key(s) == <<place[s], name[s]>>

\* Faulty variant of GrantName: nobody waits for the name.
GrantNameToAll(s) ==
  /\ pc[s] = "grant"
  /\ Goto(s, "check")
  /\ UNCHANGED <<tree, asked, todo, changeVars, txVars, lockVars>>

GrantName(s) ==
  /\ pc[s] = "grant"
  /\ Locks!Grant(s, Key(s))
  /\ Goto(s, "share")
  /\ UNCHANGED <<tree, asked, todo, changeVars, txVars>>

ShareName(s) ==
  /\ pc[s] = "share"
  /\ Locks!Share(s, Key(s))
  /\ Goto(s, "check")
  /\ UNCHANGED <<tree, asked, todo, changeVars, txVars>>

\* The wait times out, or the lease store fails.
LockFails(s) ==
  /\ pc[s] \in {"hold", "grant", "share"}
  /\ Fail(s)

-----------------------------------------------------------------------------
(***************************************************************************)
(* Writes in the transaction of the caller.                                *)
(***************************************************************************)

\* Documents an update writes: the entry for a name, the association for a move.
UpdateDocuments(s) ==
  {d \in Documents(target[s]) :
     \/ d[2] = "entry" /\ Change(s).name # NoName
     \/ d[2] = "link" /\ Change(s).to # NoNode}

Written(s) ==
  CASE pc[s] = "update" -> UpdateDocuments(s)
    [] pc[s] = "replace" -> target[s] \X {"entry"}
    [] pc[s] = "erase" -> Documents(target[s])
    [] OTHER -> {}

\* Documents s cannot write: another open transaction has written them, or
\* committed them after the snapshot of s.
Conflicting(s) == stale[s] \cup UNION {touched[t] : t \in open \ {s}}

\* What the engine checks in the transaction: the folder of a new entry, the
\* entries to be changed and the association to be taken away are there.
Possible(s) ==
  /\ Written(s) \cap Conflicting(s) = {}
  /\ pc[s] \in {"insert", "insertFolder"} => IsFolder(view[s], place[s])
  /\ \A n \in target[s] : pc[s] \in {"update", "replace", "erase"} => view[s][n] # Absent
  /\ pc[s] = "update" /\ Change(s).to # NoNode =>
       \A n \in target[s] : view[s][n].parent = Change(s).from

\* The entries take the place of those in the view of the transaction.
Writes(s, from, entries, docs) ==
  /\ pc[s] = from
  /\ s \in open /\ begun[s]
  /\ Possible(s)
  /\ view' = [view EXCEPT ![s] = [n \in Node |-> IF n \in DOMAIN entries THEN entries[n] ELSE @[n]]]
  /\ touched' = [touched EXCEPT ![s] = @ \cup docs]
  /\ UNCHANGED <<tree, asked, begun, stale, lockVars>>

\* The id of the next entry that s creates; MaxNew bounds them.
NewNode(s) == {n \in New(s) :
  /\ <<n, "entry">> \notin touched[s]
  /\ \A i \in 1..(n[2] - 1) : <<<<s, i>>, "entry">> \in touched[s]}

InsertFolder(s) ==
  LET folder == [kind |-> "folder", parent |-> place[s], name |-> name[s]]
  IN /\ \E n \in NewNode(s) :
          /\ Writes(s, "insertFolder", [m \in {n} |-> folder], Documents({n}))
          /\ place' = [place EXCEPT ![s] = n]
     /\ StepDown(s)
     /\ Goto(s, "walk")
     /\ UNCHANGED <<name, target>>

Insert(s) ==
  LET entry == [kind |-> IF Uploads(s) THEN "file" ELSE Change(s).kind,
                parent |-> place[s], name |-> name[s]]
  IN /\ \E n \in NewNode(s) :
          Writes(s, "insert", [m \in {n} |-> entry], Documents({n}))
     /\ Goto(s, "next")
     /\ UNCHANGED <<todo, changeVars>>

\* Faulty variant of UpdateEntry: a name that is not given is stored all the same.
UpdateEntryAsGiven(s) ==
  LET entry(n) ==
        [view[s][n] EXCEPT !.name = Change(s).name,
                           !.parent = IF Change(s).to = NoNode THEN @ ELSE Change(s).to]
  IN /\ Writes(s, "update", [n \in target[s] |-> entry(n)], UpdateDocuments(s))
     /\ Goto(s, "next")
     /\ UNCHANGED <<todo, changeVars>>

UpdateEntry(s) ==
  LET entry(n) ==
        [view[s][n] EXCEPT !.name = IF Change(s).name = NoName THEN @ ELSE Change(s).name,
                           !.parent = IF Change(s).to = NoNode THEN @ ELSE Change(s).to]
  IN /\ Writes(s, "update", [n \in target[s] |-> entry(n)], UpdateDocuments(s))
     /\ Goto(s, "next")
     /\ UNCHANGED <<todo, changeVars>>

\* ReplaceContentAsync: the document is stored as it was read, with new content.
Replace(s) ==
  LET entries == [n \in target[s] |-> [view[s][n] EXCEPT !.name = name[s]]]
  IN /\ Writes(s, "replace", entries, target[s] \X {"entry"})
     /\ Goto(s, "next")
     /\ UNCHANGED <<todo, changeVars>>

Erase(s) ==
  /\ Writes(s, "erase", [n \in target[s] |-> Absent], Documents(target[s]))
  /\ Goto(s, "next")
  /\ UNCHANGED <<todo, changeVars>>

WriteFails(s) ==
  /\ pc[s] \in Writing
  /\ begun[s]
  /\ ~Possible(s)
  /\ Fail(s)

\* The next root field of the mutation.
NextChange(s) ==
  /\ pc[s] = "next"
  /\ Len(todo[s]) > 1
  /\ todo' = [todo EXCEPT ![s] = Tail(@)]
  /\ Goto(s, "change")
  /\ UNCHANGED <<tree, asked, changeVars, txVars, lockVars>>

\* The documents s has written replace the committed ones.
Merged(s) ==
  [n \in Node |->
     LET entry == <<n, "entry">> \in touched[s]
         link == <<n, "link">> \in touched[s]
     IN IF entry /\ link THEN view[s][n]
        ELSE IF entry THEN [view[s][n] EXCEPT !.parent = tree[n].parent]
        ELSE IF link THEN [tree[n] EXCEPT !.parent = view[s][n].parent]
        ELSE tree[n]]

Commit(s) ==
  /\ pc[s] = "next"
  /\ Len(todo[s]) = 1
  /\ s \in open
  /\ tree' = Merged(s)
  /\ Locks!End(s)
  /\ view' = [view EXCEPT ![s] = NoTree]
  /\ begun' = [begun EXCEPT ![s] = FALSE]
  /\ touched' = [touched EXCEPT ![s] = {}]
  /\ stale' = [t \in Session |-> IF t # s /\ begun[t] THEN stale[t] \cup touched[s] ELSE {}]
  /\ Goto(s, "release")
  /\ UNCHANGED <<asked, todo, changeVars>>

\* The server has aborted the transaction: its next operation fails.
SessionFails(s) ==
  /\ pc[s] \in InSession
  /\ s \notin open
  /\ Fail(s)

TxLimitAbort(s) ==
  /\ s \in open /\ begun[s]
  /\ Locks!End(s)
  /\ Close(s)
  /\ UNCHANGED <<tree, asked, todo, pc, changeVars>>

-----------------------------------------------------------------------------
ReleaseName(s, k) ==
  /\ pc[s] = "release"
  /\ k \in owned[s]
  /\ IF k \in shared[s] THEN Locks!Unshare(s, k) ELSE Locks!Give(s, k)
  /\ UNCHANGED <<tree, asked, todo, pc, changeVars, txVars>>

\* The variables of a request that has ended are gone.
Forget(sessions) ==
  /\ todo' = [s \in Session |-> IF s \in sessions THEN <<>> ELSE todo[s]]
  /\ place' = [s \in Session |-> IF s \in sessions THEN NoNode ELSE place[s]]
  /\ name' = [s \in Session |-> IF s \in sessions THEN NoName ELSE name[s]]
  /\ target' = [s \in Session |-> IF s \in sessions THEN {} ELSE target[s]]

Finish(s) ==
  /\ pc[s] = "release"
  /\ owned[s] = {}
  /\ Locks!End(s)
  /\ Close(s)
  /\ Forget({s})
  /\ Goto(s, "done")
  /\ UNCHANGED <<tree, asked>>

\* The process of a replica ends; MongoDB aborts the transactions it had.
Crash(r) ==
  LET dying == {s \in Session : ReplicaOf[s] = r /\ pc[s] \notin {"start", "done"}}
  IN /\ dying # {}
     /\ pc' = [s \in Session |-> IF s \in dying THEN "done" ELSE pc[s]]
     /\ view' = [s \in Session |-> IF s \in dying THEN NoTree ELSE view[s]]
     /\ begun' = [s \in Session |-> begun[s] /\ s \notin dying]
     /\ touched' = [s \in Session |-> IF s \in dying THEN {} ELSE touched[s]]
     /\ stale' = [s \in Session |-> IF s \in dying THEN {} ELSE stale[s]]
     /\ Locks!Crash(r)
     /\ Forget(dying)
     /\ UNCHANGED <<tree, asked>>

UploadStep(s) ==
  \/ PutIntoFolder(s) \/ PutById(s) \/ HoldFirstMissing(s) \/ Hold(s) \/ BeginPath(s)
  \/ Walk(s) \/ WalkFails(s) \/ CheckFolder(s) \/ InsertFolder(s) \/ CheckUpload(s)

MutationStep(s) ==
  \/ BeginMutation(s) \/ Create(s) \/ Update(s) \/ Delete(s) \/ Visible(s)
  \/ NotBelowItself(s) \/ CheckName(s) \/ UpdateEntry(s) \/ Erase(s) \/ NextChange(s)

RequestStep(s) ==
  \/ Snapshot(s) \/ GrantName(s) \/ ShareName(s) \/ LockFails(s)
  \/ Insert(s) \/ Replace(s) \/ WriteFails(s) \/ Commit(s) \/ SessionFails(s)
  \/ \E k \in owned[s] : ReleaseName(s, k)
  \/ Finish(s)

Finished ==
  /\ \A s \in Session : pc[s] = "done"
  /\ UNCHANGED vars

Next ==
  \/ \E s \in Session : UploadStep(s) \/ MutationStep(s) \/ RequestStep(s) \/ TxLimitAbort(s)
  \/ \E s \in Session : Crash(ReplicaOf[s])
  \/ Finished

Spec == Init /\ [][Next]_vars

-----------------------------------------------------------------------------
(***************************************************************************)
(* Properties.                                                             *)
(***************************************************************************)

\* "Names are unique per parent (case-insensitive) on create, rename and move":
\* no two committed entries of a folder have the same name.
UniqueNames ==
  \A m, n \in Node :
    m # n /\ tree[m] # Absent /\ tree[n] # Absent /\ tree[m].parent # NoNode =>
      <<tree[m].parent, tree[m].name>> # <<tree[n].parent, tree[n].name>>

\* "A folder cannot move into itself or below itself": no committed folder is
\* above itself, where no path from a root would reach it.
NoFolderCycle == Acyclic(tree)
=============================================================================
