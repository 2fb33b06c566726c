---------------------------- MODULE FileNamesInv ----------------------------
(***************************************************************************)
(* Why names stay unique, and why folders stay trees: the requests for     *)
(* which the code keeps them so, and the inductive invariants behind       *)
(* UniqueNames and NoFolderCycle.                                          *)
(***************************************************************************)
EXTENDS FileNames

Changes == UNION {{r[i] : i \in 1..Len(r)} : r \in Request}

IsRename(c) == c.op = "update" /\ c.name # NoName
IsMove(c) == c.op = "update" /\ c.to # NoNode

\* The entries that somebody may rename.
Renamed == {c.id : c \in {d \in Changes : IsRename(d)}}

\* Two fields of a mutation lead to different names or into different folders.
Apart(c, d) ==
  LET Goes(e) == e.op = "create" \/ IsRename(e) \/ IsMove(e)
      NameKnown(e) == e.op = "create" \/ IsRename(e)
      Folder(e) == IF e.op = "create" THEN e.in ELSE e.to
      FolderKnown(e) == e.op = "create" \/ IsMove(e)
  IN Goes(c) /\ Goes(d) =>
       \/ NameKnown(c) /\ NameKnown(d) /\ c.name # d.name
       \/ FolderKnown(c) /\ FolderKnown(d) /\ Folder(c) # Folder(d)

\* The requests for which the lock is enough: no upload looks for another name or
\* creates folders, the fields of a mutation do not meet, and an entry that is
\* renamed always gets the same name, stays in its folder, and is not overwritten.
Steady ==
  /\ \A c \in Changes :
       /\ c.op \in {"put", "putPath"} => c.mode # "keepBoth"
       /\ c.op = "putPath" => ~c.create
  /\ \A r \in Request : \A i, j \in 1..Len(r) : i # j => Apart(r[i], r[j])
  /\ \A c, d \in Changes : IsRename(c) =>
       /\ d.op = "update" /\ d.id = c.id => d.to = NoNode /\ d.name \in {c.name, NoName}
       /\ d.op = "putById" => d.id # c.id
       /\ d.op \in {"put", "putPath"} => d.mode # "replace"

-----------------------------------------------------------------------------
(***************************************************************************)
(* What holds for any requests.                                            *)
(***************************************************************************)

Ended(s) == pc[s] \in {"release", "done"}

\* What is left of a request: its upload, with the rest of the path, or its last fields.
TodoOK(s) ==
  ~Ended(s) =>
    IF Uploads(s)
    THEN /\ todo[s] \in Seq(Upload) /\ Len(todo[s]) = 1
         /\ LET was == asked[s][1]
            IN /\ Change(s).op = was.op
               /\ was.op = "putById" => Change(s).id = was.id
               /\ was.op # "putById" => Change(s).mode = was.mode
               /\ was.op = "putPath" => Change(s).create = was.create
    ELSE /\ todo[s] \in Seq(Field) /\ Len(todo[s]) \in 1..Len(asked[s])
         /\ \A i \in 1..Len(todo[s]) : todo[s][i] = asked[s][i + Len(asked[s]) - Len(todo[s])]

\* The key at hand is one.
KeyOK(s) ==
  /\ pc[s] \in {"hold", "walk", "checkFolder", "insertFolder", "visible", "ancestors",
                "grant", "share", "check", "insert"} => place[s] \in Node
  /\ pc[s] \in {"hold", "checkFolder", "insertFolder", "visible", "ancestors",
                "grant", "share", "check", "insert", "replace"} => name[s] \in Name

\* Which changes can be where.
StageOK(s) ==
  /\ pc[s] \in {"hold", "begin", "walk", "checkFolder", "insertFolder"} => Change(s).op = "putPath"
  /\ pc[s] \in {"checkFolder", "insertFolder"} => Change(s).path # <<>>
  /\ pc[s] \in {"grant", "share", "check"} => Change(s).op \in {"put", "putPath", "create", "update"}
  /\ pc[s] = "insert" => Change(s).op \in {"put", "putPath", "create"}
  /\ pc[s] = "replace" => Uploads(s)
  /\ pc[s] = "change" => ~Uploads(s)
  /\ pc[s] = "visible" => Change(s).op \in {"create", "update"}
  /\ pc[s] \in {"ancestors", "update"} => Change(s).op = "update"
  /\ pc[s] = "erase" => Change(s).op = "delete"

LocalInv == \A s \in Session : TodoOK(s) /\ KeyOK(s) /\ StageOK(s)

\* A name belongs to one request of a replica, and across replicas to one whose
\* transaction can still commit.
LockInv ==
  \A s, t \in Session : s # t =>
    /\ ReplicaOf[s] = ReplicaOf[t] => owned[s] \cap owned[t] = {}
    /\ s \in open /\ t \in open => shared[s] \cap shared[t] = {}

\* Only an open transaction has written, and no document that another one has.
TouchedInv ==
  \A s \in Session :
    /\ s \notin open \/ pc[s] \in {"start", "done"} => ~begun[s]
    /\ ~begun[s] => touched[s] = {}
    /\ \A t \in open \ {s} : touched[s] \cap touched[t] = {}

Touches(s, n) == Documents({n}) \cap touched[s] # {}

\* An entry is new to everybody else until its request has committed.
NewInv ==
  \A s \in Session : ~Ended(s) => \A n \in New(s) :
    /\ tree[n] = Absent
    /\ Touches(s, n) => Documents({n}) \subseteq touched[s]
    /\ \A t \in Session \ {s} : view[t][n] = Absent /\ ~Touches(t, n)
    /\ \A t \in Session : n \notin target[t]

\* What a transaction sees is still there, unless that is a conflict; what it has
\* written is there, or it has erased it as a whole.
ViewInv ==
  \A s \in open : begun[s] =>
    \A n \in Node \ New(s) :
      /\ tree[n] = Absent /\ view[s][n] # Absent => Documents({n}) \subseteq stale[s]
      /\ Touches(s, n) => tree[n] # Absent
      /\ Touches(s, n) /\ view[s][n] = Absent => Documents({n}) \subseteq touched[s]

-----------------------------------------------------------------------------
(***************************************************************************)
(* What holds for steady requests.                                         *)
(***************************************************************************)

\* Who has a name in its replica has it across the replicas, too.
OwnedOK(s) ==
  /\ pc[s] \notin {"hold", "begin", "checkFolder", "insertFolder"}
  /\ pc[s] = "start" => owned[s] = {} /\ shared[s] = {}
  /\ ~Ended(s) => owned[s] \subseteq shared[s] \cup (IF pc[s] = "share" THEN {Key(s)} ELSE {})
  /\ pc[s] \in {"check", "insert"} => Key(s) \in shared[s]

\* An open transaction renames only what may be renamed, moves only the rest.
WrittenOK(s) ==
  \A n \in Node \ New(s) : view[s][n] # Absent =>
    /\ <<n, "link">> \in touched[s] => n \notin Renamed
    /\ <<n, "entry">> \in touched[s] =>
         \/ view[s][n].name = tree[n].name
         \/ \E c \in Changes : IsRename(c) /\ c.id = n /\ view[s][n].name = c.name

\* An update without a lock: the entry keeps its name, or it has no folder, or it is gone.
StaysThere(c) == tree[c.id].parent # NoNode => c.name \in {NoName, tree[c.id].name}

\* Where the change c of an entry leads, as the handler of s has it.
Following == {"visible", "ancestors", "grant", "share", "check", "update"}
Leads(s, c) ==
  \/ IsMove(c) /\ place[s] = c.to /\ name[s] = tree[c.id].name
  \/ IsRename(c) /\ ~IsMove(c) /\ place[s] = tree[c.id].parent /\ name[s] = c.name
  \/ pc[s] = "update" /\ ~IsMove(c) /\ StaysThere(c)

\* What the handler knows of the entry it is about to change.
TargetOK(s) ==
  /\ Uploads(s) /\ ~Ended(s) /\ pc[s] \notin {"replace", "next"} => target[s] = {}
  /\ pc[s] = "replace" =>
       \A n \in target[s] : n \notin Renamed /\ (tree[n] # Absent => tree[n].name = name[s])
  /\ pc[s] \in Following \cup {"insert"} /\ Change(s).op = "create" =>
       target[s] = {} /\ place[s] = Change(s).in /\ name[s] = Change(s).name
  /\ pc[s] \in Following /\ Change(s).op = "update" =>
       /\ target[s] = {Change(s).id}
       /\ tree[Change(s).id] # Absent => Leads(s, Change(s))

\* What was checked is still so: nobody else gets the name.
CheckedOK(s) ==
  /\ pc[s] = "insert" => Children(tree, place[s], name[s]) = {}
  /\ pc[s] = "update" =>
       LET c == Change(s)
       IN \/ Key(s) \in shared[s] /\ Children(tree, place[s], name[s]) \subseteq target[s]
          \/ tree[c.id] = Absent \/ (~IsMove(c) /\ StaysThere(c))

\* What becomes of n when s commits, and where it is then.
Result(s, n) == Merged(s)[n]
Kept(s, n) ==
  tree[n] # Absent /\ Result(s, n).parent = tree[n].parent /\ Result(s, n).name = tree[n].name
Changed(s, n) ==
  Touches(s, n) /\ view[s][n] # Absent /\ Result(s, n).parent # NoNode /\ ~Kept(s, n)
Place(s, n) == <<Result(s, n).parent, Result(s, n).name>>

\* Whatever gets a new place has the lock of the place, and the place is free.
ClaimOK(s) ==
  \A n \in Node : Changed(s, n) =>
    /\ Place(s, n) \in shared[s]
    /\ Children(tree, Result(s, n).parent, Result(s, n).name) \subseteq {n}

\* The fields of the mutation of s that have been written.
FieldsDone(s) == 1..(Len(asked[s]) - Len(todo[s]) + (IF pc[s] = "next" THEN 1 ELSE 0))

\* The field c has led the entry n to where it is.
Led(c, s, n) ==
  \/ c.op = "create" /\ Place(s, n) = <<c.in, c.name>>
  \/ /\ IsRename(c) \/ IsMove(c)
     /\ IsRename(c) => Result(s, n).name = c.name
     /\ IsMove(c) => Result(s, n).parent = c.to

\* Every new place comes from a field of the mutation, so no two are the same; an
\* upload writes once, at its end.
OriginOK(s) ==
  /\ Ended(s) \/ (Uploads(s) /\ pc[s] # "next") => touched[s] = {}
  /\ ~Uploads(s) => \A n \in Node : Changed(s, n) => \E i \in FieldsDone(s) : Led(asked[s][i], s, n)
  /\ \A m, n \in Node : m # n /\ Changed(s, m) /\ Changed(s, n) => Place(s, m) # Place(s, n)

SteadyInv ==
  /\ \A s \in Session : OwnedOK(s) /\ TargetOK(s)
  /\ \A s \in open : WrittenOK(s) /\ CheckedOK(s) /\ ClaimOK(s) /\ OriginOK(s)

IInv ==
  /\ TypeOK /\ LocalInv /\ LockInv /\ TouchedInv /\ NewInv /\ ViewInv
  /\ SteadyInv /\ UniqueNames

-----------------------------------------------------------------------------
(***************************************************************************)
(* Why the folders stay a tree: the requests for which the walk over the   *)
(* ancestors is enough, and the inductive invariant behind NoFolderCycle.  *)
(***************************************************************************)

IsFile(n) == n \in OldNode /\ Initial[n].kind = "file"

\* The folders that somebody may move, and those that stay where they are with all
\* that is above them.
Moved == {c.id : c \in {d \in Changes : IsMove(d) /\ ~IsFile(d.id)}}
Fixed == {n \in OldNode : ~IsFile(n) /\ Above(FirstTree, n) \cap Moved = {}}

\* One folder alone is moved to where folders that are moved may be above it: nothing
\* locks a branch between the walk over the ancestors and the commit.
OneMover ==
  LET Deep(c) == IsMove(c) /\ ~IsFile(c.id) /\ c.to \notin Fixed
  IN \A c, d \in Changes : Deep(c) /\ Deep(d) => c.id = d.id

\* Files stay files and hold nothing; folders that nobody moves keep their parents.
PlainOK(t) ==
  /\ \A n \in Node : ~IsFile(t[n].parent)
  /\ \A n \in OldNode : t[n].kind \in {Initial[n].kind, "none"}
  /\ \A n \in Fixed : t[n].parent \in {Initial[n].parent, NoNode}

\* Somebody may move n to p, and it may go there: n is not above p.
MayGo(n, p) ==
  /\ \E c \in Changes : IsMove(c) /\ c.id = n /\ c.to = p
  /\ ~IsFile(p)
  /\ p \in Fixed \/ IsFile(n) \/ n \notin Above(tree, p)

\* Nothing of others is in the new folders of s before it has committed; they form a tree.
NewFoldersOK(s) ==
  /\ \A n \in Node : tree[n].parent \notin New(s)
  /\ \A t \in Session \ {s} : \A n \in Node : view[t][n].parent \notin New(s)
  /\ \A n \in Node : view[s][n].parent \in New(s) => Touches(s, view[s][n].parent)
  /\ \A n \in New(s) : ~Touches(s, n) => view[s][n] = Absent
  /\ \A loop \in SUBSET New(s) : loop # {} => \E n \in loop : view[s][n].parent \notin loop

\* What the handler of a move knows once it has walked over the ancestors.
GoingOK(s) ==
  pc[s] \in Following /\ IsMove(Change(s)) =>
    /\ target[s] = {Change(s).id}
    /\ pc[s] # "update" => place[s] = Change(s).to
    /\ pc[s] = "ancestors" => ~IsFile(Change(s).to)
    /\ pc[s] \in {"grant", "share", "check", "update"} =>
         tree[Change(s).id] = Absent \/ MayGo(Change(s).id, Change(s).to)

\* What a transaction has moved or erased.
GoneOK(s) ==
  \A n \in Node \ New(s) : <<n, "link">> \in touched[s] =>
    view[s][n].parent = NoNode \/ MayGo(n, view[s][n].parent)

FolderInv ==
  /\ PlainOK(tree)
  /\ \A s \in Session : PlainOK(view[s])
  /\ \A s \in Session : ~Ended(s) => NewFoldersOK(s) /\ GoingOK(s) /\ GoneOK(s)
  /\ NoFolderCycle
=============================================================================
