-------------------------- MODULE UniqueNamesProofs --------------------------
(***************************************************************************)
(* Names stay unique for steady requests, for all values of the constants. *)
(*                                                                         *)
(* A request that commits puts entries only where it has the name across   *)
(* the replicas and where nothing was when it looked (ClaimOK).  Nothing   *)
(* has come there since, because whoever else commits an entry there would *)
(* have the name, too (CommitChildren).                                    *)
(***************************************************************************)
EXTENDS FileNamesProofs

\* What the class says of the changes themselves.
LEMMA RenamedOnce ==
  ASSUME Steady, NEW c \in Changes
  PROVE  /\ IsRename(c) => c.id \in Renamed /\ ~IsMove(c)
         /\ IsMove(c) => c.id \notin Renamed /\ c.name = NoName
         /\ \A d \in Changes : IsRename(c) /\ IsRename(d) /\ c.id = d.id => c.name = d.name
<1>1. \A e, d \in Changes : IsRename(e) /\ d.op = "update" /\ d.id = e.id => d.to = NoNode /\ d.name \in {e.name, NoName}
  BY DEF Steady
<1>2. IsMove(c) => c.id \notin Renamed
  BY <1>1 DEF Renamed, IsMove
<1> QED BY <1>1, <1>2 DEF Renamed, IsRename, IsMove

\* What the class says of the change at hand.
LEMMA SteadyChange ==
  ASSUME Steady, TypeOK, NEW s \in Session, TodoOK(s), ~Ended(s)
  PROVE  LET c == Change(s)
             k == Len(asked[s]) - Len(todo[s]) + 1
         IN /\ Uploads(s) => /\ c.op # "putById" => c.mode # "keepBoth" /\ (c.mode = "replace" => Renamed = {})
                             /\ c.op = "putPath" => ~c.create
                             /\ c.op = "putById" => c.id \notin Renamed
            /\ ~Uploads(s) => k \in 1..Len(asked[s]) /\ c = asked[s][k] /\ c \in Changes
<1>0. asked[s] \in Request
  BY DEF TypeOK
<1>1. CASE Uploads(s)
  <2> DEFINE was == asked[s][1]
  <2>1. Len(asked[s]) = 1 /\ was \in Upload
    BY <1>0, <1>1, RequestType DEF Uploads
  <2>2. was \in Changes
    BY <1>0, <2>1, InChanges
  <2>3. /\ Change(s).op = was.op /\ (was.op = "putById" => Change(s).id = was.id)
        /\ (was.op # "putById" => Change(s).mode = was.mode) /\ (was.op = "putPath" => Change(s).create = was.create)
    BY <1>1 DEF TodoOK
  <2>4. was.op \in {"put", "putPath", "putById"}
    BY <2>1 DEF Upload
  <2> HIDE DEF was
  <2>5. /\ was.op # "putById" => was.mode # "keepBoth" /\ (was.mode = "replace" => Renamed = {})
        /\ was.op = "putPath" => ~was.create
        /\ was.op = "putById" => was.id \notin Renamed
    <3>1. ASSUME was.op # "putById" PROVE was.mode # "keepBoth" /\ (was.op = "putPath" => ~was.create)
      BY <2>2, <2>4, <3>1 DEF Steady
    <3>2. ASSUME NEW n \in Renamed PROVE (was.op # "putById" => was.mode # "replace") /\ (was.op = "putById" => was.id # n)
      <4>1. PICK c \in Changes : IsRename(c) /\ c.id = n
        BY <3>2 DEF Renamed
      <4> QED BY <2>2, <2>4, <4>1 DEF Steady
    <3> QED BY <2>4, <3>1, <3>2
  <2> QED BY <1>1, <2>3, <2>5
<1>2. CASE ~Uploads(s)
  BY <1>2, FieldChange
<1> QED BY <1>1, <1>2

-----------------------------------------------------------------------------
(***************************************************************************)
(* What a commit of t does to an entry.                                    *)
(***************************************************************************)

\* An entry that is gone stays so, unless t has created it.
LEMMA CommitAbsent ==
  ASSUME TypeOK, TxInv, NEW t \in open, ~Ended(t), begun[t], NEW n \in Node, n \notin New(t), tree[n] = Absent
  PROVE  Merged(t)[n] = Absent
BY MergedEntry

\* Only renamed entries change their names, only others their folders.
LEMMA CommitKeeps ==
  ASSUME TypeOK, TxInv, NEW t \in open, ~Ended(t), begun[t], WrittenOK(t),
         NEW n \in Node, tree[n] # Absent, Merged(t)[n] # Absent
  PROVE  /\ n \notin Renamed => Merged(t)[n].name = tree[n].name
         /\ n \in Renamed => Merged(t)[n].parent = tree[n].parent
         /\ \/ Merged(t)[n].name = tree[n].name
            \/ \E c \in Changes : IsRename(c) /\ c.id = n /\ Merged(t)[n].name = c.name
<1>1. n \notin New(t)
  BY DEF TxInv, NewInv, TypeOK, Locks!LockTypeOK
<1>2. CASE ~Touches(t, n)
  BY <1>2, MergedEntry
<1>3. CASE Touches(t, n)
  <2>1. view[t][n] # Absent
    BY <1>3, MergedEntry
  <2>2. /\ <<n, "link">> \in touched[t] => n \notin Renamed
        /\ <<n, "entry">> \in touched[t] =>
             \/ view[t][n].name = tree[n].name
             \/ \E c \in Changes : IsRename(c) /\ c.id = n /\ view[t][n].name = c.name
    BY <1>1, <2>1 DEF WrittenOK
  <2>3. /\ Merged(t)[n].name = IF <<n, "entry">> \in touched[t] THEN view[t][n].name ELSE tree[n].name
        /\ Merged(t)[n].parent = IF <<n, "link">> \in touched[t] THEN view[t][n].parent ELSE tree[n].parent
    BY MergedEntry
  <2>4. \A c \in Changes : IsRename(c) /\ c.id = n => n \in Renamed
    BY DEF Renamed
  <2> QED BY <2>2, <2>3, <2>4
<1> QED BY <1>2, <1>3

\* Whatever is in a folder after the commit was there, or has been changed by t.
LEMMA CommitPlaces ==
  ASSUME TypeOK, TxInv, NEW t \in open, ~Ended(t), begun[t], NEW n \in Node,
         Merged(t)[n] # Absent, Merged(t)[n].parent # NoNode
  PROVE  \/ Changed(t, n) /\ Place(t, n) = <<Merged(t)[n].parent, Merged(t)[n].name>>
         \/ /\ tree[n] # Absent
            /\ tree[n].parent = Merged(t)[n].parent /\ tree[n].name = Merged(t)[n].name
<1>1. CASE Touches(t, n)
  BY <1>1, MergedEntry DEF Changed, Kept, Place, Result
<1>2. CASE ~Touches(t, n)
  BY <1>2, MergedEntry
<1> QED BY <1>1, <1>2

-----------------------------------------------------------------------------
(***************************************************************************)
(* What the other requests know stays so.                                  *)
(***************************************************************************)

\* A step of s leaves the names of others with them.
LEMMA LocksKept ==
  ASSUME TypeOK, NEW s \in Session, Shape(s), NEW t \in Session, t # s
  PROVE  owned'[t] = owned[t] /\ shared'[t] = shared[t]
<1>0. Locks!LockTypeOK
  BY DEF TypeOK
<1>1. CASE Releases(s)
  <2>1. PICK k \in owned[s] : IF k \in shared[s] THEN Locks!Unshare(s, k) ELSE Locks!Give(s, k)
    BY <1>1 DEF Releases
  <2> QED BY <1>0, <2>1 DEF Locks!Unshare, Locks!Give, Locks!LockTypeOK
<1>2. CASE Begins(s) \/ Grants(s) \/ Shares(s)
  BY <1>0, <1>2 DEF Begins, Grants, Shares, Locks!Begin, Locks!Grant, Locks!Share, Locks!LockTypeOK
<1>3. CASE Quiet \/ Closes(s) \/ Commits(s) \/ Snapshot(s) \/ Stores(s)
  BY <1>3 DEF Quiet, Closes, Commits, Snapshot, Stores, Locks!End, lockVars
<1> QED BY <1>1, <1>2, <1>3 DEF Shape

\* The variables of t are as they were.
Same(t) ==
  /\ tree' = tree /\ asked' = asked
  /\ pc'[t] = pc[t] /\ todo'[t] = todo[t]
  /\ place'[t] = place[t] /\ name'[t] = name[t] /\ target'[t] = target[t]
  /\ view'[t] = view[t] /\ touched'[t] = touched[t]
  /\ owned'[t] = owned[t] /\ shared'[t] = shared[t]

\* What a request knows stays so while nothing it is about changes.
LEMMA SameSteady ==
  ASSUME NEW t, Same(t)
  PROVE  /\ OwnedOK(t) => OwnedOK(t)'
         /\ TargetOK(t) => TargetOK(t)'
         /\ WrittenOK(t) => WrittenOK(t)'
         /\ CheckedOK(t) => CheckedOK(t)'
         /\ ClaimOK(t) => ClaimOK(t)'
         /\ OriginOK(t) => OriginOK(t)'
<1> USE DEF Same
<1>1. OwnedOK(t) => OwnedOK(t)'
  BY DEF OwnedOK, Ended, Key
<1>2. TargetOK(t) => TargetOK(t)'
  BY DEF TargetOK, Uploads, Ended, Change, Leads, StaysThere
<1>3. WrittenOK(t) => WrittenOK(t)'
  BY DEF WrittenOK
<1>4. CheckedOK(t) => CheckedOK(t)'
  BY DEF CheckedOK, Children, Change, Key, StaysThere
<1>5. ASSUME NEW n \in Node
      PROVE  /\ Result(t, n)' = Result(t, n) /\ (Changed(t, n)' <=> Changed(t, n))
             /\ Place(t, n)' = Place(t, n)
  <2>1. Result(t, n)' = Result(t, n)
    BY DEF Result, Merged
  <2> QED BY <2>1 DEF Changed, Kept, Place, Touches
<1>6. ClaimOK(t) => ClaimOK(t)'
  BY <1>5 DEF ClaimOK, Children
<1>7. FieldsDone(t)' = FieldsDone(t)
  BY DEF FieldsDone
<1>8. \A c : \A n \in Node : Led(c, t, n)' <=> Led(c, t, n)
  BY <1>5 DEF Led
<1>9. OriginOK(t) => OriginOK(t)'
  BY <1>5, <1>7, <1>8 DEF OriginOK, Ended, Uploads
<1> QED BY <1>1, <1>2, <1>3, <1>4, <1>6, <1>9

-----------------------------------------------------------------------------
\* A commit of t, seen from another request s.
Committed(t) ==
  /\ t \in open /\ ~Ended(t) /\ begun[t] /\ tree' = Merged(t)
  /\ WrittenOK(t) /\ ClaimOK(t)

\* The variables of s are as they were, but for the tree.
SameButTree(s) ==
  /\ asked' = asked
  /\ pc'[s] = pc[s] /\ todo'[s] = todo[s]
  /\ place'[s] = place[s] /\ name'[s] = name[s] /\ target'[s] = target[s]
  /\ view'[s] = view[s] /\ touched'[s] = touched[s]
  /\ owned'[s] = owned[s] /\ shared'[s] = shared[s]

\* An entry that s works on is gone, or keeps what its handler knows of it.
LEMMA CommitKnown ==
  ASSUME TypeOK, TxInv, NEW t, Committed(t), NEW n \in Node, n \notin New(t)
  PROVE  /\ tree[n] = Absent => tree'[n] = Absent
         /\ tree'[n] # Absent /\ n \notin Renamed => tree'[n].name = tree[n].name
         /\ tree'[n] # Absent /\ n \in Renamed => tree'[n].parent = tree[n].parent
         /\ tree'[n] # Absent => \/ tree'[n].name = tree[n].name
                                 \/ \E c \in Changes : IsRename(c) /\ c.id = n /\ tree'[n].name = c.name
BY CommitAbsent, CommitKeeps DEF Committed

\* An unlocked update stays one.
LEMMA CommitStays ==
  ASSUME Steady, TypeOK, TxInv, NEW t, Committed(t), NEW c \in Changes, c.op = "update", ~IsMove(c),
         c.id \in Node, c.id \notin New(t), StaysThere(c)
  PROVE  StaysThere(c)'
<1> SUFFICES ASSUME tree'[c.id].parent # NoNode, c.name # NoName
             PROVE  c.name = tree'[c.id].name
  BY DEF StaysThere
<1>1. IsRename(c) /\ c.id \in Renamed
  BY RenamedOnce DEF IsRename
<1>2. tree'[c.id] # Absent
  BY DEF Absent
<1>3. tree[c.id] # Absent /\ tree'[c.id].parent = tree[c.id].parent
  BY <1>1, <1>2, CommitKnown
<1>4. c.name = tree[c.id].name
  BY <1>3 DEF StaysThere
<1>5. CASE \E d \in Changes : IsRename(d) /\ d.id = c.id /\ tree'[c.id].name = d.name
  BY <1>1, <1>5, RenamedOnce
<1> QED BY <1>2, <1>4, <1>5, CommitKnown

\* What s knows of the entries it is about to change survives the commit of t.
LEMMA CommitTarget ==
  ASSUME Steady, TypeOK, LocalInv, TxInv, NEW t, Committed(t), NEW s \in Session, s # t,
         SameButTree(s), TargetOK(s)
  PROVE  TargetOK(s)'
<1> USE DEF SameButTree
<1>0. t \in Session /\ LocalOK(s) /\ target[s] \subseteq Node
  BY DEF Committed, TypeOK, Locks!LockTypeOK, LocalInv, LocalOK
<1>1. \A n \in target[s] : n \notin New(t)
  BY <1>0 DEF Committed, TxInv, NewInv
<1>2. /\ Uploads(s)' = Uploads(s) /\ Ended(s)' = Ended(s) /\ Change(s)' = Change(s)
  BY DEF Uploads, Ended, Change
<1>3. ASSUME pc[s] = "replace", NEW n \in target[s]
      PROVE  n \notin Renamed /\ (tree'[n] # Absent => tree'[n].name = name[s])
  <2>1. n \in Node /\ n \notin New(t) /\ n \notin Renamed /\ (tree[n] # Absent => tree[n].name = name[s])
    BY <1>0, <1>1, <1>3 DEF TargetOK
  <2> QED BY <2>1, CommitKnown
<1>4. ASSUME pc[s] \in Following, Change(s).op = "update", tree'[Change(s).id] # Absent
      PROVE  Leads(s, Change(s))'
  <2>0. PICK c : c = Change(s)
    OBVIOUS
  <2>1. ~Ended(s)
    BY <1>4 DEF Following, Ended
  <2>2. c.id \in Node /\ ~Uploads(s) /\ c.id \in OldNode
    BY <1>0, <1>4, <2>0, <2>1, ChangeParts DEF LocalOK
  <2>3. c \in Changes
    BY <1>0, <2>0, <2>1, <2>2, SteadyChange DEF LocalOK
  <2>4. c.id \notin New(t)
    BY <1>0, <2>2, NewApart
  <2>5. tree[c.id] # Absent
    BY <1>4, <2>0, <2>2, <2>4, CommitKnown
  <2>6. Leads(s, c)
    BY <1>4, <2>0, <2>5 DEF TargetOK
  <2>7. CASE IsMove(c) /\ place[s] = c.to /\ name[s] = tree[c.id].name
    <3>1. tree'[c.id].name = tree[c.id].name
      BY <1>4, <2>0, <2>2, <2>3, <2>4, <2>7, RenamedOnce, CommitKnown
    <3> QED BY <1>2, <2>0, <2>7, <3>1 DEF Leads
  <2>8. CASE IsRename(c) /\ ~IsMove(c) /\ place[s] = tree[c.id].parent /\ name[s] = c.name
    <3>1. tree'[c.id].parent = tree[c.id].parent
      BY <1>4, <2>0, <2>2, <2>3, <2>4, <2>8, RenamedOnce, CommitKnown
    <3> QED BY <1>2, <2>0, <2>8, <3>1 DEF Leads
  <2>9. CASE pc[s] = "update" /\ ~IsMove(c) /\ StaysThere(c)
    <3>1. StaysThere(c)'
      BY <1>4, <2>0, <2>2, <2>3, <2>4, <2>9, CommitStays
    <3> QED BY <1>2, <2>0, <2>9, <3>1 DEF Leads, StaysThere
  <2> QED BY <2>6, <2>7, <2>8, <2>9 DEF Leads
<1> QED BY <1>2, <1>3, <1>4 DEF TargetOK

\* Where s has the name across the replicas, a commit of t adds nothing.
LEMMA CommitChildren ==
  ASSUME TypeOK, LockInv, TxInv, NEW t, Committed(t), NEW s \in open, s # t,
         NEW p, NEW m, <<p, m>> \in shared[s]
  PROVE  Children(tree', p, m) \subseteq Children(tree, p, m)
<1>0. t \in Session /\ s \in Session /\ p \in Node
  BY DEF Committed, TypeOK, Locks!LockTypeOK
<1> SUFFICES ASSUME NEW c \in Node, tree'[c] # Absent, tree'[c].parent = p, tree'[c].name = m
             PROVE  tree[c] # Absent /\ tree[c].parent = p /\ tree[c].name = m
  BY DEF Children
<1>1. ~(Changed(t, c) /\ Place(t, c) = <<p, m>>)
  BY <1>0 DEF Committed, ClaimOK, LockInv
<1>2. p # NoNode
  BY <1>0, NodeAssumption
<1> QED BY <1>1, <1>2, CommitPlaces DEF Committed

\* What s has checked survives the commit of t: t would have needed the name.
LEMMA CommitChecked ==
  ASSUME Steady, TypeOK, LocalInv, LockInv, TxInv, NEW t, Committed(t), NEW s \in open, s # t,
         SameButTree(s), OwnedOK(s), TargetOK(s), CheckedOK(s)
  PROVE  CheckedOK(s)'
<1> USE DEF SameButTree
<1>0. s \in Session /\ t \in Session /\ LocalOK(s)
  BY DEF Committed, TypeOK, Locks!LockTypeOK, LocalInv, LocalOK
<1>1. ASSUME pc[s] = "insert" PROVE Children(tree', place[s], name[s]) = {}
  <2>1. <<place[s], name[s]>> \in shared[s] /\ Children(tree, place[s], name[s]) = {}
    BY <1>1 DEF OwnedOK, CheckedOK, Key
  <2> QED BY <2>1, CommitChildren
<1>2. PICK c : c = Change(s)
  OBVIOUS
<1>3. Change(s)' = c /\ Key(s)' = Key(s)
  BY <1>2 DEF Change, Key
<1>4. ASSUME pc[s] = "update"
      PROVE  \/ Key(s) \in shared[s] /\ Children(tree', place[s], name[s]) \subseteq target[s]
             \/ tree'[c.id] = Absent \/ (~IsMove(c) /\ StaysThere(c)')
  <2>1. c.op = "update" /\ ~Ended(s)
    BY <1>0, <1>2, <1>4 DEF LocalOK, StageOK, Ended
  <2>2. c.id \in Node /\ c.id \in OldNode /\ ~Uploads(s)
    BY <1>0, <1>2, <2>1, ChangeParts DEF LocalOK
  <2>3. c \in Changes /\ c.id \notin New(t)
    BY <1>0, <1>2, <2>1, <2>2, SteadyChange, NewApart DEF LocalOK
  <2>4. CASE Key(s) \in shared[s] /\ Children(tree, place[s], name[s]) \subseteq target[s]
    BY <2>4, CommitChildren DEF Key
  <2>5. CASE tree[c.id] = Absent
    BY <2>2, <2>3, <2>5, CommitKnown
  <2>6. CASE ~IsMove(c) /\ StaysThere(c)
    BY <2>1, <2>2, <2>3, <2>6, CommitStays
  <2> QED BY <1>2, <1>4, <2>4, <2>5, <2>6 DEF CheckedOK
<1> QED BY <1>1, <1>3, <1>4 DEF CheckedOK, StaysThere

\* What the transaction of s has renamed and moved survives the commit of t.
LEMMA CommitWritten ==
  ASSUME TypeOK, TxInv, NEW t, Committed(t), NEW s \in open, s # t, SameButTree(s), WrittenOK(s)
  PROVE  WrittenOK(s)'
<1> SUFFICES ASSUME NEW n \in Node \ New(s), view[s][n] # Absent
             PROVE  /\ <<n, "link">> \in touched[s] => n \notin Renamed
                    /\ <<n, "entry">> \in touched[s] =>
                         \/ view[s][n].name = tree'[n].name
                         \/ \E c \in Changes : IsRename(c) /\ c.id = n /\ view[s][n].name = c.name
  BY DEF WrittenOK, SameButTree
<1>1. touched[s] \cap touched[t] = {}
  BY DEF Committed, TxInv, TouchedInv, TypeOK, Locks!LockTypeOK
<1>2. <<n, "entry">> \in touched[s] => tree'[n].name = tree[n].name
  BY <1>1, MergedEntry DEF Committed
<1> QED BY <1>2 DEF WrittenOK

\* What s has changed is changed by nobody else: its place stays the same.
LEMMA CommitChanged ==
  ASSUME TypeOK, TxInv, NEW t, Committed(t), NEW s \in open, s # t, SameButTree(s),
         WrittenOK(s), OriginOK(s), NEW n \in Node, Changed(s, n)'
  PROVE  /\ Changed(s, n)
         /\ Result(s, n)'.name = Result(s, n).name /\ Result(s, n)'.parent = Result(s, n).parent
<1> USE DEF SameButTree
<1>0. s \in Session /\ t \in Session
  BY DEF Committed, TypeOK, Locks!LockTypeOK
<1>1. Touches(s, n) /\ view[s][n] # Absent /\ Result(s, n)'.parent # NoNode /\ ~Kept(s, n)'
  BY DEF Changed, Touches
<1>2. begun[s] /\ ~Ended(s) /\ begun[t] /\ touched[s] \cap touched[t] = {}
  BY <1>0, <1>1 DEF Touches, OriginOK, TxInv, TouchedInv, Committed
<1>3. CASE ~Touches(t, n)
  <2>1. tree'[n] = tree[n]
    BY <1>3, MergedEntry DEF Committed
  <2>2. Result(s, n)' = Result(s, n)
    BY <2>1 DEF Result, Merged
  <2> QED BY <1>1, <2>1, <2>2 DEF Changed, Kept
<1>4. CASE Touches(t, n)
  <2>1. n \notin New(t) /\ n \notin New(s)
    BY <1>0, <1>1, <1>2, <1>4 DEF TxInv, NewInv, Committed
  <2>2. tree[n] # Absent
    BY <1>1, <1>2, <2>1, MergedEntry
  <2>3. view[t][n] # Absent
    <3>1. TypeOK /\ TxInv /\ t \in open /\ ~Ended(t) /\ begun[t]
      BY DEF Committed
    <3>2. view[t][n] = Absent => Documents({n}) \subseteq touched[t]
      BY <1>4, <3>1, MergedEntry
    <3>3. ~(Documents({n}) \subseteq touched[t])
      BY <1>1, <1>2 DEF Touches
    <3> QED BY <3>2, <3>3
  <2>4. /\ tree'[n] # Absent
        /\ tree'[n].name = IF <<n, "entry">> \in touched[t] THEN view[t][n].name ELSE tree[n].name
        /\ tree'[n].parent = IF <<n, "link">> \in touched[t] THEN view[t][n].parent ELSE tree[n].parent
        /\ tree'[n] \in Entry /\ view[s][n] \in Entry
    <3>1. /\ Merged(t)[n] = Absent <=> view[t][n] = Absent
          /\ Merged(t)[n].name = IF <<n, "entry">> \in touched[t] THEN view[t][n].name ELSE tree[n].name
          /\ Merged(t)[n].parent = IF <<n, "link">> \in touched[t] THEN view[t][n].parent ELSE tree[n].parent
          /\ Merged(t)[n] \in Entry
      BY <1>4, MergedEntry DEF Committed
    <3>2. tree' = Merged(t)
      BY DEF Committed
    <3>3. view[s][n] \in Entry
      BY <1>0, SeenType
    <3> QED BY <2>3, <3>1, <3>2, <3>3
  <2>5. /\ Result(s, n).name = IF <<n, "entry">> \in touched[s] THEN view[s][n].name ELSE tree[n].name
        /\ Result(s, n).parent = IF <<n, "link">> \in touched[s] THEN view[s][n].parent ELSE tree[n].parent
    BY <1>2, MergedEntry DEF Result
  <2>6. \A c \in Changes : IsRename(c) /\ c.id = n => n \in Renamed
    BY DEF Renamed
  <2>7. /\ <<n, "link">> \in touched[s] => n \notin Renamed
        /\ <<n, "entry">> \in touched[s] => n \in Renamed \/ view[s][n].name = tree[n].name
        /\ <<n, "link">> \in touched[t] => n \notin Renamed
        /\ <<n, "entry">> \in touched[t] => n \in Renamed \/ view[t][n].name = tree[n].name
    BY <1>1, <2>1, <2>3, <2>6 DEF WrittenOK, Committed
  <2>8. CASE <<n, "entry">> \in touched[s]
    <3>1. <<n, "entry">> \notin touched[t] /\ <<n, "link">> \in touched[t] /\ <<n, "link">> \notin touched[s]
      BY <1>2, <1>4, <2>8 DEF Touches, Documents
    <3>2. Result(s, n)' = [view[s][n] EXCEPT !.parent = tree'[n].parent]
      BY <2>8, <3>1 DEF Result, Merged
    <3>3. Result(s, n)'.parent = tree'[n].parent /\ Result(s, n)'.name = view[s][n].name
      BY <2>4, <3>2 DEF Entry, Absent
    <3> QED BY <1>1, <2>4, <2>7, <2>8, <3>1, <3>3 DEF Kept
  <2>9. CASE <<n, "entry">> \notin touched[s]
    <3>1. <<n, "link">> \in touched[s] /\ <<n, "entry">> \in touched[t] /\ <<n, "link">> \notin touched[t]
      BY <1>1, <1>2, <1>4, <2>9 DEF Touches, Documents
    <3>2. Result(s, n)' = [tree'[n] EXCEPT !.parent = view[s][n].parent]
      BY <2>9, <3>1 DEF Result, Merged
    <3>3. Result(s, n)'.parent = view[s][n].parent /\ Result(s, n)'.name = tree'[n].name
      BY <2>4, <3>2 DEF Entry, Absent
    <3>4. tree'[n].name = tree[n].name /\ tree'[n].parent = tree[n].parent
      BY <2>4, <2>7, <3>1
    <3> QED BY <1>1, <2>2, <2>4, <2>5, <2>9, <3>1, <3>3, <3>4 DEF Kept, Changed
  <2> QED BY <2>8, <2>9
<1> QED BY <1>3, <1>4

\* The places s has changed entries to stay free, and come from the same fields.
LEMMA CommitClaim ==
  ASSUME TypeOK, LockInv, TxInv, NEW t, Committed(t), NEW s \in open, s # t, SameButTree(s),
         WrittenOK(s), ClaimOK(s), OriginOK(s)
  PROVE  ClaimOK(s)' /\ OriginOK(s)'
<1>1. ASSUME NEW n \in Node, Changed(s, n)'
      PROVE  /\ Changed(s, n) /\ Place(s, n)' = Place(s, n)
             /\ Result(s, n)'.name = Result(s, n).name /\ Result(s, n)'.parent = Result(s, n).parent
  BY <1>1, CommitChanged DEF Place
<1>2. ClaimOK(s)'
  <2> SUFFICES ASSUME NEW n \in Node, Changed(s, n)'
               PROVE  /\ Place(s, n)' \in shared'[s]
                      /\ Children(tree', Result(s, n)'.parent, Result(s, n)'.name) \subseteq {n}
    BY DEF ClaimOK, Children
  <2>1. Place(s, n) \in shared[s] /\ Children(tree, Result(s, n).parent, Result(s, n).name) \subseteq {n}
    BY <1>1 DEF ClaimOK
  <2>2. Children(tree', Result(s, n).parent, Result(s, n).name)
          \subseteq Children(tree, Result(s, n).parent, Result(s, n).name)
    BY <2>1, CommitChildren DEF Place
  <2> QED BY <1>1, <2>1, <2>2 DEF SameButTree
<1>3. /\ touched'[s] = touched[s] /\ asked' = asked /\ pc'[s] = pc[s] /\ FieldsDone(s)' = FieldsDone(s)
      /\ Uploads(s)' = Uploads(s) /\ Ended(s)' = Ended(s)
  BY DEF SameButTree, FieldsDone, Uploads, Ended
<1>4. \A c : \A n \in Node : Changed(s, n)' => (Led(c, s, n)' <=> Led(c, s, n))
  BY <1>1 DEF Led
<1>5. OriginOK(s)'
  <2>1. Ended(s)' \/ (Uploads(s)' /\ pc'[s] # "next") => touched'[s] = {}
    BY <1>3 DEF OriginOK
  <2>2. ASSUME ~Uploads(s)', NEW n \in Node, Changed(s, n)'
        PROVE  \E i \in FieldsDone(s)' : Led(asked[s][i], s, n)'
    BY <1>1, <1>3, <1>4, <2>2 DEF OriginOK
  <2>3. \A m, n \in Node : m # n /\ Changed(s, m)' /\ Changed(s, n)' => Place(s, m)' # Place(s, n)'
    BY <1>1 DEF OriginOK
  <2> QED BY <1>3, <2>1, <2>2, <2>3 DEF OriginOK, Led
<1> QED BY <1>2, <1>5

-----------------------------------------------------------------------------
(***************************************************************************)
(* What a request knows after a step of its own.                           *)
(***************************************************************************)

\* The locks a request has taken, what it knows of the entries it is about to
\* change, and what it has checked hold after every step of its own.
LEMMA HandlerStep ==
  ASSUME Steady, TypeOK, LocalInv, NEW s \in Session, OwnedOK(s), TargetOK(s), s \in open => CheckedOK(s),
         UploadStep(s) \/ MutationStep(s) \/ RequestStep(s) \/ TxLimitAbort(s)
  PROVE  OwnedOK(s)' /\ TargetOK(s)' /\ (s \in open' => CheckedOK(s)')
<1> DEFINE Goal == OwnedOK(s)' /\ TargetOK(s)' /\ (s \in open' => CheckedOK(s)')
<1> USE DEF LocalType
<1>0. LocalOK(s) /\ Locks!LockTypeOK /\ LocalType
  BY DEF LocalInv, LocalOK, TypeOK
<1>1. ASSUME PutIntoFolder(s) PROVE Goal
  <2>1. OwnedOK(s)'
    BY <1>1, <1>0 DEF PutIntoFolder, Begin, Lock, Fail, Close, Locks!Begin, Locks!End,
        Goto, changeVars, lockVars, vars, OwnedOK, Key, Ended, LocalOK, StageOK,
        Locks!LockTypeOK
  <2>2. TargetOK(s)'
    BY <1>1, <1>0, ChangeParts DEF PutIntoFolder, Begin, Lock, Fail, Close, Locks!Begin,
        Locks!End, Goto, changeVars, lockVars, vars, TargetOK, Following, Leads,
        StaysThere, IsMove, IsRename, Change, Uploads, Ended, LocalOK, StageOK
  <2>3. s \in open' => CheckedOK(s)'
    BY <1>1, <1>0, ChangeParts DEF PutIntoFolder, Begin, Lock, Fail, Close, Locks!Begin,
        Locks!End, Goto, changeVars, lockVars, vars, CheckedOK, Key, Change, StaysThere,
        IsMove
  <2> QED BY <2>1, <2>2, <2>3
<1>2. ASSUME PutById(s) PROVE Goal
  <2>0. ~Ended(s) /\ Uploads(s) /\ Change(s).id \notin Renamed
    <3>1. ~Ended(s) /\ Change(s).op = "putById"
      BY <1>2 DEF PutById, Ended
    <3> QED BY <3>1, <1>0, ChangeParts, SteadyChange DEF LocalOK
  <2>1. OwnedOK(s)'
    BY <1>2, <1>0 DEF PutById, Begin, Fail, Close, Locks!Begin, Locks!End, Goto,
        lockVars, OwnedOK, Key, Ended, Locks!LockTypeOK
  <2>2. TargetOK(s)'
    <3>1. /\ asked' = asked /\ tree' = tree
          /\ \/ pc'[s] = "release"
             \/ /\ pc'[s] = "replace" /\ target'[s] = {Change(s).id}
                /\ name'[s] = tree[Change(s).id].name
      BY <1>2, <1>0 DEF PutById, Begin, Fail, Close, Goto, changeVars
    <3> QED BY <2>0, <3>1 DEF TargetOK, Following, Ended, Uploads
  <2>3. s \in open' => CheckedOK(s)'
    BY <1>2, <1>0 DEF PutById, Begin, Fail, Goto, CheckedOK
  <2> QED BY <2>1, <2>2, <2>3
<1>3. ASSUME HoldFirstMissing(s) PROVE Goal
  <2>0. ~Change(s).create
    <3>1. ~Ended(s) /\ Change(s).op = "putPath"
      BY <1>3, <1>0 DEF HoldFirstMissing, Ended, LocalOK, StageOK
    <3> QED BY <3>1, <1>0, ChangeParts, SteadyChange DEF LocalOK
  <2> QED BY <1>3, <2>0 DEF HoldFirstMissing
<1>4. ~Hold(s)
  BY DEF Hold, OwnedOK
<1>5. ASSUME BeginPath(s) PROVE Goal
  <2>1. OwnedOK(s)'
    BY <1>5, <1>0 DEF BeginPath, Begin, Locks!Begin, Goto, changeVars, lockVars, vars,
        OwnedOK, Key, Ended, LocalOK, StageOK, Locks!LockTypeOK
  <2>2. TargetOK(s)'
    BY <1>5, <1>0, ChangeParts DEF BeginPath, Begin, Locks!Begin, Goto, changeVars,
        lockVars, vars, TargetOK, Following, Leads, StaysThere, IsMove, IsRename,
        Change, Uploads, Ended, LocalOK, StageOK
  <2>3. s \in open' => CheckedOK(s)'
    BY <1>5, <1>0, ChangeParts DEF BeginPath, Begin, Locks!Begin, Goto, changeVars,
        lockVars, vars, CheckedOK, Key, Change, StaysThere, IsMove
  <2> QED BY <2>1, <2>2, <2>3
<1>6. ASSUME Walk(s) PROVE Goal
  <2>0. ~Ended(s) /\ Uploads(s) /\ ~Change(s).create
    <3>1. ~Ended(s) /\ Change(s).op = "putPath"
      BY <1>6, <1>0 DEF Walk, Ended, LocalOK, StageOK
    <3> QED BY <3>1, <1>0, ChangeParts, SteadyChange DEF LocalOK
  <2>1. OwnedOK(s)'
    BY <1>6, <1>0, <2>0 DEF Walk, Lock, Goto, lockVars, OwnedOK, Key, Ended, Locks!LockTypeOK
  <2>2. TargetOK(s)'
    <3>1. pc[s] = "walk" /\ asked' = asked /\ target' = target /\ pc'[s] \in {"walk", "check", "grant"} /\ target[s] = {}
      BY <1>6, <1>0, <2>0 DEF Walk, Lock, Goto, TargetOK
    <3>2. Change(s)'.op \notin {"create", "update"}
      BY <1>6, <1>0, <2>0, <3>1, LocalStep, ChangeParts DEF LocalOK, StageOK, TodoOK, Uploads, Ended
    <3> QED BY <2>0, <3>1, <3>2 DEF TargetOK, Following, Ended, Uploads
  <2>3. s \in open' => CheckedOK(s)'
    BY <1>6, <1>0, <2>0 DEF Walk, Lock, Goto, CheckedOK
  <2> QED BY <2>1, <2>2, <2>3
<1>7. ASSUME WalkFails(s) PROVE Goal
  <2>1. OwnedOK(s)'
    BY <1>7, <1>0 DEF WalkFails, Fail, Close, Locks!End, Goto, changeVars, lockVars,
        vars, OwnedOK, Key, Ended, LocalOK, StageOK, Locks!LockTypeOK
  <2>2. TargetOK(s)'
    BY <1>7, <1>0 DEF WalkFails, Fail, Close, Locks!End, Goto, changeVars, lockVars,
        vars, TargetOK, Following, Leads, StaysThere, IsMove, IsRename, Change, Uploads,
        Ended, LocalOK, StageOK
  <2>3. s \in open' => CheckedOK(s)'
    BY <1>7, <1>0 DEF WalkFails, Fail, Close, Locks!End, Goto, changeVars, lockVars,
        vars, CheckedOK, Key, Change, StaysThere, IsMove
  <2> QED BY <2>1, <2>2, <2>3
<1>8. ~CheckFolder(s)
  BY DEF CheckFolder, OwnedOK
<1>9. ~InsertFolder(s)
  BY DEF InsertFolder, Writes, OwnedOK
<1>10. ASSUME CheckUpload(s) PROVE Goal
  <2>0. /\ ~Ended(s) /\ Uploads(s) /\ Change(s).op \in {"put", "putPath"}
        /\ Change(s).mode # "keepBoth" /\ (Change(s).mode = "replace" => Renamed = {})
    <3>1. ~Ended(s) /\ Uploads(s) /\ Change(s).op \in {"put", "putPath", "create", "update"}
      BY <1>10, <1>0 DEF CheckUpload, Ended, LocalOK, StageOK
    <3> QED BY <3>1, <1>0, ChangeParts, SteadyChange DEF LocalOK
  <2>1. /\ pc[s] = "check" /\ UNCHANGED <<tree, asked, todo, place, name, owned, shared, open>>
        /\ \/ /\ Children(tree, place[s], name[s]) = {} /\ pc' = [pc EXCEPT ![s] = "insert"]
              /\ target' = target
           \/ /\ Change(s).mode = "replace" /\ pc' = [pc EXCEPT ![s] = "replace"]
              /\ target' = [target EXCEPT ![s] = Children(tree, place[s], name[s])]
           \/ pc' = [pc EXCEPT ![s] = "release"] /\ target' = target
    BY <1>10, <2>0 DEF CheckUpload, Goto, lockVars
  <2>2. OwnedOK(s)'
    BY <1>0, <2>1 DEF OwnedOK, Key, Ended
  <2>3. TargetOK(s)'
    <3>1. target[s] = {}
      BY <2>0, <2>1 DEF TargetOK, Ended
    <3>2. Change(s)' = Change(s) /\ Uploads(s)'
      BY <2>0, <2>1 DEF Change, Uploads
    <3>3. \A n \in Children(tree, place[s], name[s]) : tree[n].name = name[s]
      BY DEF Children
    <3> QED BY <1>0, <2>0, <2>1, <3>1, <3>2, <3>3 DEF TargetOK, Following, Ended
  <2>4. s \in open' => CheckedOK(s)'
    BY <1>0, <2>1 DEF CheckedOK, Children
  <2> QED BY <2>2, <2>3, <2>4
<1>11. ASSUME BeginMutation(s) PROVE Goal
  <2>1. OwnedOK(s)'
    BY <1>11, <1>0 DEF BeginMutation, Begin, Locks!Begin, Goto, changeVars, lockVars,
        vars, OwnedOK, Key, Ended, LocalOK, StageOK, Locks!LockTypeOK
  <2>2. TargetOK(s)'
    BY <1>11, <1>0, ChangeParts DEF BeginMutation, Begin, Locks!Begin, Goto, changeVars,
        lockVars, vars, TargetOK, Following, Leads, StaysThere, IsMove, IsRename,
        Change, Uploads, Ended, LocalOK, StageOK
  <2>3. s \in open' => CheckedOK(s)'
    BY <1>11, <1>0, ChangeParts DEF BeginMutation, Begin, Locks!Begin, Goto, changeVars,
        lockVars, vars, CheckedOK, Key, Change, StaysThere, IsMove
  <2> QED BY <2>1, <2>2, <2>3
<1>12. ASSUME Create(s) PROVE Goal
  <2>1. OwnedOK(s)'
    BY <1>12, <1>0 DEF Create, Goto, changeVars, lockVars, vars, OwnedOK, Key, Ended,
        LocalOK, StageOK, Locks!LockTypeOK
  <2>2. TargetOK(s)'
    BY <1>12, <1>0, ChangeParts DEF Create, Goto, changeVars, lockVars, vars, TargetOK,
        Following, Leads, StaysThere, IsMove, IsRename, Change, Uploads, Ended, LocalOK,
        StageOK
  <2>3. s \in open' => CheckedOK(s)'
    BY <1>12, <1>0, ChangeParts DEF Create, Goto, changeVars, lockVars, vars, CheckedOK,
        Key, Change, StaysThere, IsMove
  <2> QED BY <2>1, <2>2, <2>3
<1>13. ASSUME Update(s) PROVE Goal
  <2>1. OwnedOK(s)'
    BY <1>13, <1>0 DEF Update, Lock, Fail, Close, Locks!End, Goto, lockVars, OwnedOK,
        Key, Ended, LocalOK, StageOK, Locks!LockTypeOK
  <2>2. TargetOK(s)'
    <3>0. ~Ended(s) /\ ~Uploads(s) /\ Change(s).op = "update"
      BY <1>13, <1>0 DEF Update, Ended, LocalOK, StageOK
    <3>1. PICK c : c = Change(s)
      OBVIOUS
    <3>2. c.id \in Node
      BY <1>0, <3>0, <3>1, ChangeParts DEF LocalOK
    <3>3. /\ asked' = asked /\ tree' = tree
          /\ \/ pc'[s] = "release"
             \/ /\ Change(s)' = c /\ target'[s] = {c.id}
                /\ \/ /\ pc'[s] = "visible" /\ c.to # NoNode /\ place'[s] = c.to
                      /\ name'[s] = IF c.name = NoName THEN tree[c.id].name ELSE c.name
                   \/ /\ c.to = NoNode /\ pc'[s] \in {"check", "grant"} /\ place'[s] = tree[c.id].parent
                      /\ name'[s] = IF c.name = NoName THEN tree[c.id].name ELSE c.name
                      /\ name'[s] # tree[c.id].name
                   \/ /\ pc'[s] = "update"
                      /\ \/ tree[c.id] = Absent
                         \/ c.to = NoNode /\ tree[c.id].parent = NoNode
                         \/ c.to = NoNode /\ c.name \in {NoName, tree[c.id].name}
      BY <1>13, <1>0, <3>1 DEF Update, Lock, Fail, Goto, changeVars, Change
    <3>4. c \in Changes
      BY <1>0, <3>0, <3>1, SteadyChange DEF LocalOK
    <3>5. IsMove(c) => c.name = NoName
      BY <3>4, RenamedOnce
    <3>6. c.op = "update"
      BY <3>0, <3>1
    <3>7. pc'[s] # "release" /\ tree[c.id] # Absent => Leads(s, c)'
      BY <3>3, <3>5, <3>6 DEF Leads, StaysThere, IsMove, IsRename
    <3>8. ~Uploads(s)'
      BY <3>0, <3>3 DEF Uploads
    <3>9. CASE pc'[s] = "release"
      BY <3>9 DEF TargetOK, Ended, Following
    <3>10. CASE pc'[s] # "release"
      <4>1. pc'[s] \in {"visible", "check", "grant", "update"} /\ Change(s)' = c /\ target'[s] = {c.id}
        BY <3>3, <3>10
      <4> QED BY <3>3, <3>6, <3>7, <3>8, <3>10, <4>1 DEF TargetOK, Ended
    <3> QED BY <3>9, <3>10
  <2>3. s \in open' => CheckedOK(s)'
    BY <1>13, <1>0, ChangeParts DEF Update, Lock, Fail, Close, Locks!End, Goto,
        changeVars, lockVars, CheckedOK, Key, Change, StaysThere, IsMove
  <2> QED BY <2>1, <2>2, <2>3
<1>14. ASSUME Delete(s) PROVE Goal
  <2>1. OwnedOK(s)'
    BY <1>14, <1>0 DEF Delete, Goto, changeVars, lockVars, vars, OwnedOK, Key, Ended,
        LocalOK, StageOK, Locks!LockTypeOK
  <2>2. TargetOK(s)'
    BY <1>14, <1>0, ChangeParts DEF Delete, Goto, changeVars, lockVars, vars, TargetOK,
        Following, Leads, StaysThere, IsMove, IsRename, Change, Uploads, Ended, LocalOK,
        StageOK
  <2>3. s \in open' => CheckedOK(s)'
    BY <1>14, <1>0, ChangeParts DEF Delete, Goto, changeVars, lockVars, vars, CheckedOK,
        Key, Change, StaysThere, IsMove
  <2> QED BY <2>1, <2>2, <2>3
<1>15. ASSUME Visible(s) PROVE Goal
  <2>1. OwnedOK(s)'
    BY <1>15, <1>0 DEF Visible, Lock, Fail, Close, Locks!End, Goto, changeVars,
        lockVars, vars, OwnedOK, Key, Ended, LocalOK, StageOK, Locks!LockTypeOK
  <2>2. TargetOK(s)'
    BY <1>15, <1>0 DEF Visible, Lock, Fail, Close, Locks!End, Goto, changeVars,
        lockVars, vars, TargetOK, Following, Leads, StaysThere, IsMove, IsRename,
        Change, Uploads, Ended, LocalOK, StageOK
  <2>3. s \in open' => CheckedOK(s)'
    BY <1>15, <1>0 DEF Visible, Lock, Fail, Close, Locks!End, Goto, changeVars,
        lockVars, vars, CheckedOK, Key, Change, StaysThere, IsMove
  <2> QED BY <2>1, <2>2, <2>3
<1>16. ASSUME NotBelowItself(s) PROVE Goal
  <2>1. OwnedOK(s)'
    BY <1>16, <1>0 DEF NotBelowItself, Lock, Fail, Close, Locks!End, Goto, changeVars,
        lockVars, vars, OwnedOK, Key, Ended, LocalOK, StageOK, Locks!LockTypeOK
  <2>2. TargetOK(s)'
    BY <1>16, <1>0 DEF NotBelowItself, Lock, Fail, Close, Locks!End, Goto, changeVars,
        lockVars, vars, TargetOK, Following, Leads, StaysThere, IsMove, IsRename,
        Change, Uploads, Ended, LocalOK, StageOK
  <2>3. s \in open' => CheckedOK(s)'
    BY <1>16, <1>0 DEF NotBelowItself, Lock, Fail, Close, Locks!End, Goto, changeVars,
        lockVars, vars, CheckedOK, Key, Change, StaysThere, IsMove
  <2> QED BY <2>1, <2>2, <2>3
<1>17. ASSUME CheckName(s) PROVE Goal
  <2>0. ~Ended(s) /\ ~Uploads(s) /\ Change(s).op \in {"create", "update"} /\ Key(s) \in shared[s]
    BY <1>17, <1>0, ChangeParts DEF CheckName, Ended, LocalOK, StageOK, OwnedOK
  <2>1. OwnedOK(s)'
    BY <1>17, <1>0 DEF CheckName, Fail, Close, Locks!End, Goto, changeVars, lockVars,
        OwnedOK, Key, Ended, Locks!LockTypeOK
  <2>2. TargetOK(s)'
    BY <1>17, <1>0, <2>0 DEF CheckName, Fail, Close, Locks!End, Goto, changeVars,
        TargetOK, Following, Leads, StaysThere, Change, Uploads, Ended
  <2>3. s \in open' => CheckedOK(s)'
    <3>1. \/ pc'[s] = "release"
          \/ /\ pc[s] = "check" /\ Children(tree, place[s], name[s]) \subseteq target[s]
             /\ pc'[s] = (IF Change(s).op = "create" THEN "insert" ELSE "update")
             /\ UNCHANGED <<tree, asked, todo, place, name, target, shared>>
      BY <1>17, <1>0 DEF CheckName, Fail, Goto, changeVars, lockVars
    <3>2. pc[s] = "check" /\ Change(s).op = "create" => target[s] = {}
      BY DEF TargetOK, Following
    <3> QED BY <2>0, <3>1, <3>2 DEF CheckedOK, Children, Key
  <2> QED BY <2>1, <2>2, <2>3
<1>18. ASSUME UpdateEntry(s) PROVE Goal
  <2>1. OwnedOK(s)'
    BY <1>18, <1>0 DEF UpdateEntry, Writes, Goto, changeVars, lockVars, vars, OwnedOK,
        Key, Ended, LocalOK, StageOK, Locks!LockTypeOK
  <2>2. TargetOK(s)'
    BY <1>18, <1>0 DEF UpdateEntry, Writes, Goto, changeVars, lockVars, vars, TargetOK,
        Following, Leads, StaysThere, IsMove, IsRename, Change, Uploads, Ended, LocalOK,
        StageOK
  <2>3. s \in open' => CheckedOK(s)'
    BY <1>18, <1>0 DEF UpdateEntry, Writes, Goto, changeVars, lockVars, vars, CheckedOK,
        Key, Change, StaysThere, IsMove
  <2> QED BY <2>1, <2>2, <2>3
<1>19. ASSUME Erase(s) PROVE Goal
  <2>1. OwnedOK(s)'
    BY <1>19, <1>0 DEF Erase, Writes, Goto, changeVars, lockVars, vars, OwnedOK, Key,
        Ended, LocalOK, StageOK, Locks!LockTypeOK
  <2>2. TargetOK(s)'
    BY <1>19, <1>0 DEF Erase, Writes, Goto, changeVars, lockVars, vars, TargetOK,
        Following, Leads, StaysThere, IsMove, IsRename, Change, Uploads, Ended, LocalOK,
        StageOK
  <2>3. s \in open' => CheckedOK(s)'
    BY <1>19, <1>0 DEF Erase, Writes, Goto, changeVars, lockVars, vars, CheckedOK, Key,
        Change, StaysThere, IsMove
  <2> QED BY <2>1, <2>2, <2>3
<1>20. ASSUME NextChange(s) PROVE Goal
  <2>0. ~Uploads(s) /\ pc'[s] = "change" /\ asked' = asked
    BY <1>20, <1>0 DEF NextChange, Goto, LocalOK, TodoOK, Ended
  <2>1. OwnedOK(s)'
    BY <1>20, <1>0 DEF NextChange, Goto, lockVars, OwnedOK, Key, Ended
  <2>2. TargetOK(s)'
    BY <2>0 DEF TargetOK, Following, Uploads
  <2>3. s \in open' => CheckedOK(s)'
    BY <2>0 DEF CheckedOK
  <2> QED BY <2>1, <2>2, <2>3
<1>21. ASSUME Snapshot(s) PROVE Goal
  <2>1. OwnedOK(s)'
    BY <1>21, <1>0 DEF Snapshot, Goto, changeVars, lockVars, vars, txVars, OwnedOK, Key,
        Ended, LocalOK, StageOK, Locks!LockTypeOK, InSession, Writing
  <2>2. TargetOK(s)'
    BY <1>21, <1>0 DEF Snapshot, Goto, changeVars, lockVars, vars, txVars, TargetOK,
        Following, Leads, StaysThere, IsMove, IsRename, Change, Uploads, Ended, LocalOK,
        StageOK, InSession, Writing
  <2>3. s \in open' => CheckedOK(s)'
    BY <1>21, <1>0 DEF Snapshot, Goto, changeVars, lockVars, vars, txVars, CheckedOK,
        Key, Change, StaysThere, IsMove, InSession, Writing, Children
  <2> QED BY <2>1, <2>2, <2>3
<1>22. ASSUME GrantName(s) PROVE Goal
  <2>1. OwnedOK(s)'
    BY <1>22, <1>0 DEF GrantName, Locks!Grant, Goto, changeVars, lockVars, vars,
        OwnedOK, Key, Ended, LocalOK, StageOK, Locks!LockTypeOK
  <2>2. TargetOK(s)'
    BY <1>22, <1>0 DEF GrantName, Locks!Grant, Goto, changeVars, lockVars, vars,
        TargetOK, Following, Leads, StaysThere, IsMove, IsRename, Change, Uploads,
        Ended, LocalOK, StageOK
  <2>3. s \in open' => CheckedOK(s)'
    BY <1>22, <1>0 DEF GrantName, Locks!Grant, Goto, changeVars, lockVars, vars,
        CheckedOK, Key, Change, StaysThere, IsMove
  <2> QED BY <2>1, <2>2, <2>3
<1>23. ASSUME ShareName(s) PROVE Goal
  <2>1. OwnedOK(s)'
    BY <1>23, <1>0 DEF ShareName, Locks!Share, Goto, changeVars, lockVars, vars,
        OwnedOK, Key, Ended, LocalOK, StageOK, Locks!LockTypeOK
  <2>2. TargetOK(s)'
    BY <1>23, <1>0 DEF ShareName, Locks!Share, Goto, changeVars, lockVars, vars,
        TargetOK, Following, Leads, StaysThere, IsMove, IsRename, Change, Uploads,
        Ended, LocalOK, StageOK
  <2>3. s \in open' => CheckedOK(s)'
    BY <1>23, <1>0 DEF ShareName, Locks!Share, Goto, changeVars, lockVars, vars,
        CheckedOK, Key, Change, StaysThere, IsMove
  <2> QED BY <2>1, <2>2, <2>3
<1>24. ASSUME LockFails(s) PROVE Goal
  <2>1. OwnedOK(s)'
    BY <1>24, <1>0 DEF LockFails, Fail, Close, Locks!End, Goto, changeVars, lockVars,
        vars, OwnedOK, Key, Ended, LocalOK, StageOK, Locks!LockTypeOK
  <2>2. TargetOK(s)'
    BY <1>24, <1>0 DEF LockFails, Fail, Close, Locks!End, Goto, changeVars, lockVars,
        vars, TargetOK, Following, Leads, StaysThere, IsMove, IsRename, Change, Uploads,
        Ended, LocalOK, StageOK
  <2>3. s \in open' => CheckedOK(s)'
    BY <1>24, <1>0 DEF LockFails, Fail, Close, Locks!End, Goto, changeVars, lockVars,
        vars, CheckedOK, Key, Change, StaysThere, IsMove
  <2> QED BY <2>1, <2>2, <2>3
<1>25. ASSUME Insert(s) PROVE Goal
  <2>1. OwnedOK(s)'
    BY <1>25, <1>0 DEF Insert, Writes, Goto, changeVars, lockVars, vars, OwnedOK, Key,
        Ended, LocalOK, StageOK, Locks!LockTypeOK
  <2>2. TargetOK(s)'
    BY <1>25, <1>0 DEF Insert, Writes, Goto, changeVars, lockVars, vars, TargetOK,
        Following, Leads, StaysThere, IsMove, IsRename, Change, Uploads, Ended, LocalOK,
        StageOK
  <2>3. s \in open' => CheckedOK(s)'
    BY <1>25, <1>0 DEF Insert, Writes, Goto, changeVars, lockVars, vars, CheckedOK, Key,
        Change, StaysThere, IsMove
  <2> QED BY <2>1, <2>2, <2>3
<1>26. ASSUME Replace(s) PROVE Goal
  <2>1. OwnedOK(s)'
    BY <1>26, <1>0 DEF Replace, Writes, Goto, changeVars, lockVars, vars, OwnedOK, Key,
        Ended, LocalOK, StageOK, Locks!LockTypeOK
  <2>2. TargetOK(s)'
    BY <1>26, <1>0 DEF Replace, Writes, Goto, changeVars, lockVars, vars, TargetOK,
        Following, Leads, StaysThere, IsMove, IsRename, Change, Uploads, Ended, LocalOK,
        StageOK
  <2>3. s \in open' => CheckedOK(s)'
    BY <1>26, <1>0 DEF Replace, Writes, Goto, changeVars, lockVars, vars, CheckedOK,
        Key, Change, StaysThere, IsMove
  <2> QED BY <2>1, <2>2, <2>3
<1>27. ASSUME WriteFails(s) PROVE Goal
  <2>1. OwnedOK(s)'
    BY <1>27, <1>0 DEF WriteFails, Fail, Close, Locks!End, Goto, changeVars, lockVars,
        vars, OwnedOK, Key, Ended, LocalOK, StageOK, Locks!LockTypeOK, InSession,
        Writing
  <2>2. TargetOK(s)'
    BY <1>27, <1>0 DEF WriteFails, Fail, Close, Locks!End, Goto, changeVars, lockVars,
        vars, TargetOK, Following, Leads, StaysThere, IsMove, IsRename, Change, Uploads,
        Ended, LocalOK, StageOK, InSession, Writing
  <2>3. s \in open' => CheckedOK(s)'
    BY <1>27, <1>0 DEF WriteFails, Fail, Close, Locks!End, Goto, changeVars, lockVars,
        vars, CheckedOK, Key, Change, StaysThere, IsMove, InSession, Writing
  <2> QED BY <2>1, <2>2, <2>3
<1>28. ASSUME Commit(s) PROVE Goal
  <2>1. OwnedOK(s)'
    BY <1>28, <1>0 DEF Commit, Locks!End, Goto, changeVars, lockVars, vars, OwnedOK,
        Key, Ended, LocalOK, StageOK, Locks!LockTypeOK
  <2>2. TargetOK(s)'
    BY <1>28, <1>0 DEF Commit, Locks!End, Goto, changeVars, lockVars, vars, TargetOK,
        Following, Leads, StaysThere, IsMove, IsRename, Change, Uploads, Ended, LocalOK,
        StageOK
  <2>3. s \in open' => CheckedOK(s)'
    BY <1>28, <1>0 DEF Commit, Locks!End, Goto, changeVars, lockVars, vars, CheckedOK,
        Key, Change, StaysThere, IsMove
  <2> QED BY <2>1, <2>2, <2>3
<1>29. ASSUME SessionFails(s) PROVE Goal
  <2>1. OwnedOK(s)'
    BY <1>29, <1>0 DEF SessionFails, Fail, Close, Locks!End, Goto, changeVars, lockVars,
        vars, OwnedOK, Key, Ended, LocalOK, StageOK, Locks!LockTypeOK, InSession,
        Writing
  <2>2. TargetOK(s)'
    BY <1>29, <1>0 DEF SessionFails, Fail, Close, Locks!End, Goto, changeVars, lockVars,
        vars, TargetOK, Following, Leads, StaysThere, IsMove, IsRename, Change, Uploads,
        Ended, LocalOK, StageOK, InSession, Writing
  <2>3. s \in open' => CheckedOK(s)'
    BY <1>29, <1>0 DEF SessionFails, Fail, Close, Locks!End, Goto, changeVars, lockVars,
        vars, CheckedOK, Key, Change, StaysThere, IsMove, InSession, Writing
  <2> QED BY <2>1, <2>2, <2>3
<1>30. ASSUME NEW k \in owned[s], ReleaseName(s, k) PROVE Goal
  <2>1. OwnedOK(s)'
    BY <1>30, <1>0 DEF ReleaseName, Locks!Unshare, Locks!Give, Goto, changeVars,
        lockVars, vars, OwnedOK, Key, Ended, LocalOK, StageOK, Locks!LockTypeOK
  <2>2. TargetOK(s)'
    BY <1>30, <1>0 DEF ReleaseName, Locks!Unshare, Locks!Give, Goto, changeVars,
        lockVars, vars, TargetOK, Following, Leads, StaysThere, IsMove, IsRename,
        Change, Uploads, Ended, LocalOK, StageOK
  <2>3. s \in open' => CheckedOK(s)'
    BY <1>30, <1>0 DEF ReleaseName, Locks!Unshare, Locks!Give, Goto, changeVars,
        lockVars, vars, CheckedOK, Key, Change, StaysThere, IsMove
  <2> QED BY <2>1, <2>2, <2>3
<1>31. ASSUME Finish(s) PROVE Goal
  <2>1. OwnedOK(s)'
    BY <1>31, <1>0 DEF Finish, Close, Forget, Locks!End, Goto, changeVars, lockVars,
        vars, OwnedOK, Key, Ended, LocalOK, StageOK, Locks!LockTypeOK
  <2>2. TargetOK(s)'
    BY <1>31, <1>0 DEF Finish, Close, Forget, Locks!End, Goto, changeVars, lockVars,
        vars, TargetOK, Following, Leads, StaysThere, IsMove, IsRename, Change, Uploads,
        Ended, LocalOK, StageOK
  <2>3. s \in open' => CheckedOK(s)'
    BY <1>31, <1>0 DEF Finish, Close, Forget, Locks!End, Goto, changeVars, lockVars,
        vars, CheckedOK, Key, Change, StaysThere, IsMove
  <2> QED BY <2>1, <2>2, <2>3
<1>32. ASSUME TxLimitAbort(s) PROVE Goal
  <2>1. OwnedOK(s)'
    BY <1>32, <1>0 DEF TxLimitAbort, Close, Locks!End, Goto, changeVars, lockVars, vars,
        OwnedOK, Key, Ended, LocalOK, StageOK, Locks!LockTypeOK
  <2>2. TargetOK(s)'
    BY <1>32, <1>0 DEF TxLimitAbort, Close, Locks!End, Goto, changeVars, lockVars, vars,
        TargetOK, Following, Leads, StaysThere, IsMove, IsRename, Change, Uploads,
        Ended, LocalOK, StageOK
  <2>3. s \in open' => CheckedOK(s)'
    BY <1>32, <1>0 DEF TxLimitAbort, Close, Locks!End, Goto, changeVars, lockVars, vars,
        CheckedOK, Key, Change, StaysThere, IsMove, Children
  <2> QED BY <2>1, <2>2, <2>3
<1> QED BY <1>1, <1>2, <1>3, <1>4, <1>5, <1>6, <1>7, <1>8, <1>9, <1>10, <1>11, <1>12,
      <1>13, <1>14, <1>15, <1>16, <1>17, <1>18, <1>19, <1>20, <1>21, <1>22, <1>23,
      <1>24, <1>25, <1>26, <1>27, <1>28, <1>29, <1>30, <1>31, <1>32 DEF UploadStep, MutationStep, RequestStep

\* A write is the last step of a field or of an upload; what is written stays
\* with a request that goes on, or is undone.
LEMMA FieldStep ==
  ASSUME TypeOK, LocalInv, TouchedInv, NEW s \in Session, OwnedOK(s),
         Ended(s) \/ (Uploads(s) /\ pc[s] # "next") => touched[s] = {},
         UploadStep(s) \/ MutationStep(s) \/ RequestStep(s) \/ TxLimitAbort(s)
  PROVE  /\ Stores(s) => pc'[s] = "next" /\ todo'[s] = todo[s]
         /\ touched'[s] # {} =>
              ~Ended(s)' /\ (Uploads(s) => pc'[s] = "next") /\ FieldsDone(s) \subseteq FieldsDone(s)'
<1> DEFINE Keeps == /\ Stores(s) => pc'[s] = "next" /\ todo'[s] = todo[s]
                   /\ \/ touched'[s] = {}
                      \/ /\ ~Ended(s)' /\ (Uploads(s) => pc'[s] = "next")
                         /\ asked' = asked /\ todo'[s] = todo[s] /\ (pc[s] = "next" => pc'[s] = "next")
<1> USE DEF LocalType, TxType, LocalOK
<1>0. /\ LocalOK(s) /\ Locks!LockTypeOK /\ LocalType /\ TxType
      /\ s \notin open => touched[s] = {}
  BY DEF LocalInv, LocalOK, TypeOK, TouchedInv
<1>1. ASSUME PutIntoFolder(s) PROVE Keeps
  BY <1>1, <1>0 DEF PutIntoFolder, Begin, Lock, Fail, Close, Goto, lockVars, txVars,
      changeVars, Stores, Inserts, Rewrites, Ended, Uploads, StageOK, InSession, Writing
<1>2. ASSUME PutById(s) PROVE Keeps
  BY <1>2, <1>0 DEF PutById, Begin, Fail, Close, Goto, lockVars, txVars, changeVars,
      Stores, Inserts, Rewrites, Ended, Uploads, StageOK, InSession, Writing
<1>3. ASSUME HoldFirstMissing(s) PROVE Keeps
  BY <1>3, <1>0 DEF HoldFirstMissing, Goto, lockVars, txVars, changeVars, Stores,
      Inserts, Rewrites, Ended, Uploads, StageOK, InSession, Writing
<1>4. ~Hold(s)
  BY DEF Hold, OwnedOK
<1>5. ASSUME BeginPath(s) PROVE Keeps
  BY <1>5, <1>0 DEF BeginPath, Begin, Goto, lockVars, txVars, changeVars, Stores,
      Inserts, Rewrites, Ended, Uploads, StageOK, InSession, Writing
<1>6. ASSUME Walk(s) PROVE Keeps
  <2>1. pc[s] = "walk" /\ touched' = touched
    BY <1>6 DEF Walk, txVars
  <2>2. Uploads(s)
    BY <1>0, <2>1, ChangeParts DEF StageOK, Ended
  <2> QED BY <1>0, <2>1, <2>2 DEF Stores, Inserts, Rewrites
<1>7. ASSUME WalkFails(s) PROVE Keeps
  BY <1>7, <1>0 DEF WalkFails, Fail, Close, Goto, lockVars, txVars, changeVars, Stores,
      Inserts, Rewrites, Ended, Uploads, StageOK, InSession, Writing
<1>8. ~CheckFolder(s)
  BY DEF CheckFolder, OwnedOK
<1>9. ~InsertFolder(s)
  BY DEF InsertFolder, Writes, OwnedOK
<1>10. ASSUME CheckUpload(s) PROVE Keeps
  BY <1>10, <1>0 DEF CheckUpload, Goto, lockVars, txVars, changeVars, Stores, Inserts,
      Rewrites, Ended, Uploads, StageOK, InSession, Writing
<1>11. ASSUME BeginMutation(s) PROVE Keeps
  BY <1>11, <1>0 DEF BeginMutation, Begin, Goto, lockVars, txVars, changeVars, Stores,
      Inserts, Rewrites, Ended, Uploads, StageOK, InSession, Writing
<1>12. ASSUME Create(s) PROVE Keeps
  BY <1>12, <1>0 DEF Create, Goto, lockVars, txVars, changeVars, Stores, Inserts,
      Rewrites, Ended, Uploads, StageOK, InSession, Writing
<1>13. ASSUME Update(s) PROVE Keeps
  BY <1>13, <1>0 DEF Update, Lock, Fail, Close, Goto, lockVars, txVars, changeVars,
      Stores, Inserts, Rewrites, Ended, Uploads, StageOK, InSession, Writing
<1>14. ASSUME Delete(s) PROVE Keeps
  BY <1>14, <1>0 DEF Delete, Goto, lockVars, txVars, changeVars, Stores, Inserts,
      Rewrites, Ended, Uploads, StageOK, InSession, Writing
<1>15. ASSUME Visible(s) PROVE Keeps
  BY <1>15, <1>0 DEF Visible, Lock, Fail, Close, Goto, lockVars, txVars, changeVars,
      Stores, Inserts, Rewrites, Ended, Uploads, StageOK, InSession, Writing
<1>16. ASSUME NotBelowItself(s) PROVE Keeps
  BY <1>16, <1>0 DEF NotBelowItself, Lock, Fail, Close, Goto, lockVars, txVars,
      changeVars, Stores, Inserts, Rewrites, Ended, Uploads, StageOK, InSession, Writing
<1>17. ASSUME CheckName(s) PROVE Keeps
  BY <1>17, <1>0 DEF CheckName, Fail, Close, Goto, lockVars, txVars, changeVars, Stores,
      Inserts, Rewrites, Ended, Uploads, StageOK, InSession, Writing
<1>18. ASSUME UpdateEntry(s) PROVE Keeps
  BY <1>18, <1>0 DEF UpdateEntry, Writes, Goto, lockVars, txVars, changeVars, Stores,
      Inserts, Rewrites, Ended, Uploads, StageOK, InSession, Writing
<1>19. ASSUME Erase(s) PROVE Keeps
  BY <1>19, <1>0 DEF Erase, Writes, Goto, lockVars, txVars, changeVars, Stores, Inserts,
      Rewrites, Ended, Uploads, StageOK, InSession, Writing
<1>20. ASSUME Snapshot(s) PROVE Keeps
  BY <1>20, <1>0 DEF Snapshot, Goto, lockVars, txVars, changeVars, Stores, Inserts,
      Rewrites, Ended, Uploads, StageOK, InSession, Writing
<1>21. ASSUME GrantName(s) PROVE Keeps
  BY <1>21, <1>0 DEF GrantName, Goto, lockVars, txVars, changeVars, Stores, Inserts,
      Rewrites, Ended, Uploads, StageOK, InSession, Writing
<1>22. ASSUME ShareName(s) PROVE Keeps
  BY <1>22, <1>0 DEF ShareName, Goto, lockVars, txVars, changeVars, Stores, Inserts,
      Rewrites, Ended, Uploads, StageOK, InSession, Writing
<1>23. ASSUME LockFails(s) PROVE Keeps
  BY <1>23, <1>0 DEF LockFails, Fail, Close, Goto, lockVars, txVars, changeVars, Stores,
      Inserts, Rewrites, Ended, Uploads, StageOK, InSession, Writing
<1>24. ASSUME Insert(s) PROVE Keeps
  BY <1>24, <1>0 DEF Insert, Writes, Goto, lockVars, txVars, changeVars, Stores,
      Inserts, Rewrites, Ended, Uploads, StageOK, InSession, Writing
<1>25. ASSUME Replace(s) PROVE Keeps
  BY <1>25, <1>0 DEF Replace, Writes, Goto, lockVars, txVars, changeVars, Stores,
      Inserts, Rewrites, Ended, Uploads, StageOK, InSession, Writing
<1>26. ASSUME WriteFails(s) PROVE Keeps
  BY <1>26, <1>0 DEF WriteFails, Fail, Close, Goto, lockVars, txVars, changeVars,
      Stores, Inserts, Rewrites, Ended, Uploads, StageOK, InSession, Writing
<1>27. ASSUME Commit(s) PROVE Keeps
  BY <1>27, <1>0 DEF Commit, Goto, lockVars, txVars, changeVars, Stores, Inserts,
      Rewrites, Ended, Uploads, StageOK, InSession, Writing
<1>28. ASSUME SessionFails(s) PROVE Keeps
  BY <1>28, <1>0 DEF SessionFails, Fail, Close, Goto, lockVars, txVars, changeVars,
      Stores, Inserts, Rewrites, Ended, Uploads, StageOK, InSession, Writing
<1>29. ASSUME NEW k \in owned[s], ReleaseName(s, k) PROVE Keeps
  BY <1>29, <1>0 DEF ReleaseName, Goto, lockVars, txVars, changeVars, Stores, Inserts,
      Rewrites, Ended, Uploads, StageOK, InSession, Writing
<1>30. ASSUME Finish(s) PROVE Keeps
  BY <1>30, <1>0 DEF Finish, Close, Forget, Goto, lockVars, txVars, changeVars, Stores,
      Inserts, Rewrites, Ended, Uploads, StageOK, InSession, Writing
<1>31. ASSUME TxLimitAbort(s) PROVE Keeps
  BY <1>31, <1>0 DEF TxLimitAbort, Close, Locks!End, Goto, lockVars, txVars, changeVars,
      Stores, Inserts, Rewrites, Ended, Uploads, StageOK, InSession, Writing
<1>32. ASSUME Keeps PROVE touched'[s] # {} =>
              ~Ended(s)' /\ (Uploads(s) => pc'[s] = "next") /\ FieldsDone(s) \subseteq FieldsDone(s)'
  <2>1. Len(asked[s]) \in Nat /\ Len(todo[s]) \in Nat
    BY <1>0, RequestType
  <2>2. \A l, m \in Nat : 1..(l - m + 0) \subseteq 1..(l - m + 1)
    OBVIOUS
  <2> QED BY <1>32, <2>1, <2>2 DEF FieldsDone
<1>33. ASSUME NextChange(s)
      PROVE  /\ ~Stores(s) /\ ~Ended(s)' /\ (Uploads(s) => pc'[s] = "next")
             /\ FieldsDone(s) \subseteq FieldsDone(s)'
  <2>1. /\ pc[s] = "next" /\ pc'[s] = "change" /\ asked' = asked /\ Len(todo[s]) > 1
        /\ todo'[s] = Tail(todo[s]) /\ ~Uploads(s)
    <3>1. /\ pc[s] = "next" /\ pc'[s] = "change" /\ asked' = asked /\ Len(todo[s]) > 1
          /\ todo'[s] = Tail(todo[s])
      BY <1>33, <1>0 DEF NextChange, Goto
    <3>2. TodoOK(s) /\ ~Ended(s)
      BY <1>0, <3>1 DEF Ended
    <3>3. Uploads(s) => Len(todo[s]) = 1
      BY <3>2 DEF TodoOK
    <3>4. Len(todo[s]) > 1
      BY <3>1
    <3>5. \A l : l > 1 => l # 1
      OBVIOUS
    <3>6. ~Uploads(s)
      BY <3>3, <3>4, <3>5
    <3> QED BY <3>1, <3>6
  <2>2. Len(asked[s]) \in Nat /\ Len(todo[s]) \in Nat /\ Len(todo'[s]) = Len(todo[s]) - 1
    BY <1>0, <2>1, RequestType, HeadOf
  <2>3. Len(asked[s]) - Len(todo[s]) + 1 = Len(asked[s]) - Len(todo'[s]) + 0
    BY <2>2
  <2> QED BY <2>1, <2>3 DEF FieldsDone, Ended, Stores, Inserts, Rewrites
<1> QED BY <1>1, <1>2, <1>3, <1>4, <1>5, <1>6, <1>7, <1>8, <1>9, <1>10, <1>11, <1>12,
      <1>13, <1>14, <1>15, <1>16, <1>17, <1>18, <1>19, <1>20, <1>21, <1>22, <1>23,
      <1>24, <1>25, <1>26, <1>27, <1>28, <1>29, <1>30, <1>31, <1>32, <1>33 DEF UploadStep, MutationStep, RequestStep

-----------------------------------------------------------------------------
(***************************************************************************)
(* What a write does to the entries of its own transaction.                *)
(***************************************************************************)

\* What the steady part of the invariant says of one request.
SteadyOf(s) ==
  /\ OwnedOK(s) /\ TargetOK(s)
  /\ s \in open => WrittenOK(s) /\ CheckedOK(s) /\ ClaimOK(s) /\ OriginOK(s)

\* An entry that stays as it is has the same result.
LEMMA ResultSame ==
  ASSUME NEW s, NEW n \in Node, tree' = tree, view'[s][n] = view[s][n],
         touched'[s] \cap Documents({n}) = touched[s] \cap Documents({n})
  PROVE  /\ Result(s, n)' = Result(s, n) /\ Place(s, n)' = Place(s, n)
         /\ Changed(s, n)' <=> Changed(s, n)
<1>1. /\ <<n, "entry">> \in touched'[s] <=> <<n, "entry">> \in touched[s]
      /\ <<n, "link">> \in touched'[s] <=> <<n, "link">> \in touched[s]
  BY DEF Documents
<1>2. Result(s, n)' = Result(s, n)
  BY <1>1 DEF Result, Merged
<1>3. Touches(s, n)' <=> Touches(s, n)
  BY DEF Touches
<1> QED BY <1>2, <1>3 DEF Changed, Kept, Place

\* What a commit would make of an entry, field by field.
LEMMA ResultNext ==
  ASSUME NEW s, NEW n \in Node, tree'[n] \in Entry, view'[s][n] \in Entry
  PROVE  /\ Result(s, n)'.name = IF <<n, "entry">> \in touched'[s] THEN view'[s][n].name ELSE tree'[n].name
         /\ Result(s, n)'.parent = IF <<n, "link">> \in touched'[s] THEN view'[s][n].parent ELSE tree'[n].parent
<1>1. Result(s, n)' =
        LET entry == <<n, "entry">> \in touched'[s]
            link == <<n, "link">> \in touched'[s]
        IN IF entry /\ link THEN view'[s][n]
           ELSE IF entry THEN [view'[s][n] EXCEPT !.parent = tree'[n].parent]
           ELSE IF link THEN [tree'[n] EXCEPT !.parent = view'[s][n].parent]
           ELSE tree'[n]
  BY DEF Result, Merged
<1> QED BY <1>1 DEF Entry, Absent

\* A write says of an entry where it is now: where it was, or at the key of s.
Old(s, n) ==
  /\ Changed(s, n)
  /\ Result(s, n)'.parent = Result(s, n).parent /\ Result(s, n)'.name = Result(s, n).name
AtKey(s, n) ==
  /\ Result(s, n)'.parent = place[s] /\ Result(s, n)'.name = name[s]
  /\ Key(s) \in shared[s]
  /\ Children(tree, place[s], name[s]) \subseteq {n}
  /\ ~Uploads(s) => Led(Change(s), s, n)'

\* Every changed entry is where it was, or it is one that is now at the key of s.
Effect(s) ==
  /\ WrittenOK(s)'
  /\ \E new : \A n \in Node : Changed(s, n)' => Old(s, n) \/ (n = new /\ AtKey(s, n))

\* A new entry is at the key, which was free.
LEMMA InsertEffect ==
  ASSUME Steady, GInv, NEW s \in Session, SteadyOf(s), Stores(s), Inserts(s), todo'[s] = todo[s], asked' = asked
  PROVE  Effect(s)
<1>0. /\ s \in open /\ begun[s] /\ tree' = tree /\ shared' = shared
      /\ OwnedOK(s) /\ TargetOK(s) /\ WrittenOK(s) /\ CheckedOK(s)
      /\ TypeOK /\ LocalInv /\ TxInv /\ LocalOK(s)
  BY DEF Stores, SteadyOf, GInv, LocalInv, LocalOK
<1>1. pc[s] = "insert" /\ ~Ended(s)
  BY <1>0 DEF Inserts, OwnedOK, Ended
<1>2. PICK n \in NewNode(s) :
        /\ n \in New(s) /\ n \in Node
        /\ touched' = [touched EXCEPT ![s] = @ \cup Documents({n})]
        /\ view'[s][n].parent = place[s] /\ view'[s][n].name = name[s] /\ view'[s][n] # Absent
        /\ \A m \in Node \ {n} : view'[s][m] = view[s][m]
        /\ \A t \in Session \ {s} : view'[t] = view[t]
  BY <1>0, InsertParts
<1>3. touched'[s] = touched[s] \cup Documents({n})
  BY <1>0, <1>2 DEF TypeOK
<1>4. ASSUME NEW m \in Node, m # n
      PROVE  /\ view'[s][m] = view[s][m]
             /\ touched'[s] \cap Documents({m}) = touched[s] \cap Documents({m})
  BY <1>2, <1>3, <1>4 DEF Documents
<1>5. WrittenOK(s)'
  <2> SUFFICES ASSUME NEW m \in Node \ New(s), view'[s][m] # Absent
               PROVE  /\ <<m, "link">> \in touched'[s] => m \notin Renamed
                      /\ <<m, "entry">> \in touched'[s] =>
                           \/ view'[s][m].name = tree'[m].name
                           \/ \E c \in Changes : IsRename(c) /\ c.id = m /\ view'[s][m].name = c.name
    BY DEF WrittenOK
  <2>1. m # n
    BY <1>2
  <2>2. view'[s][m] = view[s][m] /\ (<<m, "link">> \in touched'[s] <=> <<m, "link">> \in touched[s])
        /\ (<<m, "entry">> \in touched'[s] <=> <<m, "entry">> \in touched[s])
    BY <1>4, <2>1 DEF Documents
  <2> QED BY <1>0, <2>2 DEF WrittenOK
<1>6. \A m \in Node : m # n /\ Changed(s, m)' => Old(s, m)
  BY <1>0, <1>4, ResultSame DEF Old
<1>7. AtKey(s, n)
  <2>1. Result(s, n)' = view'[s][n]
    BY <1>2, <1>3 DEF Result, Merged, Documents
  <2>2. Key(s) \in shared[s] /\ Children(tree, place[s], name[s]) = {}
    BY <1>0, <1>1 DEF OwnedOK, CheckedOK
  <2>3. ASSUME ~Uploads(s) PROVE Led(Change(s), s, n)'
    <3>1. PICK c : c = Change(s)
      OBVIOUS
    <3>2. c.op = "create" /\ Change(s)' = c
      BY <1>0, <1>1, <2>3, <3>1, ChangeParts DEF LocalOK, StageOK, Change
    <3>3. place[s] = c.in /\ name[s] = c.name
      BY <1>0, <1>1, <3>1, <3>2 DEF TargetOK
    <3> QED BY <1>2, <2>1, <3>2, <3>3 DEF Led, Place
  <2> QED BY <1>2, <2>1, <2>2, <2>3 DEF AtKey
<1> QED BY <1>5, <1>6, <1>7 DEF Effect

\* A document that s may write belongs to an entry that is there.
LEMMA WrittenThere ==
  ASSUME TypeOK, TxInv, NEW s \in open, begun[s], ~Ended(s), Possible(s),
         NEW n \in target[s], view[s][n] # Absent, Written(s) \cap Documents({n}) # {}
  PROVE  n \in Node /\ n \notin New(s) /\ tree[n] # Absent
<1>1. s \in Session /\ n \in Node
  BY DEF TypeOK, Locks!LockTypeOK
<1>2. n \notin New(s)
  BY <1>1 DEF TxInv, NewInv
<1>3. ~(Documents({n}) \subseteq stale[s])
  BY DEF Possible, Conflicting
<1> QED BY <1>1, <1>2, <1>3 DEF TxInv, ViewInv

\* New content leaves an entry where it is.
LEMMA ReplaceEffect ==
  ASSUME Steady, GInv, NEW s \in Session, SteadyOf(s), Stores(s), Rewrites(s), pc[s] = "replace",
         todo'[s] = todo[s], asked' = asked
  PROVE  Effect(s)
<1>0. /\ s \in open /\ begun[s] /\ tree' = tree /\ Possible(s) /\ ~Ended(s)
      /\ TargetOK(s) /\ OriginOK(s) /\ WrittenOK(s)
      /\ TypeOK /\ LocalInv /\ TxInv /\ LocalOK(s)
  BY DEF Stores, SteadyOf, GInv, LocalInv, LocalOK, Ended
<1>1. touched[s] = {}
  BY <1>0 DEF OriginOK, LocalOK, StageOK
<1>2. touched'[s] = target[s] \X {"entry"} /\ target[s] \subseteq Node /\ Written(s) = target[s] \X {"entry"}
  BY <1>0, <1>1, RewriteParts DEF Written, TypeOK
<1>3. ASSUME NEW n \in target[s]
      PROVE  /\ tree[n] # Absent /\ view'[s][n].name = tree[n].name
             /\ Result(s, n)' = [view'[s][n] EXCEPT !.parent = tree[n].parent]
             /\ view'[s][n] # Absent /\ view'[s][n] \in Entry
  <2>1. view[s][n] # Absent /\ view'[s][n] # Absent /\ view'[s][n].name = name[s]
    BY <1>0, RewriteParts
  <2>2. tree[n] # Absent
    <3>1. <<n, "entry">> \in Written(s) \cap Documents({n})
      BY <1>2 DEF Documents
    <3> QED BY <1>0, <2>1, <3>1, WrittenThere
  <2>3. tree[n].name = name[s]
    BY <1>0, <2>2 DEF TargetOK
  <2>4. Result(s, n)' = [view'[s][n] EXCEPT !.parent = tree[n].parent]
    BY <1>0, <1>2 DEF Result, Merged
  <2>5. view'[s][n] \in Entry
    <3>1. TxType'
      BY <1>0, TxStep DEF Shape
    <3> QED BY <1>2, <3>1 DEF TxType
  <2> QED BY <2>1, <2>2, <2>3, <2>4, <2>5
<1>4. WrittenOK(s)'
  BY <1>0, <1>2, <1>3 DEF WrittenOK
<1>5. ASSUME NEW n \in Node PROVE ~Changed(s, n)'
  <2>1. CASE n \in target[s]
    <3>1. Result(s, n)'.parent = tree[n].parent /\ Result(s, n)'.name = tree[n].name
      BY <1>3, <2>1 DEF Entry, Absent
    <3> QED BY <1>0, <1>3, <2>1, <3>1 DEF Changed, Kept
  <2>2. CASE n \notin target[s]
    BY <1>2, <2>2 DEF Changed, Touches, Documents
  <2> QED BY <2>1, <2>2
<1> QED BY <1>4, <1>5 DEF Effect

\* Nothing erased has a place.
LEMMA EraseEffect ==
  ASSUME Steady, GInv, NEW s \in Session, SteadyOf(s), Stores(s), Rewrites(s), pc[s] = "erase",
         todo'[s] = todo[s], asked' = asked
  PROVE  Effect(s)
<1>0. /\ s \in open /\ tree' = tree /\ Possible(s) /\ WrittenOK(s)
      /\ TypeOK /\ LocalInv
  BY DEF Stores, SteadyOf, GInv
<1>1. /\ touched'[s] = touched[s] \cup Written(s) /\ Written(s) \subseteq Documents(target[s])
      /\ \A n \in target[s] : view'[s][n] = Absent
      /\ \A n \in Node \ target[s] : view'[s][n] = view[s][n]
  BY <1>0, RewriteParts DEF TypeOK
<1>2. ASSUME NEW n \in Node \ target[s]
      PROVE  /\ view'[s][n] = view[s][n]
             /\ touched'[s] \cap Documents({n}) = touched[s] \cap Documents({n})
  BY <1>1 DEF Documents
<1>3. WrittenOK(s)'
  <2> SUFFICES ASSUME NEW n \in Node \ New(s), view'[s][n] # Absent
               PROVE  /\ <<n, "link">> \in touched'[s] => n \notin Renamed
                      /\ <<n, "entry">> \in touched'[s] =>
                           \/ view'[s][n].name = tree'[n].name
                           \/ \E c \in Changes : IsRename(c) /\ c.id = n /\ view'[s][n].name = c.name
    BY DEF WrittenOK
  <2>1. n \notin target[s]
    BY <1>1
  <2>2. view'[s][n] = view[s][n] /\ (<<n, "link">> \in touched'[s] <=> <<n, "link">> \in touched[s])
        /\ (<<n, "entry">> \in touched'[s] <=> <<n, "entry">> \in touched[s])
    BY <1>2, <2>1 DEF Documents
  <2> QED BY <1>0, <2>2 DEF WrittenOK
<1>4. \A n \in Node : Changed(s, n)' => Old(s, n)
  <2> SUFFICES ASSUME NEW n \in Node, Changed(s, n)' PROVE Old(s, n)
    OBVIOUS
  <2>1. n \notin target[s]
    BY <1>1 DEF Changed
  <2> QED BY <1>0, <1>2, <2>1, ResultSame DEF Old
<1> QED BY <1>3, <1>4 DEF Effect

\* A renamed or moved entry is where the handler has looked, under its lock.
LEMMA UpdateEffect ==
  ASSUME Steady, GInv, NEW s \in Session, SteadyOf(s), Stores(s), Rewrites(s), pc[s] = "update",
         todo'[s] = todo[s], asked' = asked
  PROVE  Effect(s)
<1>0. /\ s \in open /\ begun[s] /\ tree' = tree /\ shared' = shared /\ Possible(s) /\ ~Ended(s)
      /\ TargetOK(s) /\ OriginOK(s) /\ WrittenOK(s) /\ CheckedOK(s)
      /\ TypeOK /\ LocalInv /\ TxInv /\ LocalOK(s)
  BY DEF Stores, SteadyOf, GInv, LocalInv, LocalOK, Ended
<1>1. PICK c : c = Change(s)
  OBVIOUS
<1>2. /\ c.op = "update" /\ ~Uploads(s) /\ c.id \in Node /\ c.id \in OldNode /\ Change(s)' = c
      /\ target[s] = {c.id}
  BY <1>0, <1>1, ChangeParts DEF LocalOK, StageOK, Change, TargetOK, Following
<1>3. c \in Changes
  BY <1>0, <1>1, <1>2, SteadyChange DEF LocalOK
<1> DEFINE n == c.id
<1>4. /\ touched'[s] = touched[s] \cup Written(s)
      /\ Written(s) \subseteq Documents({n})
      /\ <<n, "entry">> \in Written(s) <=> IsRename(c)
      /\ <<n, "link">> \in Written(s) <=> IsMove(c)
      /\ view[s][n] # Absent /\ view'[s][n] # Absent
      /\ view'[s][n].name = IF IsRename(c) THEN c.name ELSE view[s][n].name
      /\ view'[s][n].parent = IF IsMove(c) THEN c.to ELSE view[s][n].parent
      /\ \A m \in Node \ {n} : view'[s][m] = view[s][m]
  <2>1. \A d : d \in Written(s) <=>
          d \in Documents({n}) /\ ((d[2] = "entry" /\ c.name # NoName) \/ (d[2] = "link" /\ c.to # NoNode))
    <3>1. Written(s) = UpdateDocuments(s)
      BY DEF Written
    <3>2. target[s] = {n} /\ Change(s) = c
      BY <1>1, <1>2
    <3> HIDE DEF n
    <3> QED BY <3>1, <3>2 DEF UpdateDocuments
  <2>2. /\ touched' = [touched EXCEPT ![s] = @ \cup Written(s)]
        /\ view[s][n] # Absent /\ view'[s][n] # Absent
        /\ view'[s][n].name = IF c.name = NoName THEN view[s][n].name ELSE c.name
        /\ view'[s][n].parent = IF c.to = NoNode THEN view[s][n].parent ELSE c.to
        /\ \A m \in Node \ {n} : view'[s][m] = view[s][m]
    BY <1>0, <1>1, <1>2, RewriteParts
  <2>3. touched'[s] = touched[s] \cup Written(s)
    BY <1>0, <2>2 DEF TypeOK
  <2> HIDE DEF n
  <2>4. /\ <<n, "entry">> \in Written(s) <=> c.name # NoName
        /\ <<n, "link">> \in Written(s) <=> c.to # NoNode
    <3>1. /\ <<n, "entry">> \in Documents({n}) /\ <<n, "entry">>[2] = "entry"
          /\ <<n, "link">> \in Documents({n}) /\ <<n, "link">>[2] = "link"
      BY DEF Documents
    <3> QED BY <2>1, <3>1
  <2> QED BY <1>2, <2>1, <2>2, <2>3, <2>4 DEF IsRename, IsMove
<1>5. n \in Node /\ n \notin New(s)
  BY <1>0, <1>2, NewApart, TypeParts DEF GInv, Stores, Locks!LockTypeOK
<1>6. ~Uploads(s) /\ target[s] = {n} /\ Change(s) = c /\ Change(s)' = c
  BY <1>1, <1>2
<1>7. IsRename(c) => n \in Renamed /\ ~IsMove(c)
  BY <1>3, RenamedOnce
<1>8. IsMove(c) => n \notin Renamed
  BY <1>3, RenamedOnce
<1>9. tree[n] # Absent => Leads(s, c)
  BY <1>0, <1>1, <1>2 DEF TargetOK, Following
<1>10. IsRename(c) \/ IsMove(c) =>
         /\ tree[n] # Absent
         /\ \/ Key(s) \in shared[s] /\ Children(tree, place[s], name[s]) \subseteq {n}
            \/ ~IsMove(c) /\ StaysThere(c)
  <2> SUFFICES ASSUME IsRename(c) \/ IsMove(c)
               PROVE  /\ tree[n] # Absent
                      /\ \/ Key(s) \in shared[s] /\ Children(tree, place[s], name[s]) \subseteq {n}
                         \/ ~IsMove(c) /\ StaysThere(c)
    OBVIOUS
  <2>1. Written(s) \cap Documents({n}) # {}
    BY <1>4
  <2>2. tree[n] # Absent
    BY <1>0, <1>4, <1>6, <2>1, WrittenThere
  <2> QED BY <1>0, <1>1, <1>2, <2>2 DEF CheckedOK
<1>11. IsRename(c) /\ tree[n].parent # NoNode /\ c.name # tree[n].name => ~StaysThere(c)
  BY DEF StaysThere, IsRename
<1>12. StaysThere(c) /\ IsRename(c) => tree[n].parent = NoNode \/ c.name = tree[n].name
  BY <1>11
<1>13. tree[n] # Absent /\ IsMove(c) => place[s] = c.to /\ name[s] = tree[n].name
  BY <1>7, <1>9 DEF Leads
<1>14. tree[n] # Absent /\ IsRename(c) /\ ~StaysThere(c) => place[s] = tree[n].parent /\ name[s] = c.name
  BY <1>7, <1>9 DEF Leads
<1>15. IsMove(c) => c.to # NoNode
  BY DEF IsMove
<1>16. WrittenOK(s) /\ (<<n, "link">> \in touched[s] => n \notin Renamed)
       /\ (<<n, "entry">> \in touched[s] =>
             \/ view[s][n].name = tree[n].name
             \/ \E d \in Changes : IsRename(d) /\ d.id = n /\ view[s][n].name = d.name)
  BY <1>0, <1>4, <1>5 DEF WrittenOK
<1>17. n \notin Renamed /\ <<n, "entry">> \in touched[s] => view[s][n].name = tree[n].name
  BY <1>16 DEF Renamed
<1>18. IsRename(c) => \E d \in Changes : IsRename(d) /\ d.id = n /\ c.name = d.name
  BY <1>3
<1> HIDE DEF n
<1>19. ASSUME NEW m \in Node, m # n
       PROVE  /\ view'[s][m] = view[s][m]
              /\ touched'[s] \cap Documents({m}) = touched[s] \cap Documents({m})
  BY <1>4, <1>19 DEF Documents
<1>20. WrittenOK(s)'
  <2> SUFFICES ASSUME NEW m \in Node \ New(s), view'[s][m] # Absent
               PROVE  /\ <<m, "link">> \in touched'[s] => m \notin Renamed
                      /\ <<m, "entry">> \in touched'[s] =>
                           \/ view'[s][m].name = tree'[m].name
                           \/ \E d \in Changes : IsRename(d) /\ d.id = m /\ view'[s][m].name = d.name
    BY DEF WrittenOK
  <2>1. CASE m = n
    BY <1>0, <1>4, <1>7, <1>8, <1>16, <1>17, <1>18, <2>1
  <2>2. CASE m # n
    <3>1. view'[s][m] = view[s][m] /\ (<<m, "link">> \in touched'[s] <=> <<m, "link">> \in touched[s])
          /\ (<<m, "entry">> \in touched'[s] <=> <<m, "entry">> \in touched[s])
      BY <1>19, <2>2 DEF Documents
    <3> QED BY <1>0, <3>1 DEF WrittenOK
  <2> QED BY <2>1, <2>2
<1>21. \A m \in Node : m # n /\ Changed(s, m)' => Old(s, m)
  BY <1>0, <1>19, ResultSame DEF Old
<1>22. tree[n] \in Entry /\ view'[s][n] \in Entry
  <2>1. TxType'
    BY <1>0, TxStep DEF Shape
  <2> QED BY <1>0, <1>5, <2>1 DEF TxType, TypeOK
<1>23. /\ Result(s, n)'.name = IF <<n, "entry">> \in touched'[s] THEN view'[s][n].name ELSE tree[n].name
       /\ Result(s, n)'.parent = IF <<n, "link">> \in touched'[s] THEN view'[s][n].parent ELSE tree[n].parent
  BY <1>0, <1>5, <1>22, ResultNext
<1>24. ASSUME ~IsRename(c), ~IsMove(c), Changed(s, n)' PROVE Old(s, n)
  <2>1. Written(s) = {}
    BY <1>4, <1>24 DEF Documents
  <2>2. view'[s][n].name = view[s][n].name /\ view'[s][n].parent = view[s][n].parent /\ touched'[s] = touched[s]
    BY <1>4, <1>24, <2>1
  <2>3. /\ Result(s, n).name = (IF <<n, "entry">> \in touched[s] THEN view[s][n].name ELSE tree[n].name)
        /\ Result(s, n).parent = (IF <<n, "link">> \in touched[s] THEN view[s][n].parent ELSE tree[n].parent)
    BY <1>0, <1>5, MergedEntry DEF Result
  <2>4. Result(s, n)'.name = Result(s, n).name /\ Result(s, n)'.parent = Result(s, n).parent
    BY <1>23, <2>2, <2>3
  <2> QED BY <1>0, <1>4, <1>24, <2>2, <2>4 DEF Old, Changed, Kept, Touches
<1>25. ASSUME IsRename(c) \/ IsMove(c), Changed(s, n)'
       PROVE  tree[n] # Absent /\ Result(s, n)'.parent # NoNode
              /\ (Result(s, n)'.parent # tree[n].parent \/ Result(s, n)'.name # tree[n].name)
  BY <1>0, <1>10, <1>25 DEF Changed, Kept
<1>26. ASSUME IsRename(c), Changed(s, n)' PROVE AtKey(s, n)
  <2>1. Result(s, n)'.name = c.name /\ Result(s, n)'.parent = tree[n].parent
    BY <1>4, <1>7, <1>16, <1>23, <1>26
  <2>2. ~StaysThere(c)
    BY <1>11, <1>25, <1>26, <2>1
  <2>3. place[s] = tree[n].parent /\ name[s] = c.name /\ Key(s) \in shared[s]
        /\ Children(tree, place[s], name[s]) \subseteq {n}
    BY <1>10, <1>14, <1>26, <2>2
  <2>4. Led(c, s, n)'
    BY <1>7, <1>26, <2>1 DEF Led, IsRename, IsMove
  <2> QED BY <1>6, <2>1, <2>3, <2>4 DEF AtKey
<1>27. ASSUME IsMove(c), Changed(s, n)' PROVE AtKey(s, n)
  <2>1. ~IsRename(c) /\ n \notin Renamed
    BY <1>7, <1>8, <1>27
  <2>2. Result(s, n)'.parent = c.to /\ Result(s, n)'.name = tree[n].name
    BY <1>4, <1>17, <1>23, <1>27, <2>1
  <2>3. place[s] = c.to /\ name[s] = tree[n].name /\ Key(s) \in shared[s]
        /\ Children(tree, place[s], name[s]) \subseteq {n}
    BY <1>10, <1>13, <1>27
  <2>4. Led(c, s, n)'
    BY <1>27, <2>1, <2>2 DEF Led, IsRename, IsMove
  <2> QED BY <1>6, <2>2, <2>3, <2>4 DEF AtKey
<1> QED BY <1>20, <1>21, <1>24, <1>26, <1>27 DEF Effect

\* Two fields that stay apart lead to different places.
LEMMA ApartPlaces ==
  ASSUME NEW c, NEW d, Apart(c, d), NEW p, NEW m, NEW q, NEW l,
         \/ c.op = "create" /\ p = c.in /\ m = c.name
         \/ (IsRename(c) \/ IsMove(c)) /\ (IsRename(c) => m = c.name) /\ (IsMove(c) => p = c.to),
         \/ d.op = "create" /\ q = d.in /\ l = d.name
         \/ (IsRename(d) \/ IsMove(d)) /\ (IsRename(d) => l = d.name) /\ (IsMove(d) => q = d.to)
  PROVE  <<p, m>> # <<q, l>>
BY DEF Apart, IsRename, IsMove

\* A write keeps what the transaction knows of its entries.
LEMMA StoreTx ==
  ASSUME Steady, GInv, NEW s \in Session, SteadyOf(s), Stores(s), asked' = asked,
         pc'[s] = "next", todo'[s] = todo[s], FieldsDone(s) \subseteq FieldsDone(s)'
  PROVE  WrittenOK(s)' /\ ClaimOK(s)' /\ OriginOK(s)'
<1>0. /\ s \in open /\ tree' = tree /\ shared' = shared
      /\ TypeOK /\ LocalInv /\ TxInv /\ LocalOK(s) /\ asked[s] \in Request
      /\ OwnedOK(s) /\ ClaimOK(s) /\ OriginOK(s)
  BY DEF Stores, SteadyOf, GInv, LocalInv, LocalOK, TypeOK
<1>1. Effect(s) /\ pc[s] \in Writing /\ pc[s] # "insertFolder"
  <2>1. CASE Inserts(s)
    BY <1>0, <2>1, InsertEffect DEF Inserts, Writing, OwnedOK
  <2>2. CASE Rewrites(s)
    BY <1>0, <2>2, ReplaceEffect, EraseEffect, UpdateEffect DEF Rewrites, Writing
  <2> QED BY <2>1, <2>2 DEF Stores
<1>2. ~Ended(s) /\ pc[s] # "next" /\ ~Ended(s)' /\ Uploads(s)' = Uploads(s)
  BY <1>1 DEF Writing, Ended, Uploads
<1>3. PICK new : \A n \in Node : Changed(s, n)' => Old(s, n) \/ (n = new /\ AtKey(s, n))
  BY <1>1 DEF Effect
<1>4. ClaimOK(s)'
  <2> SUFFICES ASSUME NEW n \in Node, Changed(s, n)'
               PROVE  /\ Place(s, n)' \in shared'[s]
                      /\ Children(tree', Result(s, n)'.parent, Result(s, n)'.name) \subseteq {n}
    BY DEF ClaimOK, Children
  <2>1. CASE Old(s, n)
    BY <1>0, <2>1 DEF Old, ClaimOK, Place
  <2>2. CASE AtKey(s, n)
    BY <1>0, <2>2 DEF AtKey, Place, Key
  <2> QED BY <1>3, <2>1, <2>2
<1>5. ASSUME ~Uploads(s)
      PROVE  LET k == Len(asked[s]) - Len(todo[s]) + 1
             IN /\ k \in 1..Len(asked[s]) /\ Change(s) = asked[s][k] /\ k \in FieldsDone(s)'
                /\ \A i \in FieldsDone(s) : i \in 1..Len(asked[s]) /\ i # k
  <2> DEFINE k == Len(asked[s]) - Len(todo[s]) + 1
  <2>1. k \in 1..Len(asked[s]) /\ Change(s) = asked[s][k]
    BY <1>0, <1>2, <1>5, SteadyChange DEF LocalOK
  <2>2. Len(asked[s]) \in Nat /\ Len(todo[s]) \in 1..Len(asked[s])
    BY <1>0, <1>2, <1>5, RequestType DEF LocalOK, TodoOK
  <2>3. FieldsDone(s)' = 1..k
    BY DEF FieldsDone
  <2>4. FieldsDone(s) = 1..(Len(asked[s]) - Len(todo[s]))
    BY <1>2, <2>2 DEF FieldsDone
  <2>5. \A l \in Nat : \A m \in 1..l : \A i \in 1..(l - m) : i \in 1..l /\ i # l - m + 1
    OBVIOUS
  <2>6. \A l \in Nat : \A m \in 1..l : l - m + 1 \in 1..(l - m + 1)
    OBVIOUS
  <2> QED BY <2>1, <2>2, <2>3, <2>4, <2>5, <2>6
<1>6. ASSUME ~Uploads(s), NEW n \in Node, Changed(s, n)'
      PROVE  \E i \in FieldsDone(s)' : Led(asked[s][i], s, n)'
  <2>1. CASE Old(s, n)
    <3>1. PICK i \in FieldsDone(s) : Led(asked[s][i], s, n)
      BY <1>0, <1>6, <2>1 DEF OriginOK, Old
    <3>2. Led(asked[s][i], s, n)'
      <4>1. PICK c : c = asked[s][i]
        OBVIOUS
      <4> QED BY <1>0, <2>1, <3>1, <4>1 DEF Led, Old, Place
    <3> QED BY <3>1, <3>2
  <2>2. CASE AtKey(s, n)
    <3>1. PICK c : c = Change(s)
      OBVIOUS
    <3>2. Led(c, s, n)' /\ Change(s)' = c
      BY <1>6, <2>2, <3>1 DEF AtKey, Change
    <3> QED BY <1>5, <1>6, <3>1, <3>2 DEF Led
  <2> QED BY <1>3, <1>6, <2>1, <2>2
<1>7. ASSUME NEW m \in Node, NEW n \in Node, Old(s, m), AtKey(s, n)
      PROVE  Place(s, m)' # Place(s, n)'
  <2>1. CASE Uploads(s)
    BY <1>0, <1>2, <1>7, <2>1 DEF OriginOK, Old, Changed, Touches
  <2>2. CASE ~Uploads(s)
    <3>1. PICK i \in FieldsDone(s) : Led(asked[s][i], s, m)
      BY <1>0, <1>7, <2>2 DEF OriginOK, Old
    <3>2. PICK c : c = asked[s][i]
      OBVIOUS
    <3>3. PICK d : d = Change(s)
      OBVIOUS
    <3>4. Apart(c, d)
      BY <1>0, <1>5, <2>2, <3>1, <3>2, <3>3 DEF Steady
    <3>5. Led(d, s, n)'
      BY <1>7, <2>2, <3>3 DEF AtKey, Change
    <3>6. PICK p : p = Result(s, n)'.parent
      OBVIOUS
    <3>7. PICK l : l = Result(s, n)'.name
      OBVIOUS
    <3>8. /\ \/ c.op = "create" /\ Result(s, m).parent = c.in /\ Result(s, m).name = c.name
             \/ /\ IsRename(c) \/ IsMove(c)
                /\ IsRename(c) => Result(s, m).name = c.name
                /\ IsMove(c) => Result(s, m).parent = c.to
          /\ \/ d.op = "create" /\ p = d.in /\ l = d.name
             \/ (IsRename(d) \/ IsMove(d)) /\ (IsRename(d) => l = d.name) /\ (IsMove(d) => p = d.to)
      BY <3>1, <3>2, <3>5, <3>6, <3>7 DEF Led, Place
    <3>9. <<Result(s, m).parent, Result(s, m).name>> # <<p, l>>
      BY <3>4, <3>8, ApartPlaces
    <3> QED BY <1>7, <3>6, <3>7, <3>9 DEF Old, Place
  <2> QED BY <2>1, <2>2
<1>8. ASSUME NEW m \in Node, NEW n \in Node, m # n, Changed(s, m)', Changed(s, n)'
      PROVE  Place(s, m)' # Place(s, n)'
  <2>1. CASE Old(s, m) /\ Old(s, n)
    <3>1. Place(s, m)' = Place(s, m) /\ Place(s, n)' = Place(s, n)
      BY <2>1 DEF Old, Place
    <3> QED BY <1>0, <1>8, <2>1, <3>1 DEF OriginOK, Old
  <2> QED BY <1>3, <1>7, <1>8, <2>1
<1>9. OriginOK(s)'
  BY <1>2, <1>6, <1>8 DEF OriginOK
<1> QED BY <1>1, <1>4, <1>9 DEF Effect

\* A transaction that has written nothing claims nothing.
LEMMA Untouched ==
  ASSUME NEW s, touched'[s] = {}
  PROVE  WrittenOK(s)' /\ ClaimOK(s)' /\ OriginOK(s)'
<1>1. \A n \in Node : ~Changed(s, n)'
  BY DEF Changed, Touches
<1> QED BY <1>1 DEF WrittenOK, ClaimOK, OriginOK

\* A step that leaves tree and transaction as they are keeps what s knows of them.
LEMMA KeptTx ==
  ASSUME GInv, NEW s \in Session, SteadyOf(s), s \in open, asked' = asked, tree' = tree, view'[s] = view[s],
         touched'[s] = touched[s], shared[s] \subseteq shared'[s],
         ~Ended(s)', Uploads(s) => pc'[s] = "next", FieldsDone(s) \subseteq FieldsDone(s)'
  PROVE  WrittenOK(s)' /\ ClaimOK(s)' /\ OriginOK(s)'
<1>0. WrittenOK(s) /\ ClaimOK(s) /\ OriginOK(s) /\ (Uploads(s)' <=> Uploads(s))
  BY DEF SteadyOf, Uploads
<1>1. ASSUME NEW n \in Node
      PROVE  /\ Result(s, n)' = Result(s, n) /\ Place(s, n)' = Place(s, n)
             /\ Changed(s, n)' <=> Changed(s, n)
  BY ResultSame
<1>2. WrittenOK(s)'
  BY <1>0 DEF WrittenOK
<1>3. ClaimOK(s)'
  BY <1>0, <1>1 DEF ClaimOK, Children
<1>4. \A c : \A n \in Node : Led(c, s, n)' <=> Led(c, s, n)
  BY <1>1 DEF Led
<1>5. OriginOK(s)'
  BY <1>0, <1>1, <1>4 DEF OriginOK
<1> QED BY <1>2, <1>3, <1>5

\* What a request knows of its own transaction holds after each of its steps.
LEMMA ActorTx ==
  ASSUME Steady, GInv, NEW s \in Session, SteadyOf(s),
         UploadStep(s) \/ MutationStep(s) \/ RequestStep(s) \/ TxLimitAbort(s)
  PROVE  SteadyOf(s)'
<1>0. /\ TypeOK /\ LocalInv /\ TxInv /\ TouchedInv /\ Alone(s) /\ Shape(s) /\ asked' = asked
      /\ OwnedOK(s) /\ TargetOK(s) /\ touched \in [Session -> SUBSET Documents(Node)]
  BY GInvRequestStep DEF GInv, TxInv, SteadyOf, Alone, TypeOK
<1>1. OwnedOK(s)' /\ TargetOK(s)' /\ (s \in open' => CheckedOK(s)')
  BY <1>0, HandlerStep DEF SteadyOf
<1>2. s \notin open \/ ~begun[s] => touched[s] = {}
  BY <1>0 DEF TouchedInv
<1>3. /\ Stores(s) => pc'[s] = "next" /\ todo'[s] = todo[s]
      /\ touched'[s] # {} =>
           ~Ended(s)' /\ (Uploads(s) => pc'[s] = "next") /\ FieldsDone(s) \subseteq FieldsDone(s)'
  <2>1. Ended(s) \/ (Uploads(s) /\ pc[s] # "next") => touched[s] = {}
    BY <1>2 DEF SteadyOf, OriginOK
  <2> QED BY <1>0, <2>1, FieldStep
<1>4. s \in open' => WrittenOK(s)' /\ ClaimOK(s)' /\ OriginOK(s)'
  <2> SUFFICES ASSUME s \in open', touched'[s] # {}
               PROVE  WrittenOK(s)' /\ ClaimOK(s)' /\ OriginOK(s)'
    BY Untouched
  <2>1. CASE Stores(s)
    BY <1>0, <1>3, <2>1, StoreTx
  <2>2. CASE Closes(s) \/ Commits(s)
    BY <1>0, <2>2 DEF Closes, Commits, Close
  <2>3. CASE Snapshot(s)
    <3>1. touched'[s] = {}
      BY <1>2, <2>3 DEF Snapshot
    <3> QED BY <3>1
  <2>4. CASE Quiet \/ Begins(s) \/ Grants(s) \/ Shares(s)
    <3>1. UNCHANGED <<tree, view, touched>> /\ shared[s] \subseteq shared'[s]
      BY <1>0, <2>4 DEF Quiet, Begins, Grants, Shares, TxKept, Locks!Begin, Locks!Grant, Locks!Share,
          TypeOK, Locks!LockTypeOK
    <3> QED BY <1>0, <1>2, <1>3, <3>1, KeptTx
  <2>5. CASE Releases(s)
    BY <1>0, <1>2, <2>5 DEF Releases, TxKept, SteadyOf, OriginOK, Ended
  <2> QED BY <1>0, <2>1, <2>2, <2>3, <2>4, <2>5 DEF Shape
<1> QED BY <1>1, <1>4 DEF SteadyOf

-----------------------------------------------------------------------------
(***************************************************************************)
(* The invariant.                                                          *)
(***************************************************************************)

\* What another request knows survives a step of s, a commit among them.
LEMMA OthersSteady ==
  ASSUME Steady, GInv, NEW s \in Session, SteadyOf(s), Alone(s), Shape(s),
         NEW t \in Session, t # s, SteadyOf(t)
  PROVE  SteadyOf(t)'
<1>0. /\ TypeOK /\ LocalInv /\ LockInv /\ TxInv
      /\ OwnedOK(t) /\ TargetOK(t) /\ (t \in open <=> t \in open')
      /\ view'[t] = view[t] /\ touched'[t] = touched[t] /\ owned'[t] = owned[t] /\ shared'[t] = shared[t]
  BY OthersKept, LocksKept DEF GInv, SteadyOf
<1>1. SameButTree(t)
  BY <1>0 DEF SameButTree, Alone
<1>2. CASE tree' = tree
  <2>1. Same(t)
    BY <1>1, <1>2 DEF Same, SameButTree
  <2> QED BY <1>0, <2>1, SameSteady DEF SteadyOf
<1>3. CASE tree' # tree
  <2>1. Commits(s)
    BY <1>0, <1>3, ActorKept DEF Snapshot, Stores
  <2>2. begun[s]
    <3> SUFFICES ASSUME ~begun[s] PROVE FALSE
      OBVIOUS
    <3>1. touched[s] = {}
      BY <1>0 DEF TxInv, TouchedInv
    <3>2. Merged(s) = [n \in Node |-> tree[n]]
      BY <3>1 DEF Merged
    <3> QED BY <1>0, <1>3, <2>1, <3>2 DEF Commits, TypeOK
  <2>3. Committed(s)
    BY <2>1, <2>2 DEF Commits, Committed, SteadyOf, Ended
  <2>4. OwnedOK(t)'
    BY <1>0, <1>1 DEF OwnedOK, SameButTree, Ended, Key
  <2>5. TargetOK(t)'
    BY <1>0, <1>1, <2>3, CommitTarget
  <2>6. ASSUME t \in open' PROVE WrittenOK(t)' /\ CheckedOK(t)' /\ ClaimOK(t)' /\ OriginOK(t)'
    <3>1. t \in open /\ WrittenOK(t) /\ CheckedOK(t) /\ ClaimOK(t) /\ OriginOK(t)
      BY <1>0, <2>6 DEF SteadyOf
    <3> QED BY <1>0, <1>1, <2>3, <3>1, CommitWritten, CommitChecked, CommitClaim
  <2> QED BY <2>4, <2>5, <2>6 DEF SteadyOf
<1> QED BY <1>2, <1>3

\* A crash takes the locks of a replica with its transactions.
LEMMA CrashSteady ==
  ASSUME GInv, NEW r, Crash(r), NEW t \in Session, SteadyOf(t)
  PROVE  SteadyOf(t)'
<1> DEFINE dying == {s \in Session : ReplicaOf[s] = r /\ pc[s] \notin {"start", "done"}}
<1>0. TypeOK /\ OwnedOK(t) /\ TargetOK(t) /\ tree' = tree /\ asked' = asked
      /\ (ReplicaOf[t] = r => t \notin open' /\ owned'[t] = {} /\ shared'[t] = {})
      /\ (ReplicaOf[t] # r => (t \in open' <=> t \in open) /\ owned'[t] = owned[t] /\ shared'[t] = shared[t])
  BY DEF GInv, SteadyOf, Crash, Locks!Crash, TypeOK, Locks!LockTypeOK
<1>1. CASE t \in dying
  <2>1. pc'[t] = "done" /\ t \notin open'
    BY <1>0, <1>1 DEF Crash, TypeOK
  <2> QED BY <2>1 DEF SteadyOf, OwnedOK, TargetOK, Ended, Following
<1>2. CASE t \notin dying
  <2>1. /\ pc'[t] = pc[t] /\ todo'[t] = todo[t] /\ place'[t] = place[t] /\ name'[t] = name[t]
        /\ target'[t] = target[t] /\ view'[t] = view[t] /\ touched'[t] = touched[t]
    BY <1>0, <1>2 DEF Crash, Forget, TypeOK
  <2>2. CASE ReplicaOf[t] = r
    <3>1. pc[t] \in {"start", "done"}
      BY <1>2, <2>2
    <3>2. OwnedOK(t)'
      BY <1>0, <2>1, <2>2, <3>1 DEF OwnedOK
    <3>3. TargetOK(t)'
      BY <1>0, <2>1, <3>1 DEF TargetOK, Uploads, Ended, Following
    <3> QED BY <1>0, <2>2, <3>2, <3>3 DEF SteadyOf
  <2>3. CASE ReplicaOf[t] # r
    <3>1. Same(t)
      BY <1>0, <2>1, <2>3 DEF Same
    <3> QED BY <1>0, <2>3, <3>1, SameSteady DEF SteadyOf
  <2> QED BY <2>2, <2>3
<1> QED BY <1>1, <1>2

\* A commit keeps the names apart.
LEMMA CommitUnique ==
  ASSUME TypeOK, TxInv, NEW t, Committed(t), OriginOK(t), UniqueNames
  PROVE  UniqueNames'
<1> SUFFICES ASSUME NEW m \in Node, NEW n \in Node, m # n, tree'[m] # Absent, tree'[n] # Absent,
                    tree'[m].parent # NoNode,
                    tree'[m].parent = tree'[n].parent, tree'[m].name = tree'[n].name
             PROVE  FALSE
  BY DEF UniqueNames
<1>1. t \in open /\ ~Ended(t) /\ begun[t] /\ tree' = Merged(t) /\ ClaimOK(t)
  BY DEF Committed
<1>2. ASSUME NEW l \in Node, tree'[l] # Absent, tree'[l].parent # NoNode
      PROVE  \/ Changed(t, l) /\ Result(t, l) = tree'[l]
             \/ /\ tree[l] # Absent
                /\ tree[l].parent = tree'[l].parent /\ tree[l].name = tree'[l].name
  BY <1>1, <1>2, CommitPlaces DEF Result
<1>3. ASSUME NEW l \in Node, NEW k \in Node, l # k, Changed(t, l), Result(t, l) = tree'[l],
             tree[k] # Absent, tree[k].parent = tree'[l].parent, tree[k].name = tree'[l].name
      PROVE  FALSE
  <2>1. Children(tree, tree'[l].parent, tree'[l].name) \subseteq {l}
    BY <1>1, <1>3 DEF ClaimOK
  <2> QED BY <1>3, <2>1 DEF Children
<1>4. CASE Changed(t, m) /\ Result(t, m) = tree'[m] /\ Changed(t, n) /\ Result(t, n) = tree'[n]
  BY <1>4 DEF OriginOK, Place
<1> QED BY <1>2, <1>3, <1>4 DEF UniqueNames

\* The steady part of the invariant for every request.
SInv == \A s \in Session : SteadyOf(s)

\* The steady part of the invariant, request by request.
LEMMA SteadyParts ==
  ASSUME TypeOK
  PROVE  SInv <=> SteadyInv
<1>1. open \subseteq Session
  BY DEF TypeOK, Locks!LockTypeOK
<1> QED BY <1>1 DEF SInv, SteadyOf, SteadyInv

\* The invariant holds at the start.
LEMMA IInvInit ==
  ASSUME Init
  PROVE  IInv
<1>1. GInv
  BY GInvInit
<1>2. SteadyInv
  BY DEF Init, SteadyInv, OwnedOK, TargetOK, Locks!LockInit, Ended, Following
<1>3. UniqueNames
  <2> SUFFICES ASSUME NEW m \in Node, NEW n \in Node, m # n, tree[m] # Absent, tree[n] # Absent,
                      tree[m].parent # NoNode
               PROVE  <<tree[m].parent, tree[m].name>> # <<tree[n].parent, tree[n].name>>
    BY DEF UniqueNames
  <2>1. m \in OldNode /\ n \in OldNode /\ tree[m] = Initial[m] /\ tree[n] = Initial[n]
    BY DEF Init, FirstTree
  <2> QED BY <2>1, InitialAssumption
<1> QED BY <1>1, <1>2, <1>3 DEF IInv, GInv, TxInv

\* Every step keeps the invariant, for steady requests.
LEMMA IInvStep ==
  ASSUME Steady, IInv, [Next]_vars
  PROVE  IInv'
<1>0. GInv /\ GInv' /\ SInv /\ UniqueNames /\ TypeOK'
  <2>1. GInv /\ UniqueNames
    BY DEF IInv, GInv, TxInv
  <2>2. GInv' /\ SInv
    BY <2>1, GInvStep, SteadyParts DEF IInv
  <2> QED BY <2>1, <2>2 DEF GInv
<1>4. ASSUME SInv', UniqueNames' PROVE IInv'
  <2>1. open' \subseteq Session
    BY <1>0 DEF TypeOK, Locks!LockTypeOK
  <2>2. SteadyInv'
    BY <1>4, <2>1 DEF SInv, SteadyOf, SteadyInv
  <2> QED BY <1>0, <1>4, <2>2 DEF IInv, GInv, TxInv
<1>1. CASE \E s \in Session : UploadStep(s) \/ MutationStep(s) \/ RequestStep(s) \/ TxLimitAbort(s)
  <2>1. PICK s \in Session : UploadStep(s) \/ MutationStep(s) \/ RequestStep(s) \/ TxLimitAbort(s)
    BY <1>1
  <2>2. Alone(s) /\ Shape(s)
    BY <1>0, <2>1, GInvRequestStep
  <2>3. SteadyOf(s)'
    BY <1>0, <2>1, ActorTx DEF SInv
  <2>4. \A t \in Session : t # s => SteadyOf(t)'
    BY <1>0, <2>2, OthersSteady DEF SInv
  <2>5. SInv'
    BY <2>3, <2>4 DEF SInv
  <2>6. UniqueNames'
    <3>0. TypeOK /\ LocalInv /\ TxInv
      BY <1>0 DEF GInv
    <3>1. CASE tree' = tree
      BY <1>0, <3>1 DEF UniqueNames
    <3>2. CASE tree' # tree
      <4>1. Commits(s)
        BY <2>2, <3>0, <3>2, ActorKept DEF Snapshot, Stores
      <4>2. begun[s]
        <5> SUFFICES ASSUME ~begun[s] PROVE FALSE
          OBVIOUS
        <5>1. touched[s] = {}
          BY <3>0 DEF TxInv, TouchedInv
        <5>2. Merged(s) = [n \in Node |-> tree[n]]
          BY <5>1 DEF Merged
        <5> QED BY <3>0, <3>2, <4>1, <5>2 DEF Commits, TypeOK
      <4>3. Committed(s) /\ OriginOK(s)
        BY <1>0, <4>1, <4>2 DEF Commits, Committed, SInv, SteadyOf, Ended
      <4> QED BY <1>0, <3>0, <4>3, CommitUnique
    <3> QED BY <3>1, <3>2
  <2> QED BY <1>4, <2>5, <2>6
<1>2. CASE \E s \in Session : Crash(ReplicaOf[s])
  <2>1. SInv'
    BY <1>0, <1>2, CrashSteady DEF SInv
  <2>2. UniqueNames'
    BY <1>0, <1>2 DEF Crash, UniqueNames
  <2> QED BY <1>4, <2>1, <2>2
<1>3. CASE UNCHANGED vars
  <2>1. UNCHANGED <<tree, asked, todo, pc, place, name, target, view, begun, touched, stale, owned, shared, open>>
    BY <1>3 DEF vars, changeVars, txVars, lockVars
  <2>2. \A s \in Session : Same(s)
    BY <2>1 DEF Same
  <2>3. SInv'
    BY <1>0, <2>1, <2>2, SameSteady DEF SInv, SteadyOf
  <2>4. UniqueNames'
    BY <1>0, <2>1 DEF UniqueNames
  <2> QED BY <1>4, <2>3, <2>4
<1> QED BY <1>1, <1>2, <1>3, StepKinds

\* For steady requests the invariant behind UniqueNames holds.
THEOREM SteadyInvariance ==
  ASSUME Steady
  PROVE  Spec => []IInv
<1>1. Init => IInv
  BY IInvInit
<1>2. IInv /\ [Next]_vars => IInv'
  BY IInvStep
<1> QED BY <1>1, <1>2, PTL DEF Spec

\* "Names are unique per parent (case-insensitive) on create, rename and move": for every
\* number of replicas, requests and entries, with crashes, time-outs and aborted transactions,
\* as long as the requests are steady.
THEOREM NamesStayUnique ==
  ASSUME Steady
  PROVE  Spec => []UniqueNames
<1>1. IInv => UniqueNames
  BY DEF IInv
<1> QED BY <1>1, SteadyInvariance, PTL
=============================================================================
