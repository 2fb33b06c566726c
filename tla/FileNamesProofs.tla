--------------------------- MODULE FileNamesProofs ---------------------------
(***************************************************************************)
(* What holds in FileNames for any requests: types, what handlers know of  *)
(* their request, owners of names, and what transactions see and write;    *)
(* and, where one folder alone is moved, that the folders stay trees.      *)
(***************************************************************************)
EXTENDS FileNamesInv, FiniteSetTheorems, TLAPS

\* The head and the tail of a sequence that is not empty.
LEMMA HeadOf ==
  ASSUME NEW S, NEW q \in Seq(S), Len(q) > 0
  PROVE  /\ q # <<>> /\ Head(q) = q[1] /\ q[1] \in S
         /\ Tail(q) \in Seq(S) /\ Len(Tail(q)) = Len(q) - 1
         /\ \A i \in 1..Len(Tail(q)) : Tail(q)[i] = q[i + 1]
OBVIOUS

\* A request is one upload, or one or more fields of a mutation.
LEMMA RequestType ==
  ASSUME NEW r \in Request
  PROVE  /\ Head(r) = r[1]
         /\ IF Head(r).op \in {"put", "putPath", "putById"}
            THEN r \in Seq(Upload) /\ Len(r) = 1 /\ r[1] \in Upload
            ELSE r \in Seq(Field) /\ Len(r) > 0 /\ r[1] \in Field
<1>1. CASE r \in Seq(Upload) /\ Len(r) = 1
  <2>1. Head(r) = r[1] /\ r[1] \in Upload
    BY <1>1, HeadOf
  <2> QED BY <1>1, <2>1 DEF Upload
<1>2. CASE r \in Seq(Field) /\ Len(r) > 0
  <2>1. Head(r) = r[1] /\ r[1] \in Field
    BY <1>2, HeadOf
  <2> QED BY <1>2, <2>1 DEF Field
<1> QED BY <1>1, <1>2, RequestAssumption

\* The change at hand is the upload, or a field of the mutation.
LEMMA ChangeType ==
  ASSUME TypeOK, NEW s \in Session, TodoOK(s), ~Ended(s)
  PROVE  /\ Change(s) = todo[s][1] /\ todo[s] # <<>>
         /\ Uploads(s) => Change(s) \in Upload
         /\ ~Uploads(s) => Change(s) \in Field
<1>1. CASE Uploads(s)
  <2>1. todo[s] \in Seq(Upload) /\ Len(todo[s]) = 1
    BY <1>1 DEF TodoOK
  <2> QED BY <1>1, <2>1, HeadOf DEF Change
<1>2. CASE ~Uploads(s)
  <2>1. todo[s] \in Seq(Field) /\ Len(todo[s]) \in 1..Len(asked[s])
    BY <1>2 DEF TodoOK
  <2>2. Len(todo[s]) > 0
    BY <2>1, RequestType DEF TypeOK
  <2> QED BY <1>2, <2>1, <2>2, HeadOf DEF Change
<1> QED BY <1>1, <1>2

\* What the fields of a change are, by its kind.
LEMMA ChangeParts ==
  ASSUME TypeOK, NEW s \in Session, TodoOK(s), ~Ended(s)
  PROVE  LET c == Change(s)
         IN /\ todo[s] # <<>> /\ c = todo[s][1]
            /\ Uploads(s) <=> c.op \in {"put", "putPath", "putById"}
            /\ ~Uploads(s) <=> c.op \in {"create", "update", "delete"}
            /\ c.op \in {"put", "putPath", "create"} => c.in \in Node /\ c.name \in Name
            /\ c.op = "putPath" => c.path \in Seq(Name)
            /\ c.op \in {"putById", "update", "delete"} => c.id \in OldNode /\ c.id \in Node
            /\ c.op = "create" => c.kind \in {"folder", "file"}
            /\ c.op = "update" => /\ c.name \in Name \cup {NoName}
                                  /\ c.from \in Node \cup {NoNode} /\ c.to \in Node \cup {NoNode}
<1>1. \A c \in Upload : 
        /\ c.op \in {"put", "putPath", "putById"}
        /\ c.op \in {"put", "putPath"} => c.in \in Node /\ c.name \in Name
        /\ c.op = "putPath" => c.path \in Seq(Name)
        /\ c.op = "putById" => c.id \in OldNode /\ c.id \in Node
  BY DEF Upload, Node
<1>2. \A c \in Field :
        /\ c.op \in {"create", "update", "delete"}
        /\ c.op = "create" => c.in \in Node /\ c.name \in Name /\ c.kind \in {"folder", "file"}
        /\ c.op \in {"update", "delete"} => c.id \in OldNode /\ c.id \in Node
        /\ c.op = "update" => /\ c.name \in Name \cup {NoName}
                              /\ c.from \in Node \cup {NoNode} /\ c.to \in Node \cup {NoNode}
  BY DEF Field, Node
<1>3. CASE Uploads(s)
  BY <1>1, <1>3, ChangeType
<1>4. CASE ~Uploads(s)
  BY <1>2, <1>4, ChangeType
<1> QED BY <1>3, <1>4

\* An entry is absent exactly when it has no kind; a present one has a name.
LEMMA EntryType ==
  /\ \A e \in Entry : e.parent \in Node \cup {NoNode} /\ e.name \in Name \cup {NoName}
  /\ \A e \in Entry : e # Absent => e.kind \in {"folder", "file"} /\ e.name \in Name
  /\ Absent \in Entry /\ Absent.kind = "none" /\ Absent.parent = NoNode /\ Absent.name = NoName
BY DEF Entry, Absent

\* A name or a parent put into a present entry gives one.
LEMMA EntryMade ==
  ASSUME NEW e \in Entry, e # Absent, NEW p \in Node \cup {NoNode}, NEW n \in Name
  PROVE  LET moved == [e EXCEPT !.parent = p]
             named == [e EXCEPT !.name = n]
             both == [e EXCEPT !.name = n, !.parent = p]
         IN /\ moved \in Entry /\ moved # Absent /\ moved.name = e.name /\ moved.parent = p
            /\ named \in Entry /\ named # Absent /\ named.name = n /\ named.parent = e.parent
            /\ both \in Entry /\ both # Absent /\ both.name = n /\ both.parent = p
<1>1. e \in [kind : {"folder", "file"}, parent : Node \cup {NoNode}, name : Name]
  BY DEF Entry
<1> QED BY <1>1 DEF Entry, Absent

\* A new entry is present.
LEMMA EntryNew ==
  ASSUME NEW k \in {"folder", "file"}, NEW p \in Node \cup {NoNode}, NEW n \in Name
  PROVE  /\ [kind |-> k, parent |-> p, name |-> n] \in Entry
         /\ [kind |-> k, parent |-> p, name |-> n] # Absent
BY DEF Entry, Absent

\* The sets a handler computes consist of entries.
LEMMA FoundType ==
  ASSUME NEW t, NEW p, NEW n
  PROVE  /\ Children(t, p, n) \subseteq Node
         /\ Below(t, p) \subseteq Node
         /\ IsFolder(t, p) => p \in Node
         /\ Cardinality(Children(t, p, n)) = 1 => 
              (CHOOSE c \in Children(t, p, n) : TRUE) \in Children(t, p, n)
<1>1. ASSUME Cardinality(Children(t, p, n)) = 1 PROVE Children(t, p, n) # {}
  BY <1>1, FS_EmptySet
<1> QED BY <1>1 DEF Children, Below, IsFolder

-----------------------------------------------------------------------------
(***************************************************************************)
(* The shapes of a step: what it does to the tree, the transactions and    *)
(* the locks.                                                              *)
(***************************************************************************)

\* Nothing changes in the tree or in a transaction.
TxKept == UNCHANGED <<tree, view, begun, touched, stale>>

\* A step between reads: neither tree nor transactions nor locks change.
Quiet == TxKept /\ UNCHANGED <<owned, shared, open>>
Begins(s) == TxKept /\ Locks!Begin(s) /\ pc[s] \in {"start", "begin"}
Grants(s) == TxKept /\ Locks!Grant(s, Key(s)) /\ pc[s] \in {"hold", "grant"}
Shares(s) == TxKept /\ Locks!Share(s, Key(s)) /\ pc[s] = "share"
Releases(s) ==
  /\ TxKept
  /\ pc[s] = "release" /\ pc' = pc
  /\ \E k \in owned[s] : IF k \in shared[s] THEN Locks!Unshare(s, k) ELSE Locks!Give(s, k)
Closes(s) ==
  /\ tree' = tree /\ Close(s)
  /\ Locks!End(s)
Commits(s) ==
  /\ pc[s] = "next" /\ pc'[s] = "release" /\ s \in open
  /\ tree' = Merged(s)
  /\ view' = [view EXCEPT ![s] = NoTree]
  /\ begun' = [begun EXCEPT ![s] = FALSE]
  /\ touched' = [touched EXCEPT ![s] = {}]
  /\ stale' = [t \in Session |-> IF t # s /\ begun[t] THEN stale[t] \cup touched[s] ELSE {}]
  /\ Locks!End(s)

\* New entries, or changes of the targets.
Inserts(s) ==
  /\ pc[s] \in {"insert", "insertFolder"}
  /\ \E n \in NewNode(s), k \in {"folder", "file"} :
       LET entry == [kind |-> k, parent |-> place[s], name |-> name[s]]
       IN /\ view' = [view EXCEPT ![s] = [m \in Node |-> IF m \in {n} THEN entry ELSE @[m]]]
          /\ touched' = [touched EXCEPT ![s] = @ \cup Documents({n})]
Rewrites(s) ==
  /\ pc[s] \in {"update", "replace", "erase"} /\ pc'[s] = "next"
  /\ touched' = [touched EXCEPT ![s] = @ \cup Written(s)]
  /\ \E entries \in [target[s] -> Entry] :
       /\ view' = [view EXCEPT ![s] = [n \in Node |-> IF n \in target[s] THEN entries[n] ELSE @[n]]]
       /\ \A n \in target[s] :
            /\ pc[s] = "erase" => entries[n] = Absent
            /\ pc[s] = "update" =>
                 entries[n] = [view[s][n] EXCEPT
                                 !.name = IF Change(s).name = NoName THEN @ ELSE Change(s).name,
                                 !.parent = IF Change(s).to = NoNode THEN @ ELSE Change(s).to]
            /\ pc[s] = "replace" => entries[n] = [view[s][n] EXCEPT !.name = name[s]]
Stores(s) ==
  /\ s \in open /\ begun[s] /\ Possible(s)
  /\ Inserts(s) \/ Rewrites(s)
  /\ UNCHANGED <<tree, begun, stale, owned, shared, open>>

\* The other requests stay where they are.
Alone(s) ==
  /\ asked' = asked
  /\ \A t \in Session \ {s} :
       /\ pc'[t] = pc[t] /\ todo'[t] = todo[t]
       /\ place'[t] = place[t] /\ name'[t] = name[t] /\ target'[t] = target[t]

Shape(s) ==
  \/ Quiet \/ Begins(s) \/ Grants(s) \/ Shares(s) \/ Releases(s)
  \/ Closes(s) \/ Commits(s) \/ Snapshot(s) \/ Stores(s)

\* Every step of a request has one of the shapes, and leaves the others alone.
LEMMA ShapeStep ==
  ASSUME TypeOK, LocalInv, NEW s \in Session,
         UploadStep(s) \/ MutationStep(s) \/ RequestStep(s) \/ TxLimitAbort(s)
  PROVE  Alone(s) /\ Shape(s)
<1>1. ASSUME PutIntoFolder(s) PROVE Alone(s) /\ Shape(s)
  <2>1. Alone(s)
    BY <1>1 DEF PutIntoFolder, Alone, Goto, changeVars, TypeOK, Begin, Lock, Fail
  <2>2. Shape(s)
    BY <1>1 DEF PutIntoFolder, Shape, TxKept, Key, txVars, lockVars, Begins, Closes,
        Quiet, Begin, Lock, Fail, Close
  <2> QED BY <2>1, <2>2
<1>2. ASSUME PutById(s) PROVE Alone(s) /\ Shape(s)
  <2>1. Alone(s)
    BY <1>2 DEF PutById, Alone, Goto, changeVars, TypeOK, Begin, Fail
  <2>2. Shape(s)
    BY <1>2 DEF PutById, Shape, TxKept, Key, txVars, lockVars, Begins, Closes, Quiet,
        Begin, Fail, Close
  <2> QED BY <2>1, <2>2
<1>3. ASSUME HoldFirstMissing(s) PROVE Alone(s) /\ Shape(s)
  <2>1. Alone(s)
    BY <1>3 DEF HoldFirstMissing, Alone, Goto, changeVars, TypeOK
  <2>2. Shape(s)
    BY <1>3 DEF HoldFirstMissing, Shape, TxKept, Key, txVars, lockVars, Quiet
  <2> QED BY <2>1, <2>2
<1>4. ASSUME Hold(s) PROVE Alone(s) /\ Shape(s)
  <2>1. Alone(s)
    BY <1>4 DEF Hold, Alone, Goto, changeVars, TypeOK
  <2>2. Shape(s)
    BY <1>4 DEF Hold, Shape, TxKept, Key, txVars, lockVars, Grants
  <2> QED BY <2>1, <2>2
<1>5. ASSUME BeginPath(s) PROVE Alone(s) /\ Shape(s)
  <2>1. Alone(s)
    BY <1>5 DEF BeginPath, Alone, Goto, changeVars, TypeOK, Begin
  <2>2. Shape(s)
    BY <1>5 DEF BeginPath, Shape, TxKept, Key, txVars, lockVars, Begins, Begin
  <2> QED BY <2>1, <2>2
<1>6. ASSUME Walk(s) PROVE Alone(s) /\ Shape(s)
  <2>1. Alone(s)
    BY <1>6 DEF Walk, Alone, Goto, changeVars, TypeOK, Lock, StepDown
  <2>2. Shape(s)
    BY <1>6 DEF Walk, Shape, TxKept, Key, txVars, lockVars, Quiet, Lock
  <2> QED BY <2>1, <2>2
<1>7. ASSUME WalkFails(s) PROVE Alone(s) /\ Shape(s)
  <2>1. Alone(s)
    BY <1>7 DEF WalkFails, Alone, Goto, changeVars, TypeOK, Fail
  <2>2. Shape(s)
    BY <1>7 DEF WalkFails, Shape, TxKept, Key, txVars, lockVars, Quiet, Closes, Fail,
        Close
  <2> QED BY <2>1, <2>2
<1>8. ASSUME CheckFolder(s) PROVE Alone(s) /\ Shape(s)
  <2>1. Alone(s)
    BY <1>8 DEF CheckFolder, Alone, Goto, changeVars, TypeOK, Fail
  <2>2. Shape(s)
    BY <1>8 DEF CheckFolder, Shape, TxKept, Key, txVars, lockVars, Quiet, Closes, Fail,
        Close
  <2> QED BY <2>1, <2>2
<1>9. ASSUME InsertFolder(s) PROVE Alone(s) /\ Shape(s)
  <2>1. Alone(s)
    BY <1>9 DEF InsertFolder, Writes, Alone, Goto, changeVars, TypeOK, StepDown
  <2>2. PICK n \in NewNode(s) :
          Writes(s, "insertFolder", [m \in {n} |-> [kind |-> "folder", parent |-> place[s], name |-> name[s]]],
                 Documents({n}))
    BY <1>9 DEF InsertFolder
  <2>3. ("folder") \in {"folder", "file"}
    BY <2>2, ChangeParts DEF Writes, Ended, LocalInv, StageOK
  <2>4. Inserts(s)
    BY <2>2, <2>3 DEF Writes, Inserts
  <2> QED BY <2>1, <2>2, <2>4 DEF Shape, Stores, Writes, lockVars
<1>10. ASSUME CheckUpload(s) PROVE Alone(s) /\ Shape(s)
  <2>1. Alone(s)
    BY <1>10 DEF CheckUpload, Alone, Goto, changeVars, TypeOK
  <2>2. Shape(s)
    BY <1>10 DEF CheckUpload, Shape, TxKept, Key, txVars, lockVars, Quiet
  <2> QED BY <2>1, <2>2
<1>11. ASSUME BeginMutation(s) PROVE Alone(s) /\ Shape(s)
  <2>1. Alone(s)
    BY <1>11 DEF BeginMutation, Alone, Goto, changeVars, TypeOK, Begin
  <2>2. Shape(s)
    BY <1>11 DEF BeginMutation, Shape, TxKept, Key, txVars, lockVars, Begins, Begin
  <2> QED BY <2>1, <2>2
<1>12. ASSUME Create(s) PROVE Alone(s) /\ Shape(s)
  <2>1. Alone(s)
    BY <1>12 DEF Create, Alone, Goto, changeVars, TypeOK
  <2>2. Shape(s)
    BY <1>12 DEF Create, Shape, TxKept, Key, txVars, lockVars, Quiet
  <2> QED BY <2>1, <2>2
<1>13. ASSUME Update(s) PROVE Alone(s) /\ Shape(s)
  <2>1. Alone(s)
    BY <1>13 DEF Update, Alone, Goto, changeVars, TypeOK, Lock, Fail
  <2>2. Shape(s)
    BY <1>13 DEF Update, Shape, TxKept, Key, txVars, lockVars, Quiet, Closes, Lock,
        Fail, Close
  <2> QED BY <2>1, <2>2
<1>14. ASSUME Delete(s) PROVE Alone(s) /\ Shape(s)
  <2>1. Alone(s)
    BY <1>14 DEF Delete, Alone, Goto, changeVars, TypeOK
  <2>2. Shape(s)
    BY <1>14 DEF Delete, Shape, TxKept, Key, txVars, lockVars, Quiet
  <2> QED BY <2>1, <2>2
<1>15. ASSUME Visible(s) PROVE Alone(s) /\ Shape(s)
  <2>1. Alone(s)
    BY <1>15 DEF Visible, Alone, Goto, changeVars, TypeOK, Lock, Fail
  <2>2. Shape(s)
    BY <1>15 DEF Visible, Shape, TxKept, Key, txVars, lockVars, Quiet, Closes, Lock,
        Fail, Close
  <2> QED BY <2>1, <2>2
<1>16. ASSUME NotBelowItself(s) PROVE Alone(s) /\ Shape(s)
  <2>1. Alone(s)
    BY <1>16 DEF NotBelowItself, Alone, Goto, changeVars, TypeOK, Lock, Fail
  <2>2. Shape(s)
    BY <1>16 DEF NotBelowItself, Shape, TxKept, Key, txVars, lockVars, Quiet, Closes,
        Lock, Fail, Close
  <2> QED BY <2>1, <2>2
<1>17. ASSUME CheckName(s) PROVE Alone(s) /\ Shape(s)
  <2>1. Alone(s)
    BY <1>17 DEF CheckName, Alone, Goto, changeVars, TypeOK, Fail
  <2>2. Shape(s)
    BY <1>17 DEF CheckName, Shape, TxKept, Key, txVars, lockVars, Quiet, Closes, Fail,
        Close
  <2> QED BY <2>1, <2>2
<1>18. ASSUME UpdateEntry(s) PROVE Alone(s) /\ Shape(s)
  <2>1. Alone(s)
    BY <1>18 DEF UpdateEntry, Writes, Alone, Goto, changeVars, TypeOK
  <2> DEFINE entries == [n \in target[s] |-> [view[s][n] EXCEPT !.name = IF Change(s).name = NoName THEN @ ELSE Change(s).name,
                           !.parent = IF Change(s).to = NoNode THEN @ ELSE Change(s).to]]
  <2>2. Writes(s, "update", entries, UpdateDocuments(s)) /\ pc'[s] = "next"
    BY <1>18 DEF UpdateEntry, Goto, TypeOK
  <2>3. Written(s) = UpdateDocuments(s)
    BY <2>2 DEF Writes, Written
  <2>4. entries \in [target[s] -> Entry]
    <3>1. ASSUME NEW n \in target[s] PROVE n \in Node /\ view[s][n] \in Entry
      BY DEF TypeOK
    <3>0. TodoOK(s) /\ KeyOK(s) /\ StageOK(s)
      BY DEF LocalInv
    <3>2. ASSUME NEW n \in target[s] PROVE ([view[s][n] EXCEPT !.name = IF Change(s).name = NoName THEN @ ELSE Change(s).name,
                           !.parent = IF Change(s).to = NoNode THEN @ ELSE Change(s).to]) \in Entry
      <4>1. /\ view[s][n] # Absent /\ Change(s).name \in Name \cup {NoName} /\ Change(s).to \in Node \cup {NoNode}
            /\ view[s][n].name \in Name /\ view[s][n].parent \in Node \cup {NoNode}
        BY <2>2, <3>0, <3>1, ChangeParts, EntryType DEF Writes, Possible, Ended, StageOK
      <4> DEFINE given == IF Change(s).name = NoName THEN view[s][n].name ELSE Change(s).name
                 where == IF Change(s).to = NoNode THEN view[s][n].parent ELSE Change(s).to
      <4>2. given \in Name /\ where \in Node \cup {NoNode}
        BY <4>1
      <4>3. [view[s][n] EXCEPT !.name = given, !.parent = where] \in Entry
        BY <3>1, <4>1, <4>2, EntryMade
      <4> QED BY <4>3
    <3> QED BY <3>2
  <2>5. view' = [view EXCEPT ![s] = [n \in Node |-> IF n \in target[s] THEN entries[n] ELSE @[n]]]
    BY <2>2 DEF Writes
  <2>6. \A n \in target[s] : entries[n] = [view[s][n] EXCEPT !.name = IF Change(s).name = NoName THEN @ ELSE Change(s).name,
                           !.parent = IF Change(s).to = NoNode THEN @ ELSE Change(s).to]
    OBVIOUS
  <2> HIDE DEF entries
  <2>7. Rewrites(s)
    BY <2>2, <2>3, <2>4, <2>5, <2>6 DEF Writes, Rewrites
  <2> QED BY <2>1, <2>2, <2>7 DEF Shape, Stores, Writes, lockVars
<1>19. ASSUME Erase(s) PROVE Alone(s) /\ Shape(s)
  <2>1. Alone(s)
    BY <1>19 DEF Erase, Writes, Alone, Goto, changeVars, TypeOK
  <2> DEFINE entries == [n \in target[s] |-> Absent]
  <2>2. Writes(s, "erase", entries, Documents(target[s])) /\ pc'[s] = "next"
    BY <1>19 DEF Erase, Goto, TypeOK
  <2>3. Written(s) = Documents(target[s])
    BY <2>2 DEF Writes, Written
  <2>4. entries \in [target[s] -> Entry]
    <3>1. ASSUME NEW n \in target[s] PROVE n \in Node /\ view[s][n] \in Entry
      BY DEF TypeOK
    <3>0. TodoOK(s) /\ KeyOK(s) /\ StageOK(s)
      BY DEF LocalInv
    <3>2. ASSUME NEW n \in target[s] PROVE (Absent) \in Entry
      BY EntryType
    <3> QED BY <3>2
  <2>5. view' = [view EXCEPT ![s] = [n \in Node |-> IF n \in target[s] THEN entries[n] ELSE @[n]]]
    BY <2>2 DEF Writes
  <2>6. \A n \in target[s] : entries[n] = Absent
    OBVIOUS
  <2> HIDE DEF entries
  <2>7. Rewrites(s)
    BY <2>2, <2>3, <2>4, <2>5, <2>6 DEF Writes, Rewrites
  <2> QED BY <2>1, <2>2, <2>7 DEF Shape, Stores, Writes, lockVars
<1>20. ASSUME NextChange(s) PROVE Alone(s) /\ Shape(s)
  <2>1. Alone(s)
    BY <1>20 DEF NextChange, Alone, Goto, changeVars, TypeOK
  <2>2. Shape(s)
    BY <1>20 DEF NextChange, Shape, TxKept, Key, txVars, lockVars, Quiet
  <2> QED BY <2>1, <2>2
<1>21. ASSUME Snapshot(s) PROVE Alone(s) /\ Shape(s)
  BY <1>21 DEF Snapshot, Alone, Shape, vars, changeVars, txVars
<1>22. ASSUME GrantName(s) PROVE Alone(s) /\ Shape(s)
  <2>1. Alone(s)
    BY <1>22 DEF GrantName, Alone, Goto, changeVars, TypeOK
  <2>2. Shape(s)
    BY <1>22 DEF GrantName, Shape, TxKept, Key, txVars, lockVars, Grants
  <2> QED BY <2>1, <2>2
<1>23. ASSUME ShareName(s) PROVE Alone(s) /\ Shape(s)
  <2>1. Alone(s)
    BY <1>23 DEF ShareName, Alone, Goto, changeVars, TypeOK
  <2>2. Shape(s)
    BY <1>23 DEF ShareName, Shape, TxKept, Key, txVars, lockVars, Shares
  <2> QED BY <2>1, <2>2
<1>24. ASSUME LockFails(s) PROVE Alone(s) /\ Shape(s)
  <2>1. Alone(s)
    BY <1>24 DEF LockFails, Alone, Goto, changeVars, TypeOK, Fail
  <2>2. Shape(s)
    BY <1>24 DEF LockFails, Shape, TxKept, Key, txVars, lockVars, Quiet, Closes, Fail,
        Close
  <2> QED BY <2>1, <2>2
<1>25. ASSUME Insert(s) PROVE Alone(s) /\ Shape(s)
  <2>1. Alone(s)
    BY <1>25 DEF Insert, Writes, Alone, Goto, changeVars, TypeOK
  <2>2. PICK n \in NewNode(s) :
          Writes(s, "insert", [m \in {n} |-> [kind |-> IF Uploads(s) THEN "file" ELSE Change(s).kind, parent |-> place[s], name |-> name[s]]],
                 Documents({n}))
    BY <1>25 DEF Insert
  <2>3. (IF Uploads(s) THEN "file" ELSE Change(s).kind) \in {"folder", "file"}
    BY <2>2, ChangeParts DEF Writes, Ended, LocalInv, StageOK
  <2>4. Inserts(s)
    BY <2>2, <2>3 DEF Writes, Inserts
  <2> QED BY <2>1, <2>2, <2>4 DEF Shape, Stores, Writes, lockVars
<1>26. ASSUME Replace(s) PROVE Alone(s) /\ Shape(s)
  <2>1. Alone(s)
    BY <1>26 DEF Replace, Writes, Alone, Goto, changeVars, TypeOK
  <2> DEFINE entries == [n \in target[s] |-> [view[s][n] EXCEPT !.name = name[s]]]
  <2>2. Writes(s, "replace", entries, target[s] \X {"entry"}) /\ pc'[s] = "next"
    BY <1>26 DEF Replace, Goto, TypeOK
  <2>3. Written(s) = target[s] \X {"entry"}
    BY <2>2 DEF Writes, Written
  <2>4. entries \in [target[s] -> Entry]
    <3>1. ASSUME NEW n \in target[s] PROVE n \in Node /\ view[s][n] \in Entry
      BY DEF TypeOK
    <3>0. TodoOK(s) /\ KeyOK(s) /\ StageOK(s)
      BY DEF LocalInv
    <3>2. ASSUME NEW n \in target[s] PROVE ([view[s][n] EXCEPT !.name = name[s]]) \in Entry
      BY <2>2, <3>1, <3>0, EntryMade DEF Writes, Possible, KeyOK
    <3> QED BY <3>2
  <2>5. view' = [view EXCEPT ![s] = [n \in Node |-> IF n \in target[s] THEN entries[n] ELSE @[n]]]
    BY <2>2 DEF Writes
  <2>6. \A n \in target[s] : entries[n] = [view[s][n] EXCEPT !.name = name[s]]
    OBVIOUS
  <2> HIDE DEF entries
  <2>7. Rewrites(s)
    BY <2>2, <2>3, <2>4, <2>5, <2>6 DEF Writes, Rewrites
  <2> QED BY <2>1, <2>2, <2>7 DEF Shape, Stores, Writes, lockVars
<1>27. ASSUME WriteFails(s) PROVE Alone(s) /\ Shape(s)
  <2>1. Alone(s)
    BY <1>27 DEF WriteFails, Alone, Goto, changeVars, TypeOK, Fail
  <2>2. Shape(s)
    BY <1>27 DEF WriteFails, Shape, TxKept, Key, txVars, lockVars, Quiet, Closes, Fail,
        Close
  <2> QED BY <2>1, <2>2
<1>28. ASSUME Commit(s) PROVE Alone(s) /\ Shape(s)
  <2>1. Alone(s)
    BY <1>28 DEF Commit, Alone, Goto, changeVars, TypeOK
  <2>2. Shape(s)
    BY <1>28 DEF Commit, Shape, TxKept, Key, txVars, lockVars, Commits, Goto, TypeOK
  <2> QED BY <2>1, <2>2
<1>29. ASSUME SessionFails(s) PROVE Alone(s) /\ Shape(s)
  <2>1. Alone(s)
    BY <1>29 DEF SessionFails, Alone, Goto, changeVars, TypeOK, Fail
  <2>2. Shape(s)
    BY <1>29 DEF SessionFails, Shape, TxKept, Key, txVars, lockVars, Quiet, Closes,
        Fail, Close
  <2> QED BY <2>1, <2>2
<1>30. ASSUME NEW k \in owned[s], ReleaseName(s, k) PROVE Alone(s) /\ Shape(s)
  <2>1. Alone(s)
    BY <1>30 DEF ReleaseName, Alone, Goto, changeVars, TypeOK
  <2>2. Shape(s)
    BY <1>30 DEF ReleaseName, Shape, TxKept, Key, txVars, lockVars, Releases, Goto,
        TypeOK
  <2> QED BY <2>1, <2>2
<1>31. ASSUME Finish(s) PROVE Alone(s) /\ Shape(s)
  <2>1. Alone(s)
    BY <1>31 DEF Finish, Alone, Goto, changeVars, TypeOK, Forget
  <2>2. Shape(s)
    BY <1>31 DEF Finish, Shape, TxKept, Key, txVars, lockVars, Closes, Close, Forget
  <2> QED BY <2>1, <2>2
<1>32. ASSUME TxLimitAbort(s) PROVE Alone(s) /\ Shape(s)
  <2>1. Alone(s)
    BY <1>32 DEF TxLimitAbort, Alone, Goto, changeVars, TypeOK
  <2>2. Shape(s)
    BY <1>32 DEF TxLimitAbort, Shape, TxKept, Key, txVars, lockVars, Closes, Close
  <2> QED BY <2>1, <2>2
<1> QED BY <1>1, <1>2, <1>3, <1>4, <1>5, <1>6, <1>7, <1>8, <1>9, <1>10, <1>11, <1>12,
      <1>13, <1>14, <1>15, <1>16, <1>17, <1>18, <1>19, <1>20, <1>21, <1>22, <1>23,
      <1>24, <1>25, <1>26, <1>27, <1>28, <1>29, <1>30, <1>31, <1>32 DEF UploadStep, MutationStep, RequestStep

-----------------------------------------------------------------------------
(***************************************************************************)
(* Types, and what each handler knows of its own change.                   *)
(***************************************************************************)

\* The types of the variables of the handlers.
LocalType ==
  /\ pc \in [Session -> PC]
  /\ place \in [Session -> Node \cup {NoNode}]
  /\ name \in [Session -> Name \cup {NoName}]
  /\ target \in [Session -> SUBSET Node]
  /\ asked \in [Session -> Request]
  /\ todo \in [Session -> Seq(Upload \cup Field)]

\* What the handler of a request knows.
LocalOK(s) == TodoOK(s) /\ KeyOK(s) /\ StageOK(s)

\* The committed entries, and those a transaction sees, are entries.
LEMMA SeenType ==
  ASSUME TypeOK, NEW s \in Session, NEW n \in Node
  PROVE  /\ tree[n] \in Entry /\ view[s][n] \in Entry
         /\ tree[n].parent \in Node \cup {NoNode} /\ tree[n].name \in Name \cup {NoName}
         /\ tree[n].kind = "file" => tree[n] # Absent
         /\ tree[n] # Absent => tree[n].name \in Name
         /\ tree[n] = Absent => tree[n].parent = NoNode /\ tree[n].name = NoName
<1>1. tree[n] \in Entry /\ view[s][n] \in Entry
  BY DEF TypeOK
<1> QED BY <1>1, EntryType

\* A request whose changes stay the same knows of them what it knew.
LEMMA TodoKept ==
  ASSUME NEW s \in Session, TodoOK(s), asked' = asked,
         Ended(s)' \/ (~Ended(s) /\ todo'[s] = todo[s])
  PROVE  TodoOK(s)'
BY DEF TodoOK, Uploads, Change, Ended

\* The first missing folder is a name in a folder.
LEMMA FirstMissingType ==
  ASSUME NEW s \in Session, Change(s).path \in Seq(Name), NEW k \in FirstMissing(s)
  PROVE  k[1] \in Node /\ k[2] \in Name
<1> DEFINE path == Change(s).path
           at[i \in 0..Len(path)] ==
             IF i = 0 THEN Change(s).in
             ELSE LET found == {c \in Node : at[i - 1] # NoNode /\ c \in Children(tree, at[i - 1], path[i])}
                  IN IF Cardinality(found) = 1 THEN CHOOSE c \in found : TRUE ELSE NoNode
<1>1. PICK i \in 1..Len(path) : IsFolder(tree, at[i - 1]) /\ k = <<at[i - 1], path[i]>>
  BY DEF FirstMissing
<1> HIDE DEF at
<1> QED BY <1>1 DEF IsFolder

\* One folder further down, the upload is one, for the same file.
LEMMA StepDownType ==
  ASSUME TypeOK, NEW s \in Session, TodoOK(s), ~Ended(s), asked' = asked,
         Change(s).op = "putPath", Change(s).path # <<>>, StepDown(s)
  PROVE  /\ todo' \in [Session -> Seq(Upload \cup Field)]
         /\ TodoOK(s)' /\ Change(s)'.op = "putPath"
<1> DEFINE c == Change(s)
           d == [c EXCEPT !.path = Tail(@)]
<1>1. c = todo[s][1] /\ Uploads(s) /\ todo[s] \in Seq(Upload) /\ Len(todo[s]) = 1 /\ c \in Upload
  BY ChangeParts, ChangeType DEF TodoOK
<1>2. /\ d \in Upload /\ d.op = c.op /\ d.mode = c.mode /\ d.create = c.create
  <2>1. c.path \in Seq(Name) /\ Tail(c.path) \in Seq(Name)
    BY <1>1, ChangeParts
  <2>2. c \in [op : {"putPath"}, in : OldNode, path : Seq(Name), name : Name,
               mode : {"fail", "replace", "keepBoth"}, create : BOOLEAN]
    BY <1>1 DEF Upload
  <2> QED BY <2>1, <2>2 DEF Upload
<1>3. todo' = [todo EXCEPT ![s] = [@ EXCEPT ![1] = d]]
  BY <1>1 DEF StepDown
<1>4. todo[s] \in [1..1 -> Upload]
  BY <1>1
<1>5. [todo[s] EXCEPT ![1] = d] \in Seq(Upload) /\ Len([todo[s] EXCEPT ![1] = d]) = 1
      /\ [todo[s] EXCEPT ![1] = d][1] = d
  BY <1>1, <1>2
<1>6. todo'[s] = [todo[s] EXCEPT ![1] = d]
  BY <1>3 DEF TypeOK
<1>7. Change(s)' = d
  BY <1>5, <1>6, HeadOf DEF Change
<1> HIDE DEF d
<1>8. todo' \in [Session -> Seq(Upload \cup Field)]
  <2>1. todo'[s] \in Seq(Upload \cup Field)
    BY <1>5, <1>6
  <2> QED BY <1>3, <2>1 DEF TypeOK
<1>9. TodoOK(s)'
  BY <1>1, <1>2, <1>5, <1>6, <1>7 DEF TodoOK, Uploads
<1> QED BY <1>2, <1>7, <1>8, <1>9

\* The next field of a mutation is one.
LEMMA NextChangeType ==
  ASSUME TypeOK, NEW s \in Session, TodoOK(s), ~Ended(s), asked' = asked, ~Uploads(s),
         Len(todo[s]) > 1, todo' = [todo EXCEPT ![s] = Tail(@)]
  PROVE  /\ todo' \in [Session -> Seq(Upload \cup Field)]
         /\ TodoOK(s)' /\ ~Uploads(s)'
<1>1. todo[s] \in Seq(Field) /\ Len(todo[s]) \in 1..Len(asked[s])
      /\ \A i \in 1..Len(todo[s]) : todo[s][i] = asked[s][i + Len(asked[s]) - Len(todo[s])]
  BY DEF TodoOK
<1>2. todo'[s] = Tail(todo[s])
  BY DEF TypeOK
<1>3. /\ todo'[s] \in Seq(Field) /\ Len(todo'[s]) = Len(todo[s]) - 1
      /\ \A i \in 1..Len(todo'[s]) : todo'[s][i] = todo[s][i + 1]
  <2>1. /\ Tail(todo[s]) \in Seq(Field) /\ Len(Tail(todo[s])) = Len(todo[s]) - 1
        /\ \A i \in 1..Len(Tail(todo[s])) : Tail(todo[s])[i] = todo[s][i + 1]
    BY <1>1, HeadOf
  <2> QED BY <1>2, <2>1
<1>4. asked[s] \in Seq(Field)
  BY RequestType DEF TypeOK, Uploads
<1>5. Len(asked[s]) \in Nat /\ Len(todo[s]) \in Nat
  BY <1>1, <1>4
<1>6. \A i \in 1..Len(todo'[s]) : todo'[s][i] = asked[s][i + Len(asked[s]) - Len(todo'[s])]
  <2> SUFFICES ASSUME NEW i \in 1..Len(todo'[s])
               PROVE  todo'[s][i] = asked[s][i + Len(asked[s]) - Len(todo'[s])]
    OBVIOUS
  <2>1. i + 1 \in 1..Len(todo[s])
    BY <1>3, <1>5
  <2>2. Len(todo'[s]) \in Nat
    BY <1>3
  <2>3. \A m, n \in Nat : (i + 1) + m - n = i + m - (n - 1)
    BY <2>2
  <2>4. (i + 1) + Len(asked[s]) - Len(todo[s]) = i + Len(asked[s]) - Len(todo'[s])
    BY <1>3, <1>5, <2>3
  <2> QED BY <1>1, <1>3, <2>1, <2>4
<1>7. todo'[s] \in Seq(Upload \cup Field)
  BY <1>3
<1>8. ~Uploads(s)' /\ todo' \in [Session -> Seq(Upload \cup Field)]
  BY <1>7 DEF Uploads, TypeOK
<1>9. TodoOK(s)'
  BY <1>1, <1>3, <1>5, <1>6, <1>8 DEF TodoOK
<1> QED BY <1>8, <1>9

\* The fields of a request are changes.
LEMMA InChanges ==
  ASSUME NEW r \in Request, NEW i \in 1..Len(r)
  PROVE  r[i] \in Changes
BY DEF Changes

\* A field at hand is one of the changes of the request.
LEMMA FieldChange ==
  ASSUME TypeOK, NEW s \in Session, TodoOK(s), ~Ended(s), ~Uploads(s)
  PROVE  LET k == Len(asked[s]) - Len(todo[s]) + 1
         IN k \in 1..Len(asked[s]) /\ Change(s) = asked[s][k] /\ Change(s) \in Changes
<1>1. todo[s] \in Seq(Field) /\ Len(todo[s]) \in 1..Len(asked[s])
      /\ \A i \in 1..Len(todo[s]) : todo[s][i] = asked[s][i + Len(asked[s]) - Len(todo[s])]
  BY DEF TodoOK
<1>0. asked[s] \in Request
  BY DEF TypeOK
<1>2. asked[s] \in Seq(Field) /\ Len(asked[s]) \in Nat
  BY <1>0, RequestType DEF Uploads
<1>3. Change(s) = todo[s][1]
  BY ChangeParts
<1>4. 1 \in 1..Len(todo[s])
  BY <1>1, <1>2
<1>5. 1 + Len(asked[s]) - Len(todo[s]) = Len(asked[s]) - Len(todo[s]) + 1
      /\ Len(asked[s]) - Len(todo[s]) + 1 \in 1..Len(asked[s])
  <2>1. \A m \in Nat : \A l \in 1..m : 1 + m - l = m - l + 1 /\ m - l + 1 \in 1..m
    OBVIOUS
  <2> QED BY <1>1, <1>2, <2>1
<1>6. Change(s) = asked[s][Len(asked[s]) - Len(todo[s]) + 1]
  BY <1>1, <1>3, <1>4, <1>5
<1> QED BY <1>0, <1>5, <1>6, InChanges

\* A step of a request keeps the types and what the request knows.
LEMMA LocalStep ==
  ASSUME TypeOK, LocalInv, NEW s \in Session,
         UploadStep(s) \/ MutationStep(s) \/ RequestStep(s) \/ TxLimitAbort(s)
  PROVE  LocalType' /\ LocalOK(s)'
<1> USE DEF LocalType, LocalOK
<1>0. LocalType /\ LocalOK(s)
  BY DEF TypeOK, LocalInv
<1>1. ASSUME PutIntoFolder(s) PROVE LocalType' /\ LocalOK(s)'
  <2>1. LocalType'
    BY <1>1, <1>0, ChangeParts, FoundType DEF PutIntoFolder, Begin, Lock, Fail, Goto,
        changeVars, vars, PC, InSession, Writing, StageOK, KeyOK, Ended
  <2>2. TodoOK(s)'
    BY <1>1, <1>0, TodoKept DEF PutIntoFolder, Begin, Lock, Fail, Goto, changeVars,
        vars, Ended
  <2>3. KeyOK(s)'
    BY <1>1, <1>0, ChangeParts, FoundType DEF PutIntoFolder, Begin, Lock, Fail, Goto,
        changeVars, vars, KeyOK, StageOK, Ended, IsFolder
  <2>4. StageOK(s)'
    BY <1>1, <1>0, ChangeParts, FoundType DEF PutIntoFolder, Begin, Lock, Fail, Goto,
        changeVars, vars, Change, StageOK, Ended, InSession, Writing, Uploads
  <2> QED BY <2>1, <2>2, <2>3, <2>4
<1>2. ASSUME PutById(s) PROVE LocalType' /\ LocalOK(s)'
  <2>0. Change(s).id \in Node /\ {Change(s).id} \in SUBSET Node /\ tree[Change(s).id].parent \in Node \cup {NoNode}
        /\ (tree[Change(s).id] # Absent => tree[Change(s).id].name \in Name)
        /\ (tree[Change(s).id].kind = "file" => tree[Change(s).id] # Absent)
        /\ (tree[Change(s).id] = Absent => tree[Change(s).id].parent = NoNode)
    BY <1>2, <1>0, ChangeParts, SeenType DEF PutById, Ended
  <2>1. LocalType'
    <3>1. pc' \in [Session -> PC]
      BY <1>2, <1>0, <2>0, ChangeParts DEF PutById, Begin, Fail, Goto, changeVars, vars,
          Ended, PC, InSession, Writing
    <3>2. place' \in [Session -> Node \cup {NoNode}]
      BY <1>2, <1>0, <2>0, ChangeParts DEF PutById, Begin, Fail, Goto, changeVars, vars,
          Ended
    <3>3. name' \in [Session -> Name \cup {NoName}]
      BY <1>2, <1>0, <2>0, ChangeParts DEF PutById, Begin, Fail, Goto, changeVars, vars,
          Ended, StageOK, KeyOK
    <3>4. target' \in [Session -> SUBSET Node]
      BY <1>2, <1>0, <2>0, ChangeParts DEF PutById, Begin, Fail, Goto, changeVars, vars,
          Ended
    <3>5. asked' = asked /\ todo' = todo
      BY <1>2, <1>0, <2>0, ChangeParts DEF PutById, Begin, Fail, Goto, changeVars, vars,
          Ended
    <3> QED BY <1>0, <3>1, <3>2, <3>3, <3>4, <3>5
  <2>2. TodoOK(s)'
    BY <1>2, <1>0, TodoKept DEF PutById, Begin, Fail, Goto, changeVars, vars, Ended
  <2>3. KeyOK(s)'
    BY <1>2, <1>0, <2>0, ChangeParts DEF PutById, Begin, Fail, Goto, changeVars, vars,
        KeyOK, StageOK, Ended, IsFolder
  <2>4. StageOK(s)'
    BY <1>2, <1>0, <2>0, ChangeParts DEF PutById, Begin, Fail, Goto, changeVars, vars,
        Change, StageOK, Ended, InSession, Writing, Uploads
  <2> QED BY <2>1, <2>2, <2>3, <2>4
<1>3. ASSUME HoldFirstMissing(s) PROVE LocalType' /\ LocalOK(s)'
  <2>1. LocalType'
    BY <1>3, <1>0, ChangeParts, FirstMissingType DEF HoldFirstMissing, Goto, changeVars,
        vars, PC, InSession, Writing, StageOK, KeyOK, Ended
  <2>2. TodoOK(s)'
    BY <1>3, <1>0, TodoKept DEF HoldFirstMissing, Goto, changeVars, vars, Ended
  <2>3. KeyOK(s)'
    BY <1>3, <1>0, ChangeParts, FirstMissingType DEF HoldFirstMissing, Goto, changeVars,
        vars, KeyOK, StageOK, Ended, IsFolder
  <2>4. StageOK(s)'
    BY <1>3, <1>0, ChangeParts, FirstMissingType DEF HoldFirstMissing, Goto, changeVars,
        vars, Change, StageOK, Ended, InSession, Writing, Uploads
  <2> QED BY <2>1, <2>2, <2>3, <2>4
<1>4. ASSUME Hold(s) PROVE LocalType' /\ LocalOK(s)'
  <2>1. LocalType'
    BY <1>4, <1>0, ChangeParts DEF Hold, Goto, changeVars, vars, PC, InSession, Writing,
        StageOK, KeyOK, Ended
  <2>2. TodoOK(s)'
    BY <1>4, <1>0, TodoKept DEF Hold, Goto, changeVars, vars, Ended
  <2>3. KeyOK(s)'
    BY <1>4, <1>0, ChangeParts DEF Hold, Goto, changeVars, vars, KeyOK, StageOK, Ended,
        IsFolder
  <2>4. StageOK(s)'
    BY <1>4, <1>0, ChangeParts DEF Hold, Goto, changeVars, vars, Change, StageOK, Ended,
        InSession, Writing, Uploads
  <2> QED BY <2>1, <2>2, <2>3, <2>4
<1>5. ASSUME BeginPath(s) PROVE LocalType' /\ LocalOK(s)'
  <2>1. LocalType'
    BY <1>5, <1>0, ChangeParts DEF BeginPath, Begin, Goto, changeVars, vars, PC,
        InSession, Writing, StageOK, KeyOK, Ended
  <2>2. TodoOK(s)'
    BY <1>5, <1>0, TodoKept DEF BeginPath, Begin, Goto, changeVars, vars, Ended
  <2>3. KeyOK(s)'
    BY <1>5, <1>0, ChangeParts DEF BeginPath, Begin, Goto, changeVars, vars, KeyOK,
        StageOK, Ended, IsFolder
  <2>4. StageOK(s)'
    BY <1>5, <1>0, ChangeParts DEF BeginPath, Begin, Goto, changeVars, vars, Change,
        StageOK, Ended, InSession, Writing, Uploads
  <2> QED BY <2>1, <2>2, <2>3, <2>4
<1>6. ASSUME Walk(s) PROVE LocalType' /\ LocalOK(s)'
  <2>0. ~Ended(s) /\ asked' = asked /\ Change(s).op = "putPath"
    BY <1>6, <1>0 DEF Walk, Lock, Goto, changeVars, vars, Ended, StageOK
  <2> DEFINE path == Change(s).path
             found == Children(view[s], place[s], path[1])
  <2>5. CASE /\ Cardinality(found) = 1 /\ path # <<>>
             /\ place' = [place EXCEPT ![s] = CHOOSE c \in found : TRUE]
             /\ StepDown(s) /\ UNCHANGED <<pc, name, target>>
    <3>1. todo' \in [Session -> Seq(Upload \cup Field)] /\ TodoOK(s)' /\ Change(s)'.op = "putPath"
      BY <1>0, <2>0, <2>5, StepDownType
    <3>2. (CHOOSE c \in found : TRUE) \in Node
      BY <2>5, FoundType
    <3> HIDE DEF found
    <3>3. pc[s] = "walk" /\ place' \in [Session -> Node \cup {NoNode}] /\ place'[s] \in Node
      BY <1>6, <1>0, <2>5, <3>2 DEF Walk
    <3> QED BY <1>0, <2>0, <2>5, <3>1, <3>3 DEF KeyOK, StageOK
  <2>6. CASE /\ UNCHANGED <<todo, target>>
             /\ \/ path = <<>> /\ Lock(s, place[s], Change(s).name)
                \/ /\ path # <<>> /\ place' = place
                   /\ name' = [name EXCEPT ![s] = path[1]] /\ Goto(s, "checkFolder")
    <3>1. /\ Change(s).path # <<>> => Change(s).path[1] \in Name
          /\ Change(s).name \in Name /\ place[s] \in Node /\ pc[s] = "walk"
      BY <1>6, <2>0, <1>0, ChangeParts DEF Walk, KeyOK
    <3>2. LocalType'
      BY <1>0, <2>0, <2>6, <3>1 DEF Lock, Goto, PC, InSession
    <3>3. TodoOK(s)'
      BY <1>0, <2>0, <2>6, <3>1, TodoKept DEF Lock, Goto, Ended
    <3>4. KeyOK(s)'
      BY <1>0, <2>0, <2>6, <3>1 DEF Lock, Goto, KeyOK
    <3>5. StageOK(s)'
      BY <1>0, <2>0, <2>6, <3>1 DEF Lock, Goto, StageOK, Change
    <3> QED BY <3>2, <3>3, <3>4, <3>5
  <2> QED BY <1>6, <2>5, <2>6 DEF Walk
<1>7. ASSUME WalkFails(s) PROVE LocalType' /\ LocalOK(s)'
  <2>1. LocalType'
    BY <1>7, <1>0, ChangeParts DEF WalkFails, Fail, Goto, changeVars, vars, PC,
        InSession, Writing, StageOK, KeyOK, Ended
  <2>2. TodoOK(s)'
    BY <1>7, <1>0, TodoKept DEF WalkFails, Fail, Goto, changeVars, vars, Ended
  <2>3. KeyOK(s)'
    BY <1>7, <1>0, ChangeParts DEF WalkFails, Fail, Goto, changeVars, vars, KeyOK,
        StageOK, Ended, IsFolder
  <2>4. StageOK(s)'
    BY <1>7, <1>0, ChangeParts DEF WalkFails, Fail, Goto, changeVars, vars, Change,
        StageOK, Ended, InSession, Writing, Uploads
  <2> QED BY <2>1, <2>2, <2>3, <2>4
<1>8. ASSUME CheckFolder(s) PROVE LocalType' /\ LocalOK(s)'
  <2>1. LocalType'
    BY <1>8, <1>0, ChangeParts DEF CheckFolder, Fail, Goto, changeVars, vars, PC,
        InSession, Writing, StageOK, KeyOK, Ended
  <2>2. TodoOK(s)'
    BY <1>8, <1>0, TodoKept DEF CheckFolder, Fail, Goto, changeVars, vars, Ended
  <2>3. KeyOK(s)'
    BY <1>8, <1>0, ChangeParts DEF CheckFolder, Fail, Goto, changeVars, vars, KeyOK,
        StageOK, Ended, IsFolder
  <2>4. StageOK(s)'
    BY <1>8, <1>0, ChangeParts DEF CheckFolder, Fail, Goto, changeVars, vars, Change,
        StageOK, Ended, InSession, Writing, Uploads
  <2> QED BY <2>1, <2>2, <2>3, <2>4
<1>9. ASSUME InsertFolder(s) PROVE LocalType' /\ LocalOK(s)'
  <2>0. ~Ended(s) /\ asked' = asked /\ Change(s).op = "putPath"
    BY <1>9, <1>0 DEF InsertFolder, Writes, Goto, changeVars, vars, Ended, StageOK
  <2>1. PICK m \in NewNode(s) : place' = [place EXCEPT ![s] = m]
    BY <1>9 DEF InsertFolder
  <2>2. m \in Node
    BY <2>1 DEF NewNode, Node
  <2>3. pc[s] = "insertFolder" /\ pc' = [pc EXCEPT ![s] = "walk"] /\ StepDown(s) /\ UNCHANGED <<name, target, asked>>
    BY <1>9 DEF InsertFolder, Writes, Goto
  <2>4. todo' \in [Session -> Seq(Upload \cup Field)] /\ TodoOK(s)' /\ Change(s)'.op = "putPath"
    BY <1>0, <2>0, <2>3, StepDownType DEF StageOK
  <2>5. LocalType'
    BY <1>0, <2>1, <2>2, <2>3, <2>4 DEF PC, InSession
  <2> QED BY <1>0, <2>1, <2>2, <2>3, <2>4, <2>5 DEF KeyOK, StageOK
<1>10. ASSUME CheckUpload(s) PROVE LocalType' /\ LocalOK(s)'
  <2>0. NextFreeName(name[s], {tree[c].name : c \in {m \in Node : tree[m] # Absent /\ tree[m].parent = place[s]}}) \subseteq Name
        /\ Children(tree, place[s], name[s]) \subseteq Node
    BY FoundType DEF NextFreeName
  <2>1. LocalType'
    <3>1. pc' \in [Session -> PC]
      BY <1>10, <1>0, <2>0, ChangeParts DEF CheckUpload, Goto, changeVars, vars, Ended,
          PC, InSession, Writing
    <3>2. place' \in [Session -> Node \cup {NoNode}]
      BY <1>10, <1>0, <2>0, ChangeParts DEF CheckUpload, Goto, changeVars, vars, Ended
    <3>3. name' \in [Session -> Name \cup {NoName}]
      BY <1>10, <1>0, <2>0, ChangeParts DEF CheckUpload, Goto, changeVars, vars, Ended,
          StageOK, KeyOK
    <3>4. target' \in [Session -> SUBSET Node]
      BY <1>10, <1>0, <2>0, ChangeParts DEF CheckUpload, Goto, changeVars, vars, Ended
    <3>5. asked' = asked /\ todo' = todo
      BY <1>10, <1>0, <2>0, ChangeParts DEF CheckUpload, Goto, changeVars, vars, Ended
    <3> QED BY <1>0, <3>1, <3>2, <3>3, <3>4, <3>5
  <2>2. TodoOK(s)'
    BY <1>10, <1>0, TodoKept DEF CheckUpload, Goto, changeVars, vars, Ended
  <2>3. KeyOK(s)'
    BY <1>10, <1>0, <2>0, ChangeParts DEF CheckUpload, Goto, changeVars, vars, KeyOK,
        StageOK, Ended, IsFolder
  <2>4. StageOK(s)'
    BY <1>10, <1>0, <2>0, ChangeParts DEF CheckUpload, Goto, changeVars, vars, Change,
        StageOK, Ended, InSession, Writing, Uploads
  <2> QED BY <2>1, <2>2, <2>3, <2>4
<1>11. ASSUME BeginMutation(s) PROVE LocalType' /\ LocalOK(s)'
  <2>1. LocalType'
    BY <1>11, <1>0, ChangeParts DEF BeginMutation, Begin, Goto, changeVars, vars, PC,
        InSession, Writing, StageOK, KeyOK, Ended
  <2>2. TodoOK(s)'
    BY <1>11, <1>0, TodoKept DEF BeginMutation, Begin, Goto, changeVars, vars, Ended
  <2>3. KeyOK(s)'
    BY <1>11, <1>0, ChangeParts DEF BeginMutation, Begin, Goto, changeVars, vars, KeyOK,
        StageOK, Ended, IsFolder
  <2>4. StageOK(s)'
    BY <1>11, <1>0, ChangeParts DEF BeginMutation, Begin, Goto, changeVars, vars,
        Change, StageOK, Ended, InSession, Writing, Uploads
  <2> QED BY <2>1, <2>2, <2>3, <2>4
<1>12. ASSUME Create(s) PROVE LocalType' /\ LocalOK(s)'
  <2>1. LocalType'
    BY <1>12, <1>0, ChangeParts DEF Create, Goto, changeVars, vars, PC, InSession,
        Writing, StageOK, KeyOK, Ended
  <2>2. TodoOK(s)'
    BY <1>12, <1>0, TodoKept DEF Create, Goto, changeVars, vars, Ended
  <2>3. KeyOK(s)'
    BY <1>12, <1>0, ChangeParts DEF Create, Goto, changeVars, vars, KeyOK, StageOK,
        Ended, IsFolder
  <2>4. StageOK(s)'
    BY <1>12, <1>0, ChangeParts DEF Create, Goto, changeVars, vars, Change, StageOK,
        Ended, InSession, Writing, Uploads
  <2> QED BY <2>1, <2>2, <2>3, <2>4
<1>13. ASSUME Update(s) PROVE LocalType' /\ LocalOK(s)'
  <2>0. Change(s).id \in Node /\ {Change(s).id} \in SUBSET Node /\ tree[Change(s).id].parent \in Node \cup {NoNode}
        /\ (tree[Change(s).id] # Absent => tree[Change(s).id].name \in Name)
        /\ (tree[Change(s).id].kind = "file" => tree[Change(s).id] # Absent)
        /\ (tree[Change(s).id] = Absent => tree[Change(s).id].parent = NoNode)
    BY <1>13, <1>0, ChangeParts, SeenType DEF Update, Ended
  <2>1. LocalType'
    <3>1. pc' \in [Session -> PC]
      BY <1>13, <1>0, <2>0, ChangeParts DEF Update, Lock, Fail, Goto, changeVars, vars,
          Ended, PC, InSession, Writing
    <3>2. place' \in [Session -> Node \cup {NoNode}]
      BY <1>13, <1>0, <2>0, ChangeParts DEF Update, Lock, Fail, Goto, changeVars, vars,
          Ended
    <3>3. name' \in [Session -> Name \cup {NoName}]
      BY <1>13, <1>0, <2>0, ChangeParts DEF Update, Lock, Fail, Goto, changeVars, vars,
          Ended, StageOK, KeyOK
    <3>4. target' \in [Session -> SUBSET Node]
      BY <1>13, <1>0, <2>0, ChangeParts DEF Update, Lock, Fail, Goto, changeVars, vars,
          Ended
    <3>5. asked' = asked /\ todo' = todo
      BY <1>13, <1>0, <2>0, ChangeParts DEF Update, Lock, Fail, Goto, changeVars, vars,
          Ended
    <3> QED BY <1>0, <3>1, <3>2, <3>3, <3>4, <3>5
  <2>2. TodoOK(s)'
    BY <1>13, <1>0, TodoKept DEF Update, Lock, Fail, Goto, changeVars, vars, Ended
  <2>3. KeyOK(s)'
    BY <1>13, <1>0, <2>0, ChangeParts DEF Update, Lock, Fail, Goto, changeVars, vars,
        KeyOK, StageOK, Ended, IsFolder
  <2>4. StageOK(s)'
    BY <1>13, <1>0, <2>0, ChangeParts DEF Update, Lock, Fail, Goto, changeVars, vars,
        Change, StageOK, Ended, InSession, Writing, Uploads
  <2> QED BY <2>1, <2>2, <2>3, <2>4
<1>14. ASSUME Delete(s) PROVE LocalType' /\ LocalOK(s)'
  <2>0. Change(s).id \in Node /\ {Change(s).id} \in SUBSET Node /\ Below(tree, Change(s).id) \subseteq Node
    BY <1>14, <1>0, ChangeParts, FoundType DEF Delete, Ended
  <2>1. LocalType'
    BY <1>14, <1>0, <2>0 DEF Delete, Goto, changeVars, vars, PC, InSession, Writing,
        StageOK, KeyOK, Ended
  <2>2. TodoOK(s)'
    BY <1>14, <1>0, TodoKept DEF Delete, Goto, changeVars, vars, Ended
  <2>3. KeyOK(s)'
    BY <1>14, <1>0, <2>0 DEF Delete, Goto, changeVars, vars, KeyOK, StageOK, Ended,
        IsFolder
  <2>4. StageOK(s)'
    BY <1>14, <1>0, <2>0 DEF Delete, Goto, changeVars, vars, Change, StageOK, Ended,
        InSession, Writing, Uploads
  <2> QED BY <2>1, <2>2, <2>3, <2>4
<1>15. ASSUME Visible(s) PROVE LocalType' /\ LocalOK(s)'
  <2>1. LocalType'
    BY <1>15, <1>0, ChangeParts, FoundType DEF Visible, Lock, Fail, Goto, changeVars,
        vars, PC, InSession, Writing, StageOK, KeyOK, Ended
  <2>2. TodoOK(s)'
    BY <1>15, <1>0, TodoKept DEF Visible, Lock, Fail, Goto, changeVars, vars, Ended
  <2>3. KeyOK(s)'
    BY <1>15, <1>0, ChangeParts, FoundType DEF Visible, Lock, Fail, Goto, changeVars,
        vars, KeyOK, StageOK, Ended, IsFolder
  <2>4. StageOK(s)'
    BY <1>15, <1>0, ChangeParts, FoundType DEF Visible, Lock, Fail, Goto, changeVars,
        vars, Change, StageOK, Ended, InSession, Writing, Uploads
  <2> QED BY <2>1, <2>2, <2>3, <2>4
<1>16. ASSUME NotBelowItself(s) PROVE LocalType' /\ LocalOK(s)'
  <2>1. LocalType'
    BY <1>16, <1>0, ChangeParts DEF NotBelowItself, Lock, Fail, Goto, changeVars, vars,
        PC, InSession, Writing, StageOK, KeyOK, Ended
  <2>2. TodoOK(s)'
    BY <1>16, <1>0, TodoKept DEF NotBelowItself, Lock, Fail, Goto, changeVars, vars,
        Ended
  <2>3. KeyOK(s)'
    BY <1>16, <1>0, ChangeParts DEF NotBelowItself, Lock, Fail, Goto, changeVars, vars,
        KeyOK, StageOK, Ended, IsFolder
  <2>4. StageOK(s)'
    BY <1>16, <1>0, ChangeParts DEF NotBelowItself, Lock, Fail, Goto, changeVars, vars,
        Change, StageOK, Ended, InSession, Writing, Uploads
  <2> QED BY <2>1, <2>2, <2>3, <2>4
<1>17. ASSUME CheckName(s) PROVE LocalType' /\ LocalOK(s)'
  <2>1. LocalType'
    BY <1>17, <1>0, ChangeParts DEF CheckName, Fail, Goto, changeVars, vars, PC,
        InSession, Writing, StageOK, KeyOK, Ended
  <2>2. TodoOK(s)'
    BY <1>17, <1>0, TodoKept DEF CheckName, Fail, Goto, changeVars, vars, Ended
  <2>3. KeyOK(s)'
    BY <1>17, <1>0, ChangeParts DEF CheckName, Fail, Goto, changeVars, vars, KeyOK,
        StageOK, Ended, IsFolder
  <2>4. StageOK(s)'
    BY <1>17, <1>0, ChangeParts DEF CheckName, Fail, Goto, changeVars, vars, Change,
        StageOK, Ended, InSession, Writing, Uploads
  <2> QED BY <2>1, <2>2, <2>3, <2>4
<1>18. ASSUME UpdateEntry(s) PROVE LocalType' /\ LocalOK(s)'
  <2>1. LocalType'
    BY <1>18, <1>0, ChangeParts DEF UpdateEntry, Writes, Goto, changeVars, vars, PC,
        InSession, Writing, StageOK, KeyOK, Ended
  <2>2. TodoOK(s)'
    BY <1>18, <1>0, TodoKept DEF UpdateEntry, Writes, Goto, changeVars, vars, Ended
  <2>3. KeyOK(s)'
    BY <1>18, <1>0, ChangeParts DEF UpdateEntry, Writes, Goto, changeVars, vars, KeyOK,
        StageOK, Ended, IsFolder
  <2>4. StageOK(s)'
    BY <1>18, <1>0, ChangeParts DEF UpdateEntry, Writes, Goto, changeVars, vars, Change,
        StageOK, Ended, InSession, Writing, Uploads
  <2> QED BY <2>1, <2>2, <2>3, <2>4
<1>19. ASSUME Erase(s) PROVE LocalType' /\ LocalOK(s)'
  <2>1. LocalType'
    BY <1>19, <1>0, ChangeParts DEF Erase, Writes, Goto, changeVars, vars, PC,
        InSession, Writing, StageOK, KeyOK, Ended
  <2>2. TodoOK(s)'
    BY <1>19, <1>0, TodoKept DEF Erase, Writes, Goto, changeVars, vars, Ended
  <2>3. KeyOK(s)'
    BY <1>19, <1>0, ChangeParts DEF Erase, Writes, Goto, changeVars, vars, KeyOK,
        StageOK, Ended, IsFolder
  <2>4. StageOK(s)'
    BY <1>19, <1>0, ChangeParts DEF Erase, Writes, Goto, changeVars, vars, Change,
        StageOK, Ended, InSession, Writing, Uploads
  <2> QED BY <2>1, <2>2, <2>3, <2>4
<1>20. ASSUME NextChange(s) PROVE LocalType' /\ LocalOK(s)'
  <2>1. ~Ended(s) /\ pc' = [pc EXCEPT ![s] = "change"] /\ UNCHANGED <<asked, changeVars>>
    BY <1>20 DEF NextChange, Goto, Ended
  <2>2. ~Uploads(s)
    BY <1>20, <1>0, <2>1 DEF NextChange, TodoOK
  <2>3. todo' \in [Session -> Seq(Upload \cup Field)] /\ TodoOK(s)' /\ ~Uploads(s)'
    BY <1>20, <1>0, <2>1, <2>2, NextChangeType DEF NextChange
  <2>4. LocalType'
    BY <1>0, <2>1, <2>3 DEF changeVars, PC
  <2> QED BY <1>0, <2>1, <2>3, <2>4 DEF KeyOK, StageOK, changeVars
<1>21. ASSUME Snapshot(s) PROVE LocalType' /\ LocalOK(s)'
  <2>1. LocalType'
    BY <1>21, <1>0 DEF Snapshot, Goto, changeVars, vars, txVars, PC, InSession, Writing,
        StageOK, KeyOK, Ended
  <2>2. TodoOK(s)'
    BY <1>21, <1>0, TodoKept DEF Snapshot, Goto, changeVars, vars, txVars, Ended,
        InSession, Writing
  <2>3. KeyOK(s)'
    BY <1>21, <1>0 DEF Snapshot, Goto, changeVars, vars, txVars, KeyOK, StageOK, Ended,
        IsFolder
  <2>4. StageOK(s)'
    BY <1>21, <1>0 DEF Snapshot, Goto, changeVars, vars, txVars, Change, StageOK, Ended,
        InSession, Writing, Uploads
  <2> QED BY <2>1, <2>2, <2>3, <2>4
<1>22. ASSUME GrantName(s) PROVE LocalType' /\ LocalOK(s)'
  <2>1. LocalType'
    BY <1>22, <1>0, ChangeParts DEF GrantName, Goto, changeVars, vars, PC, InSession,
        Writing, StageOK, KeyOK, Ended
  <2>2. TodoOK(s)'
    BY <1>22, <1>0, TodoKept DEF GrantName, Goto, changeVars, vars, Ended
  <2>3. KeyOK(s)'
    BY <1>22, <1>0, ChangeParts DEF GrantName, Goto, changeVars, vars, KeyOK, StageOK,
        Ended, IsFolder
  <2>4. StageOK(s)'
    BY <1>22, <1>0, ChangeParts DEF GrantName, Goto, changeVars, vars, Change, StageOK,
        Ended, InSession, Writing, Uploads
  <2> QED BY <2>1, <2>2, <2>3, <2>4
<1>23. ASSUME ShareName(s) PROVE LocalType' /\ LocalOK(s)'
  <2>1. LocalType'
    BY <1>23, <1>0, ChangeParts DEF ShareName, Goto, changeVars, vars, PC, InSession,
        Writing, StageOK, KeyOK, Ended
  <2>2. TodoOK(s)'
    BY <1>23, <1>0, TodoKept DEF ShareName, Goto, changeVars, vars, Ended
  <2>3. KeyOK(s)'
    BY <1>23, <1>0, ChangeParts DEF ShareName, Goto, changeVars, vars, KeyOK, StageOK,
        Ended, IsFolder
  <2>4. StageOK(s)'
    BY <1>23, <1>0, ChangeParts DEF ShareName, Goto, changeVars, vars, Change, StageOK,
        Ended, InSession, Writing, Uploads
  <2> QED BY <2>1, <2>2, <2>3, <2>4
<1>24. ASSUME LockFails(s) PROVE LocalType' /\ LocalOK(s)'
  <2>1. LocalType'
    BY <1>24, <1>0, ChangeParts DEF LockFails, Fail, Goto, changeVars, vars, PC,
        InSession, Writing, StageOK, KeyOK, Ended
  <2>2. TodoOK(s)'
    BY <1>24, <1>0, TodoKept DEF LockFails, Fail, Goto, changeVars, vars, Ended
  <2>3. KeyOK(s)'
    BY <1>24, <1>0, ChangeParts DEF LockFails, Fail, Goto, changeVars, vars, KeyOK,
        StageOK, Ended, IsFolder
  <2>4. StageOK(s)'
    BY <1>24, <1>0, ChangeParts DEF LockFails, Fail, Goto, changeVars, vars, Change,
        StageOK, Ended, InSession, Writing, Uploads
  <2> QED BY <2>1, <2>2, <2>3, <2>4
<1>25. ASSUME Insert(s) PROVE LocalType' /\ LocalOK(s)'
  <2>1. LocalType'
    BY <1>25, <1>0, ChangeParts DEF Insert, Writes, Goto, changeVars, vars, PC,
        InSession, Writing, StageOK, KeyOK, Ended
  <2>2. TodoOK(s)'
    BY <1>25, <1>0, TodoKept DEF Insert, Writes, Goto, changeVars, vars, Ended
  <2>3. KeyOK(s)'
    BY <1>25, <1>0, ChangeParts DEF Insert, Writes, Goto, changeVars, vars, KeyOK,
        StageOK, Ended, IsFolder
  <2>4. StageOK(s)'
    BY <1>25, <1>0, ChangeParts DEF Insert, Writes, Goto, changeVars, vars, Change,
        StageOK, Ended, InSession, Writing, Uploads
  <2> QED BY <2>1, <2>2, <2>3, <2>4
<1>26. ASSUME Replace(s) PROVE LocalType' /\ LocalOK(s)'
  <2>1. LocalType'
    BY <1>26, <1>0, ChangeParts DEF Replace, Writes, Goto, changeVars, vars, PC,
        InSession, Writing, StageOK, KeyOK, Ended
  <2>2. TodoOK(s)'
    BY <1>26, <1>0, TodoKept DEF Replace, Writes, Goto, changeVars, vars, Ended
  <2>3. KeyOK(s)'
    BY <1>26, <1>0, ChangeParts DEF Replace, Writes, Goto, changeVars, vars, KeyOK,
        StageOK, Ended, IsFolder
  <2>4. StageOK(s)'
    BY <1>26, <1>0, ChangeParts DEF Replace, Writes, Goto, changeVars, vars, Change,
        StageOK, Ended, InSession, Writing, Uploads
  <2> QED BY <2>1, <2>2, <2>3, <2>4
<1>27. ASSUME WriteFails(s) PROVE LocalType' /\ LocalOK(s)'
  <2>1. LocalType'
    BY <1>27, <1>0, ChangeParts DEF WriteFails, Fail, Goto, changeVars, vars, PC,
        InSession, Writing, StageOK, KeyOK, Ended
  <2>2. TodoOK(s)'
    BY <1>27, <1>0, TodoKept DEF WriteFails, Fail, Goto, changeVars, vars, Ended,
        InSession, Writing
  <2>3. KeyOK(s)'
    BY <1>27, <1>0, ChangeParts DEF WriteFails, Fail, Goto, changeVars, vars, KeyOK,
        StageOK, Ended, IsFolder
  <2>4. StageOK(s)'
    BY <1>27, <1>0, ChangeParts DEF WriteFails, Fail, Goto, changeVars, vars, Change,
        StageOK, Ended, InSession, Writing, Uploads
  <2> QED BY <2>1, <2>2, <2>3, <2>4
<1>28. ASSUME Commit(s) PROVE LocalType' /\ LocalOK(s)'
  <2>1. LocalType'
    BY <1>28, <1>0, ChangeParts DEF Commit, Goto, changeVars, vars, PC, InSession,
        Writing, StageOK, KeyOK, Ended
  <2>2. TodoOK(s)'
    BY <1>28, <1>0, TodoKept DEF Commit, Goto, changeVars, vars, Ended
  <2>3. KeyOK(s)'
    BY <1>28, <1>0, ChangeParts DEF Commit, Goto, changeVars, vars, KeyOK, StageOK,
        Ended, IsFolder
  <2>4. StageOK(s)'
    BY <1>28, <1>0, ChangeParts DEF Commit, Goto, changeVars, vars, Change, StageOK,
        Ended, InSession, Writing, Uploads
  <2> QED BY <2>1, <2>2, <2>3, <2>4
<1>29. ASSUME SessionFails(s) PROVE LocalType' /\ LocalOK(s)'
  <2>1. LocalType'
    BY <1>29, <1>0, ChangeParts DEF SessionFails, Fail, Goto, changeVars, vars, PC,
        InSession, Writing, StageOK, KeyOK, Ended
  <2>2. TodoOK(s)'
    BY <1>29, <1>0, TodoKept DEF SessionFails, Fail, Goto, changeVars, vars, Ended,
        InSession, Writing
  <2>3. KeyOK(s)'
    BY <1>29, <1>0, ChangeParts DEF SessionFails, Fail, Goto, changeVars, vars, KeyOK,
        StageOK, Ended, IsFolder
  <2>4. StageOK(s)'
    BY <1>29, <1>0, ChangeParts DEF SessionFails, Fail, Goto, changeVars, vars, Change,
        StageOK, Ended, InSession, Writing, Uploads
  <2> QED BY <2>1, <2>2, <2>3, <2>4
<1>30. ASSUME NEW k \in owned[s], ReleaseName(s, k) PROVE LocalType' /\ LocalOK(s)'
  <2>1. LocalType'
    BY <1>30, <1>0 DEF ReleaseName, Goto, changeVars, vars, PC, InSession, Writing,
        StageOK, KeyOK, Ended
  <2>2. TodoOK(s)'
    BY <1>30, <1>0, TodoKept DEF ReleaseName, Goto, changeVars, vars, Ended
  <2>3. KeyOK(s)'
    BY <1>30, <1>0 DEF ReleaseName, Goto, changeVars, vars, KeyOK, StageOK, Ended,
        IsFolder
  <2>4. StageOK(s)'
    BY <1>30, <1>0 DEF ReleaseName, Goto, changeVars, vars, Change, StageOK, Ended,
        InSession, Writing, Uploads
  <2> QED BY <2>1, <2>2, <2>3, <2>4
<1>31. ASSUME Finish(s) PROVE LocalType' /\ LocalOK(s)'
  <2>1. LocalType'
    BY <1>31, <1>0 DEF Finish, Forget, Goto, changeVars, vars, PC, InSession, Writing,
        StageOK, KeyOK, Ended
  <2>2. TodoOK(s)'
    BY <1>31, <1>0, TodoKept DEF Finish, Forget, Goto, changeVars, vars, Ended
  <2>3. KeyOK(s)'
    BY <1>31, <1>0 DEF Finish, Forget, Goto, changeVars, vars, KeyOK, StageOK, Ended,
        IsFolder
  <2>4. StageOK(s)'
    BY <1>31, <1>0 DEF Finish, Forget, Goto, changeVars, vars, Change, StageOK, Ended,
        InSession, Writing, Uploads
  <2> QED BY <2>1, <2>2, <2>3, <2>4
<1>32. ASSUME TxLimitAbort(s) PROVE LocalType' /\ LocalOK(s)'
  <2>1. LocalType'
    BY <1>32, <1>0 DEF TxLimitAbort, Goto, changeVars, vars, PC, InSession, Writing,
        StageOK, KeyOK, Ended
  <2>2. TodoOK(s)'
    BY <1>32, <1>0, TodoKept DEF TxLimitAbort, Goto, changeVars, vars, Ended
  <2>3. KeyOK(s)'
    BY <1>32, <1>0 DEF TxLimitAbort, Goto, changeVars, vars, KeyOK, StageOK, Ended,
        IsFolder
  <2>4. StageOK(s)'
    BY <1>32, <1>0 DEF TxLimitAbort, Goto, changeVars, vars, Change, StageOK, Ended,
        InSession, Writing, Uploads
  <2> QED BY <2>1, <2>2, <2>3, <2>4
<1> QED BY <1>1, <1>2, <1>3, <1>4, <1>5, <1>6, <1>7, <1>8, <1>9, <1>10, <1>11, <1>12,
      <1>13, <1>14, <1>15, <1>16, <1>17, <1>18, <1>19, <1>20, <1>21, <1>22, <1>23,
      <1>24, <1>25, <1>26, <1>27, <1>28, <1>29, <1>30, <1>31, <1>32 DEF UploadStep, MutationStep, RequestStep

\* Only entries that are there, or were from the start, become targets; a request
\* that has ended does not come back, and begins nothing.
LEMMA TargetStep ==
  ASSUME TypeOK, LocalInv, NEW s \in Session,
         UploadStep(s) \/ MutationStep(s) \/ RequestStep(s) \/ TxLimitAbort(s)
  PROVE  /\ \A n \in target'[s] : n \in target[s] \cup OldNode \/ tree[n] # Absent
         /\ Ended(s) => Ended(s)'
         /\ pc'[s] \in {"start", "done"} => pc[s] \in {"start", "done"} \/ ~begun'[s]
<1> DEFINE Goal == /\ \A n \in target'[s] : n \in target[s] \cup OldNode \/ tree[n] # Absent
                   /\ Ended(s) => Ended(s)'
                   /\ pc'[s] \in {"start", "done"} => pc[s] \in {"start", "done"} \/ ~begun'[s]
<1>0. TodoOK(s)
  BY DEF LocalInv
<1>1. ASSUME PutIntoFolder(s) PROVE Goal
  BY <1>1 DEF PutIntoFolder, Begin, Lock, Fail, Close, Goto, changeVars, vars, Ended,
      TypeOK
<1>2. ASSUME PutById(s) PROVE Goal
  <2>1. Change(s).id \in OldNode
    BY <1>2, <1>0, ChangeParts DEF PutById, Ended
  <2> QED
    BY <1>2, <2>1 DEF PutById, Begin, Fail, Close, Goto, changeVars, vars, Ended, TypeOK
<1>3. ASSUME HoldFirstMissing(s) PROVE Goal
  BY <1>3 DEF HoldFirstMissing, Goto, changeVars, vars, Ended, TypeOK
<1>4. ASSUME Hold(s) PROVE Goal
  BY <1>4 DEF Hold, Goto, changeVars, vars, Ended, TypeOK
<1>5. ASSUME BeginPath(s) PROVE Goal
  BY <1>5 DEF BeginPath, Begin, Goto, changeVars, vars, Ended, TypeOK
<1>6. ASSUME Walk(s) PROVE Goal
  BY <1>6 DEF Walk, Lock, Goto, changeVars, vars, Ended, TypeOK
<1>7. ASSUME WalkFails(s) PROVE Goal
  BY <1>7 DEF WalkFails, Fail, Close, Goto, changeVars, vars, Ended, TypeOK
<1>8. ASSUME CheckFolder(s) PROVE Goal
  BY <1>8 DEF CheckFolder, Fail, Close, Goto, changeVars, vars, Ended, TypeOK
<1>9. ASSUME InsertFolder(s) PROVE Goal
  BY <1>9 DEF InsertFolder, Writes, Goto, changeVars, vars, Ended, TypeOK
<1>10. ASSUME CheckUpload(s) PROVE Goal
  BY <1>10 DEF CheckUpload, Goto, changeVars, vars, Ended, TypeOK, Children
<1>11. ASSUME BeginMutation(s) PROVE Goal
  BY <1>11 DEF BeginMutation, Begin, Goto, changeVars, vars, Ended, TypeOK
<1>12. ASSUME Create(s) PROVE Goal
  BY <1>12 DEF Create, Goto, changeVars, vars, Ended, TypeOK
<1>13. ASSUME Update(s) PROVE Goal
  <2>1. Change(s).id \in OldNode
    BY <1>13, <1>0, ChangeParts DEF Update, Ended
  <2> QED
    BY <1>13, <2>1 DEF Update, Lock, Fail, Close, Goto, changeVars, vars, Ended, TypeOK
<1>14. ASSUME Delete(s) PROVE Goal
  <2>1. Change(s).id \in OldNode
    BY <1>14, <1>0, ChangeParts DEF Delete, Ended
  <2> QED
    BY <1>14, <2>1 DEF Delete, Goto, changeVars, vars, Ended, TypeOK, Below
<1>15. ASSUME Visible(s) PROVE Goal
  BY <1>15 DEF Visible, Lock, Fail, Close, Goto, changeVars, vars, Ended, TypeOK
<1>16. ASSUME NotBelowItself(s) PROVE Goal
  BY <1>16 DEF NotBelowItself, Lock, Fail, Close, Goto, changeVars, vars, Ended, TypeOK
<1>17. ASSUME CheckName(s) PROVE Goal
  BY <1>17 DEF CheckName, Fail, Close, Goto, changeVars, vars, Ended, TypeOK
<1>18. ASSUME UpdateEntry(s) PROVE Goal
  BY <1>18 DEF UpdateEntry, Writes, Goto, changeVars, vars, Ended, TypeOK
<1>19. ASSUME Erase(s) PROVE Goal
  BY <1>19 DEF Erase, Writes, Goto, changeVars, vars, Ended, TypeOK
<1>20. ASSUME NextChange(s) PROVE Goal
  BY <1>20 DEF NextChange, Goto, changeVars, vars, Ended, TypeOK
<1>21. ASSUME Snapshot(s) PROVE Goal
  BY <1>21 DEF Snapshot, Goto, changeVars, vars, Ended, TypeOK, txVars, InSession,
      Writing
<1>22. ASSUME GrantName(s) PROVE Goal
  BY <1>22 DEF GrantName, Goto, changeVars, vars, Ended, TypeOK
<1>23. ASSUME ShareName(s) PROVE Goal
  BY <1>23 DEF ShareName, Goto, changeVars, vars, Ended, TypeOK
<1>24. ASSUME LockFails(s) PROVE Goal
  BY <1>24 DEF LockFails, Fail, Close, Goto, changeVars, vars, Ended, TypeOK
<1>25. ASSUME Insert(s) PROVE Goal
  BY <1>25 DEF Insert, Writes, Goto, changeVars, vars, Ended, TypeOK
<1>26. ASSUME Replace(s) PROVE Goal
  BY <1>26 DEF Replace, Writes, Goto, changeVars, vars, Ended, TypeOK
<1>27. ASSUME WriteFails(s) PROVE Goal
  BY <1>27 DEF WriteFails, Fail, Close, Goto, changeVars, vars, Ended, TypeOK,
      InSession, Writing
<1>28. ASSUME Commit(s) PROVE Goal
  BY <1>28 DEF Commit, Goto, changeVars, vars, Ended, TypeOK
<1>29. ASSUME SessionFails(s) PROVE Goal
  BY <1>29 DEF SessionFails, Fail, Close, Goto, changeVars, vars, Ended, TypeOK,
      InSession, Writing
<1>30. ASSUME NEW k \in owned[s], ReleaseName(s, k) PROVE Goal
  BY <1>30 DEF ReleaseName, Goto, changeVars, vars, Ended, TypeOK
<1>31. ASSUME Finish(s) PROVE Goal
  BY <1>31 DEF Finish, Close, Forget, Goto, changeVars, vars, Ended, TypeOK
<1>32. ASSUME TxLimitAbort(s) PROVE Goal
  BY <1>32 DEF TxLimitAbort, Close, Goto, changeVars, vars, Ended, TypeOK
<1> QED BY <1>1, <1>2, <1>3, <1>4, <1>5, <1>6, <1>7, <1>8, <1>9, <1>10, <1>11, <1>12,
      <1>13, <1>14, <1>15, <1>16, <1>17, <1>18, <1>19, <1>20, <1>21, <1>22, <1>23,
      <1>24, <1>25, <1>26, <1>27, <1>28, <1>29, <1>30, <1>31, <1>32 DEF UploadStep, MutationStep, RequestStep

\* The types of the tree and of the transactions.
TxType ==
  /\ tree \in [Node -> Entry]
  /\ view \in [Session -> [Node -> Entry]]
  /\ begun \in [Session -> BOOLEAN]
  /\ touched \in [Session -> SUBSET Documents(Node)]
  /\ stale \in [Session -> SUBSET Documents(Node)]

\* What transactions have seen and written.
TxInv == TouchedInv /\ NewInv /\ ViewInv

\* New entries belong to one request, and were not there from the start.
LEMMA NewApart ==
  ASSUME NEW s \in Session
  PROVE  /\ New(s) \subseteq Node /\ New(s) \cap OldNode = {}
         /\ \A t \in Session : t # s => New(s) \cap New(t) = {}
         /\ NewNode(s) \subseteq New(s)
BY NodeAssumption DEF New, Node, NewNode

\* What a commit makes of an entry.
LEMMA MergedEntry ==
  ASSUME TypeOK, TxInv, NEW s \in open, ~Ended(s), begun[s], NEW n \in Node
  PROVE  /\ ~Touches(s, n) => Merged(s)[n] = tree[n]
         /\ Touches(s, n) => (Merged(s)[n] = Absent <=> view[s][n] = Absent)
         /\ Touches(s, n) /\ n \notin New(s) => tree[n] # Absent
         /\ Touches(s, n) /\ n \in New(s) => Merged(s)[n] = view[s][n]
         /\ Touches(s, n) /\ view[s][n] = Absent => Documents({n}) \subseteq touched[s]
         /\ Merged(s)[n] \in Entry
         /\ Merged(s)[n].name = IF <<n, "entry">> \in touched[s] THEN view[s][n].name ELSE tree[n].name
         /\ Merged(s)[n].parent = IF <<n, "link">> \in touched[s] THEN view[s][n].parent ELSE tree[n].parent
<1>0. s \in Session /\ view[s][n] \in Entry /\ tree[n] \in Entry
  BY DEF TypeOK, Locks!LockTypeOK
<1>1. Touches(s, n) <=> <<n, "entry">> \in touched[s] \/ <<n, "link">> \in touched[s]
  BY DEF Touches, Documents
<1>2. Documents({n}) \subseteq touched[s] <=> <<n, "entry">> \in touched[s] /\ <<n, "link">> \in touched[s]
  BY DEF Documents
<1>3. Touches(s, n) /\ n \in New(s) => Documents({n}) \subseteq touched[s]
  BY <1>0 DEF TxInv, NewInv
<1>4. n \notin New(s) => /\ Touches(s, n) => tree[n] # Absent
                         /\ Touches(s, n) /\ view[s][n] = Absent => Documents({n}) \subseteq touched[s]
  BY DEF TxInv, ViewInv
<1>5. tree[n].parent \in Node \cup {NoNode} /\ view[s][n].parent \in Node \cup {NoNode}
  BY <1>0, EntryType
<1>6. CASE <<n, "entry">> \in touched[s] /\ <<n, "link">> \in touched[s]
  <2>1. Merged(s)[n] = view[s][n]
    BY <1>6 DEF Merged
  <2> QED BY <1>0, <1>1, <1>2, <1>4, <1>6, <2>1
<1>7. CASE <<n, "entry">> \notin touched[s] /\ <<n, "link">> \notin touched[s]
  <2>1. Merged(s)[n] = tree[n]
    BY <1>7 DEF Merged
  <2> QED BY <1>0, <1>1, <1>7, <2>1
<1>8. CASE <<n, "entry">> \in touched[s] /\ <<n, "link">> \notin touched[s]
  <2>1. Merged(s)[n] = [view[s][n] EXCEPT !.parent = tree[n].parent]
    BY <1>8 DEF Merged
  <2>2. n \notin New(s) /\ view[s][n] # Absent /\ tree[n] # Absent
    BY <1>1, <1>2, <1>3, <1>4, <1>8
  <2>3. view[s][n].name \in Name
    BY <1>0, <2>2, EntryType
  <2>4. [view[s][n] EXCEPT !.parent = tree[n].parent] \in Entry
        /\ [view[s][n] EXCEPT !.parent = tree[n].parent] # Absent
    BY <1>0, <1>5, <2>2, <2>3 DEF Entry, Absent
  <2>5. /\ [view[s][n] EXCEPT !.parent = tree[n].parent].name = view[s][n].name
        /\ [view[s][n] EXCEPT !.parent = tree[n].parent].parent = tree[n].parent
    BY <1>0 DEF Entry, Absent
  <2> QED BY <1>1, <1>8, <2>1, <2>2, <2>4, <2>5
<1>9. CASE <<n, "entry">> \notin touched[s] /\ <<n, "link">> \in touched[s]
  <2>1. Merged(s)[n] = [tree[n] EXCEPT !.parent = view[s][n].parent]
    BY <1>9 DEF Merged
  <2>2. n \notin New(s) /\ view[s][n] # Absent /\ tree[n] # Absent
    BY <1>1, <1>2, <1>3, <1>4, <1>9
  <2>3. tree[n].name \in Name
    BY <1>0, <2>2, EntryType
  <2>4. [tree[n] EXCEPT !.parent = view[s][n].parent] \in Entry
        /\ [tree[n] EXCEPT !.parent = view[s][n].parent] # Absent
    BY <1>0, <1>5, <2>2, <2>3 DEF Entry, Absent
  <2>5. /\ [tree[n] EXCEPT !.parent = view[s][n].parent].name = tree[n].name
        /\ [tree[n] EXCEPT !.parent = view[s][n].parent].parent = view[s][n].parent
    BY <1>0 DEF Entry, Absent
  <2> QED BY <1>1, <1>9, <2>1, <2>2, <2>4, <2>5
<1> QED BY <1>6, <1>7, <1>8, <1>9

\* A step of a request keeps the types of the tree, the transactions and the locks.
LEMMA TxStep ==
  ASSUME TypeOK, LocalInv, TxInv, NEW s \in Session, Shape(s)
  PROVE  TxType' /\ Locks!LockTypeOK'
<1> USE DEF TxType, Locks!LockTypeOK
<1>0. TxType /\ Locks!LockTypeOK /\ NoTree \in [Node -> Entry] /\ KeyOK(s)
  BY EntryType DEF TypeOK, NoTree, LocalInv
<1>1. CASE Quiet
  BY <1>0, <1>1 DEF Quiet, TxKept
<1>2. CASE Begins(s)
  BY <1>0, <1>2 DEF Begins, TxKept, Locks!Begin
<1>3. CASE Grants(s)
  BY <1>0, <1>3 DEF Grants, TxKept, Locks!Grant, KeyOK, Key
<1>4. CASE Shares(s)
  BY <1>0, <1>4 DEF Shares, TxKept, Locks!Share, KeyOK, Key
<1>5. CASE Releases(s)
  <2>1. PICK k \in owned[s] : IF k \in shared[s] THEN Locks!Unshare(s, k) ELSE Locks!Give(s, k)
    BY <1>5 DEF Releases
  <2>2. CASE k \in shared[s]
    BY <1>0, <1>5, <2>1, <2>2 DEF Releases, TxKept, Locks!Unshare
  <2>3. CASE k \notin shared[s]
    BY <1>0, <1>5, <2>1, <2>3 DEF Releases, TxKept, Locks!Give
  <2> QED BY <2>2, <2>3
<1>6. CASE Closes(s)
  BY <1>0, <1>6 DEF Closes, Close, Locks!End
<1>7. CASE Commits(s)
  <2>1. Merged(s) \in [Node -> Entry]
    <3>1. CASE begun[s]
      <4>1. \A n \in Node : Merged(s)[n] \in Entry
        BY <1>7, <3>1, MergedEntry DEF Commits, Ended
      <4> QED BY <4>1 DEF Merged
    <3>2. CASE ~begun[s]
      <4>1. touched[s] = {}
        BY <3>2 DEF TxInv, TouchedInv
      <4> QED BY <1>0, <4>1 DEF Merged
    <3> QED BY <3>1, <3>2
  <2>2. stale' \in [Session -> SUBSET Documents(Node)]
    BY <1>0, <1>7 DEF Commits
  <2> QED BY <1>0, <1>7, <2>1, <2>2 DEF Commits, Locks!End
<1>8. CASE Snapshot(s)
  BY <1>0, <1>8 DEF Snapshot, lockVars
<1>9. CASE Stores(s)
  <2>1. UNCHANGED <<tree, begun, stale, owned, shared, open>>
    BY <1>9 DEF Stores
  <2>2. CASE Inserts(s)
    <3>1. PICK n \in NewNode(s), k \in {"folder", "file"} :
            LET entry == [kind |-> k, parent |-> place[s], name |-> name[s]]
            IN /\ view' = [view EXCEPT ![s] = [m \in Node |-> IF m \in {n} THEN entry ELSE @[m]]]
               /\ touched' = [touched EXCEPT ![s] = @ \cup Documents({n})]
      BY <2>2 DEF Inserts
    <3>2. place[s] \in Node \cup {NoNode} /\ name[s] \in Name
      BY <1>0, <2>2 DEF Inserts, KeyOK
    <3>3. [kind |-> k, parent |-> place[s], name |-> name[s]] \in Entry
      BY <3>2, EntryNew
    <3>4. Documents({n}) \subseteq Documents(Node)
      BY NewApart DEF Documents
    <3> QED BY <1>0, <2>1, <3>1, <3>3, <3>4
  <2>3. CASE Rewrites(s)
    <3>1. Written(s) \subseteq Documents(Node)
      BY DEF Written, UpdateDocuments, Documents, TypeOK
    <3>2. view' \in [Session -> [Node -> Entry]]
      <4>1. PICK entries \in [target[s] -> Entry] :
              view' = [view EXCEPT ![s] = [n \in Node |-> IF n \in target[s] THEN entries[n] ELSE @[n]]]
        BY <2>3 DEF Rewrites
      <4>2. [n \in Node |-> IF n \in target[s] THEN entries[n] ELSE view[s][n]] \in [Node -> Entry]
        BY <1>0
      <4> QED BY <1>0, <4>1, <4>2
    <3> QED BY <1>0, <2>1, <2>3, <3>1, <3>2 DEF Rewrites
  <2> QED BY <1>9, <2>2, <2>3 DEF Stores
<1> QED BY <1>1, <1>2, <1>3, <1>4, <1>5, <1>6, <1>7, <1>8, <1>9 DEF Shape

\* A name keeps its one owner.
LEMMA LockStep ==
  ASSUME TypeOK, LockInv, NEW s \in Session, Shape(s)
  PROVE  LockInv'
<1> USE DEF LockInv
<1>0. Locks!LockTypeOK
  BY DEF TypeOK
<1>1. CASE UNCHANGED <<owned, shared, open>>
  BY <1>1
<1>2. CASE Begins(s)
  BY <1>0, <1>2 DEF Begins, Locks!Begin, Locks!LockTypeOK
<1>3. CASE Grants(s)
  BY <1>0, <1>3 DEF Grants, Locks!Grant, Locks!FreeInReplica, Locks!Neighbours, Locks!LockTypeOK
<1>4. CASE Shares(s)
  BY <1>0, <1>4 DEF Shares, Locks!Share, Locks!FreeAcrossReplicas, Locks!LockTypeOK
<1>5. CASE Releases(s)
  BY <1>0, <1>5 DEF Releases, Locks!Unshare, Locks!Give, Locks!LockTypeOK
<1>6. CASE Locks!End(s)
  BY <1>0, <1>6 DEF Locks!End, Locks!LockTypeOK
<1> QED BY <1>1, <1>2, <1>3, <1>4, <1>5, <1>6
        DEF Shape, Quiet, Snapshot, Stores, Closes, Commits, lockVars

\* What a new entry changes in the transaction.
LEMMA InsertParts ==
  ASSUME TypeOK, LocalInv, NEW s \in Session, Inserts(s)
  PROVE  \E n \in NewNode(s) :
           /\ n \in New(s) /\ n \in Node
           /\ touched' = [touched EXCEPT ![s] = @ \cup Documents({n})]
           /\ view'[s][n].parent = place[s] /\ view'[s][n].name = name[s] /\ view'[s][n] # Absent
           /\ \A m \in Node \ {n} : view'[s][m] = view[s][m]
           /\ \A t \in Session \ {s} : view'[t] = view[t]
<1>1. PICK n \in NewNode(s), k \in {"folder", "file"} :
        LET entry == [kind |-> k, parent |-> place[s], name |-> name[s]]
        IN /\ view' = [view EXCEPT ![s] = [m \in Node |-> IF m \in {n} THEN entry ELSE @[m]]]
           /\ touched' = [touched EXCEPT ![s] = @ \cup Documents({n})]
  BY DEF Inserts
<1>2. n \in New(s) /\ n \in Node
  BY <1>1, NewApart
<1>3. place[s] \in Node \cup {NoNode} /\ name[s] \in Name
  BY DEF Inserts, KeyOK, LocalInv
<1> DEFINE entry == [kind |-> k, parent |-> place[s], name |-> name[s]]
<1>4. entry # Absent /\ entry.parent = place[s] /\ entry.name = name[s]
  BY <1>3, EntryNew
<1>5. view'[s] = [m \in Node |-> IF m \in {n} THEN entry ELSE view[s][m]]
      /\ \A t \in Session \ {s} : view'[t] = view[t]
  BY <1>1 DEF TypeOK
<1> HIDE DEF entry
<1> QED BY <1>1, <1>2, <1>4, <1>5

\* What a rewriting step changes in the transaction.
LEMMA RewriteParts ==
  ASSUME TypeOK, LocalInv, NEW s \in Session, Rewrites(s), Possible(s)
  PROVE  /\ touched' = [touched EXCEPT ![s] = @ \cup Written(s)]
         /\ Written(s) \subseteq Documents(target[s]) /\ Written(s) \cap Conflicting(s) = {}
         /\ \A t \in Session \ {s} : view'[t] = view[t]
         /\ \A n \in Node \ target[s] : view'[s][n] = view[s][n]
         /\ \A n \in target[s] :
              /\ n \in Node
              /\ pc[s] = "erase" => view'[s][n] = Absent /\ Documents({n}) \subseteq Written(s)
              /\ pc[s] # "erase" => view[s][n] # Absent /\ view'[s][n] # Absent
              /\ pc[s] = "update" =>
                   /\ view'[s][n].name =
                        IF Change(s).name = NoName THEN view[s][n].name ELSE Change(s).name
                   /\ view'[s][n].parent =
                        IF Change(s).to = NoNode THEN view[s][n].parent ELSE Change(s).to
              /\ pc[s] = "replace" =>
                   view'[s][n].name = name[s] /\ view'[s][n].parent = view[s][n].parent
<1>0. LocalOK(s) /\ view[s] \in [Node -> Entry] /\ target[s] \subseteq Node
  BY DEF TypeOK, LocalInv, LocalOK
<1>1. PICK entries \in [target[s] -> Entry] :
        /\ view' = [view EXCEPT ![s] = [n \in Node |-> IF n \in target[s] THEN entries[n] ELSE @[n]]]
        /\ \A n \in target[s] :
             /\ pc[s] = "erase" => entries[n] = Absent
             /\ pc[s] = "update" =>
                  entries[n] = [view[s][n] EXCEPT
                                  !.name = IF Change(s).name = NoName THEN @ ELSE Change(s).name,
                                  !.parent = IF Change(s).to = NoNode THEN @ ELSE Change(s).to]
             /\ pc[s] = "replace" => entries[n] = [view[s][n] EXCEPT !.name = name[s]]
  BY DEF Rewrites
<1>2. view'[s] = [n \in Node |-> IF n \in target[s] THEN entries[n] ELSE view[s][n]]
      /\ \A t \in Session \ {s} : view'[t] = view[t]
  BY <1>1 DEF TypeOK
<1>3. ASSUME NEW n \in target[s]
      PROVE  /\ pc[s] = "erase" => view'[s][n] = Absent /\ Documents({n}) \subseteq Written(s)
             /\ pc[s] # "erase" => view[s][n] # Absent /\ view'[s][n] # Absent
             /\ pc[s] = "update" =>
                  /\ view'[s][n].name =
                       IF Change(s).name = NoName THEN view[s][n].name ELSE Change(s).name
                  /\ view'[s][n].parent =
                       IF Change(s).to = NoNode THEN view[s][n].parent ELSE Change(s).to
             /\ pc[s] = "replace" =>
                  view'[s][n].name = name[s] /\ view'[s][n].parent = view[s][n].parent
  <2>0. n \in Node /\ view'[s][n] = entries[n] /\ view[s][n] \in Entry
    BY <1>0, <1>2
  <2>1. CASE pc[s] = "erase"
    BY <1>1, <2>0, <2>1 DEF Written, Documents
  <2>2. CASE pc[s] = "update"
    <3>1. /\ view[s][n] # Absent /\ Change(s).name \in Name \cup {NoName} /\ Change(s).to \in Node \cup {NoNode}
          /\ view[s][n].name \in Name /\ view[s][n].parent \in Node \cup {NoNode}
      BY <1>0, <2>0, <2>2, ChangeParts, EntryType DEF Possible, LocalOK, StageOK, Ended
    <3> DEFINE given == IF Change(s).name = NoName THEN view[s][n].name ELSE Change(s).name
               where == IF Change(s).to = NoNode THEN view[s][n].parent ELSE Change(s).to
    <3>2. given \in Name /\ where \in Node \cup {NoNode}
      BY <3>1
    <3>3. entries[n] = [view[s][n] EXCEPT !.name = given, !.parent = where]
      BY <1>1, <2>2
    <3> HIDE DEF given, where
    <3>4. /\ [view[s][n] EXCEPT !.name = given, !.parent = where] # Absent
          /\ [view[s][n] EXCEPT !.name = given, !.parent = where].name = given
          /\ [view[s][n] EXCEPT !.name = given, !.parent = where].parent = where
      <4> DEFINE e == view[s][n]
      <4>1. e \in Entry /\ e # Absent
        BY <2>0, <3>1
      <4> HIDE DEF e
      <4>2. LET both == [e EXCEPT !.name = given, !.parent = where]
            IN both # Absent /\ both.name = given /\ both.parent = where
        BY <3>2, <4>1 DEF Entry, Absent
      <4> QED BY <4>2 DEF e
    <3>5. entries[n] # Absent /\ entries[n].name = given /\ entries[n].parent = where
      BY <3>3, <3>4
    <3> QED BY <2>0, <2>2, <3>1, <3>5 DEF given, where
  <2>3. CASE pc[s] = "replace"
    <3>1. view[s][n] # Absent /\ name[s] \in Name
      BY <1>0, <2>3 DEF Possible, LocalOK, KeyOK
    <3>2. view[s][n] \in [kind : {"folder", "file"}, parent : Node \cup {NoNode}, name : Name]
      BY <2>0, <3>1 DEF Entry
    <3>0. NoNode \in Node \cup {NoNode}
      OBVIOUS
    <3>3. entries[n] = [view[s][n] EXCEPT !.name = name[s]]
      BY <1>1, <2>3
    <3>5. entries[n] # Absent /\ entries[n].name = name[s] /\ entries[n].parent = view[s][n].parent
      <4>1. [view[s][n] EXCEPT !.name = name[s]] # Absent
        <5> DEFINE e == view[s][n]
        <5>1. e \in Entry /\ e # Absent
          BY <2>0, <3>1
        <5> HIDE DEF e
        <5>2. [e EXCEPT !.name = name[s]] # Absent
          BY <3>1, <5>1 DEF Entry, Absent
        <5> QED BY <5>2 DEF e
      <4>2. /\ [view[s][n] EXCEPT !.name = name[s]].name = name[s]
            /\ [view[s][n] EXCEPT !.name = name[s]].parent = view[s][n].parent
        BY <3>2
      <4> QED BY <3>3, <4>1, <4>2
    <3> QED BY <2>0, <2>3, <3>1, <3>5
  <2> QED BY <2>1, <2>2, <2>3 DEF Rewrites
<1>4. Written(s) \subseteq Documents(target[s])
  BY DEF Written, UpdateDocuments, Documents
<1>5. \A n \in Node \ target[s] : view'[s][n] = view[s][n]
  BY <1>2
<1> QED BY <1>0, <1>2, <1>3, <1>4, <1>5 DEF Rewrites, Possible

\* The transactions a step leaves alone.
LEMMA OthersKept ==
  ASSUME TypeOK, LocalInv, NEW s \in Session, Shape(s), NEW t \in Session, t # s
  PROVE  /\ view'[t] = view[t] /\ begun'[t] = begun[t] /\ touched'[t] = touched[t]
         /\ stale[t] \subseteq stale'[t] \/ ~begun[t]
         /\ t \in open <=> t \in open'
<1>0. Locks!LockTypeOK
  BY DEF TypeOK
<1>1. CASE Quiet \/ Begins(s) \/ Grants(s) \/ Shares(s) \/ Releases(s)
  <2>1. TxKept
    BY <1>1 DEF Quiet, Begins, Grants, Shares, Releases
  <2>2. open' = open \/ open' = open \cup {s}
    BY <1>1 DEF Quiet, Begins, Grants, Shares, Releases,
        Locks!Begin, Locks!Grant, Locks!Share, Locks!Unshare, Locks!Give
  <2> QED BY <2>1, <2>2 DEF TxKept
<1>2. CASE Closes(s)
  BY <1>2 DEF Closes, Close, Locks!End, TypeOK
<1>3. CASE Commits(s)
  BY <1>3 DEF Commits, Locks!End, TypeOK
<1>4. CASE Snapshot(s)
  BY <1>4 DEF Snapshot, lockVars, TypeOK
<1>5. CASE Stores(s)
  <2>1. UNCHANGED <<begun, stale, open>>
    BY <1>5 DEF Stores
  <2>2. CASE Inserts(s)
    <3>1. PICK n \in NewNode(s) : /\ touched' = [touched EXCEPT ![s] = @ \cup Documents({n})]
                                 /\ \A u \in Session \ {s} : view'[u] = view[u]
      BY <2>2, InsertParts
    <3> QED BY <2>1, <3>1 DEF TypeOK
  <2>3. CASE Rewrites(s)
    BY <1>5, <2>1, <2>3, RewriteParts DEF Stores, TypeOK
  <2> QED BY <1>5, <2>2, <2>3 DEF Stores
<1> QED BY <1>1, <1>2, <1>3, <1>4, <1>5 DEF Shape

\* What the acting transaction keeps, when it neither ends nor writes.
LEMMA ActorKept ==
  ASSUME TypeOK, LocalInv, TxInv, NEW s \in Session, Shape(s)
  PROVE  \/ /\ UNCHANGED <<tree, view, begun, touched, stale>>
            /\ open' = open \/ (open' = open \cup {s})
         \/ /\ touched'[s] = {} /\ ~begun'[s] /\ open' = open \ {s} /\ (tree' = tree \/ Commits(s))
            /\ view'[s] = NoTree
         \/ Snapshot(s)
         \/ Stores(s)
<1>1. CASE TxKept
  <2>1. CASE Closes(s) \/ Commits(s) \/ Snapshot(s) \/ Stores(s)
    BY <2>1 DEF Closes, Close, Commits, Locks!End, TypeOK
  <2>2. CASE Quiet \/ Begins(s) \/ Grants(s) \/ Shares(s) \/ Releases(s)
    BY <1>1, <2>2 DEF Quiet, Begins, Grants, Shares, Releases,
        Locks!Begin, Locks!Grant, Locks!Share, Locks!Unshare, Locks!Give, lockVars, TxKept
  <2> QED BY <2>1, <2>2 DEF Shape
<1>2. CASE Closes(s) \/ Commits(s)
  BY <1>2 DEF Closes, Close, Commits, Locks!End, TypeOK
<1> QED BY <1>1, <1>2 DEF Shape, Quiet, Begins, Grants, Shares, Releases

\* What a write adds to a transaction, no other open transaction has written.
LEMMA StoredDocuments ==
  ASSUME TypeOK, LocalInv, TxInv, NEW s \in Session, Stores(s)
  PROVE  \E docs : /\ touched'[s] = touched[s] \cup docs
                   /\ \A t \in open \ {s} : docs \cap touched[t] = {}
<1>1. CASE Inserts(s)
  <2>1. PICK n \in New(s) : touched'[s] = touched[s] \cup Documents({n})
    BY <1>1, InsertParts DEF TypeOK
  <2>2. ASSUME NEW t \in open \ {s} PROVE Documents({n}) \cap touched[t] = {}
    <3>1. t \in Session \ {s} /\ ~Ended(s)
      BY <1>1 DEF TypeOK, Locks!LockTypeOK, Inserts, Ended
    <3> QED BY <3>1 DEF TxInv, NewInv, Touches
  <2> QED BY <2>1, <2>2
<1>2. CASE Rewrites(s)
  <2>1. touched'[s] = touched[s] \cup Written(s) /\ Written(s) \cap Conflicting(s) = {}
    BY <1>2, RewriteParts DEF Stores, TypeOK
  <2>2. \A t \in open \ {s} : touched[t] \subseteq Conflicting(s)
    BY DEF Conflicting
  <2> QED BY <2>1, <2>2
<1> QED BY <1>1, <1>2 DEF Stores

\* Only an open transaction has written, and no document that another one has.
LEMMA TouchedStep ==
  ASSUME TypeOK, LocalInv, TxInv, NEW s \in Session, Shape(s), Alone(s),
         pc'[s] \in {"start", "done"} => pc[s] \in {"start", "done"} \/ ~begun'[s]
  PROVE  TouchedInv'
<1>0. /\ \A t \in Session : (t \notin open \/ pc[t] \in {"start", "done"} => ~begun[t]) /\ (~begun[t] => touched[t] = {})
      /\ \A t \in Session : \A u \in open \ {t} : touched[t] \cap touched[u] = {}
      /\ open \subseteq Session
  BY DEF TxInv, TouchedInv, TypeOK, Locks!LockTypeOK
<1>1. \A t \in Session \ {s} : /\ begun'[t] = begun[t] /\ touched'[t] = touched[t]
                               /\ (t \in open <=> t \in open') /\ pc'[t] = pc[t]
  BY OthersKept DEF Alone
<1>6. pc'[s] \in {"start", "done"} => ~begun'[s]
  BY <1>0, ActorKept DEF Snapshot, Stores, InSession, Writing, Inserts, Rewrites
<1>2. CASE UNCHANGED <<tree, view, begun, touched, stale>> /\ (open' = open \/ open' = open \cup {s})
  BY <1>0, <1>1, <1>6, <1>2 DEF TouchedInv
<1>3. CASE touched'[s] = {} /\ ~begun'[s] /\ open' = open \ {s}
  BY <1>0, <1>1, <1>3, <1>6 DEF TouchedInv
<1>4. CASE Snapshot(s)
  BY <1>0, <1>1, <1>6, <1>4 DEF Snapshot, lockVars, TouchedInv, TypeOK
<1>5. CASE Stores(s)
  <2>1. PICK docs : touched'[s] = touched[s] \cup docs /\ \A t \in open \ {s} : docs \cap touched[t] = {}
    BY <1>5, StoredDocuments
  <2>2. s \in open /\ begun[s] /\ UNCHANGED <<begun, open>>
    BY <1>5 DEF Stores
  <2>3. \A t \in Session \ {s} : s \in open => touched[t] \cap docs = {}
    BY <1>0, <2>1
  <2>4. ASSUME NEW t \in Session, NEW u \in open' \ {t} PROVE touched'[t] \cap touched'[u] = {}
    BY <1>0, <1>1, <2>1, <2>2, <2>3
  <2> QED BY <1>0, <1>1, <1>6, <2>2, <2>4 DEF TouchedInv
<1> QED BY <1>2, <1>3, <1>4, <1>5, ActorKept

\* An entry is new to everybody else until its request has committed.
LEMMA NewStep ==
  ASSUME TypeOK, LocalInv, TxInv, NEW s \in Session, Shape(s), Alone(s), Ended(s) => Ended(s)',
         \A n \in target'[s] : n \in target[s] \cup OldNode \/ tree[n] # Absent
  PROVE  NewInv'
<1> SUFFICES ASSUME NEW u \in Session, ~Ended(u)', NEW n \in New(u)
             PROVE  /\ tree'[n] = Absent
                    /\ Touches(u, n)' => Documents({n}) \subseteq touched'[u]
                    /\ \A t \in Session \ {u} : view'[t][n] = Absent /\ ~Touches(t, n)'
                    /\ \A t \in Session : n \notin target'[t]
  BY DEF NewInv
<1>0. ~Ended(u) /\ n \in Node /\ n \notin OldNode
  BY NewApart DEF Alone, Ended
<1>1. /\ tree[n] = Absent /\ (Touches(u, n) => Documents({n}) \subseteq touched[u])
      /\ \A t \in Session \ {u} : view[t][n] = Absent /\ ~Touches(t, n)
      /\ \A t \in Session : n \notin target[t]
  BY <1>0 DEF TxInv, NewInv
<1>2. \A t \in Session : n \notin target'[t]
  BY <1>0, <1>1 DEF Alone
<1>3. \A t \in Session \ {s} : view'[t] = view[t] /\ touched'[t] = touched[t]
  BY OthersKept
<1>4. tree'[n] = Absent
  <2>1. CASE Commits(s)
    <3>1. s # u /\ ~Ended(s) /\ ~Touches(s, n)
      BY <1>1, <2>1 DEF Commits, Ended
    <3>2. Merged(s)[n] = tree[n]
      BY <1>0, <3>1 DEF Merged, Touches, Documents
    <3> QED BY <1>1, <2>1, <3>2 DEF Commits
  <2> QED BY <1>1, <2>1, ActorKept DEF Snapshot, Stores
<1>5. CASE ~Stores(s)
  <2>1. view'[s] = view[s] \/ view'[s] = NoTree \/ view'[s] = tree
    BY <1>5, ActorKept DEF Snapshot, TypeOK
  <2>2. touched'[s] = touched[s] \/ touched'[s] = {}
    BY <1>5, ActorKept DEF Snapshot, TypeOK
  <2>3. NoTree[n] = Absent
    BY <1>0 DEF NoTree
  <2> QED BY <1>1, <1>2, <1>3, <1>4, <2>1, <2>2, <2>3 DEF Touches
<1>6. CASE Stores(s) /\ Inserts(s)
  <2>1. PICK m \in New(s) :
          /\ touched'[s] = touched[s] \cup Documents({m})
          /\ \A k \in Node \ {m} : view'[s][k] = view[s][k]
    <3>1. PICK m \in NewNode(s) :
            /\ m \in New(s) /\ touched' = [touched EXCEPT ![s] = @ \cup Documents({m})]
            /\ \A k \in Node \ {m} : view'[s][k] = view[s][k]
      BY <1>6, InsertParts
    <3> QED BY <3>1 DEF TypeOK
  <2>2. CASE s = u
    <3>1. Touches(u, n)' => Documents({n}) \subseteq touched'[u]
      BY <1>1, <2>1, <2>2 DEF Touches, Documents
    <3> QED BY <1>1, <1>2, <1>3, <1>4, <2>2, <3>1 DEF Touches
  <2>3. CASE s # u
    <3>1. n # m
      BY <2>1, <2>3, NewApart
    <3>2. view'[s][n] = Absent /\ ~Touches(s, n)'
      BY <1>0, <1>1, <2>1, <2>3, <3>1 DEF Touches, Documents
    <3> QED BY <1>1, <1>2, <1>3, <1>4, <2>3, <3>2 DEF Touches
  <2> QED BY <2>2, <2>3
<1>7. CASE Stores(s) /\ Rewrites(s)
  <2>1. n \notin target[s]
    BY <1>1
  <2>2. view'[s][n] = view[s][n] /\ touched'[s] = touched[s] \cup Written(s) /\ Written(s) \subseteq Documents(target[s])
    BY <1>0, <1>7, <2>1, RewriteParts DEF Stores, TypeOK
  <2>3. Documents({n}) \cap touched'[s] = Documents({n}) \cap touched[s]
    BY <2>1, <2>2 DEF Documents
  <2> QED BY <1>1, <1>2, <1>3, <1>4, <2>2, <2>3 DEF Touches
<1> QED BY <1>5, <1>6, <1>7 DEF Stores

\* What a transaction sees stays there, unless that is a conflict.
LEMMA ViewStep ==
  ASSUME TypeOK, LocalInv, TxInv, NEW s \in Session, Shape(s)
  PROVE  ViewInv'
<1> SUFFICES ASSUME NEW t \in open', begun'[t], NEW n \in Node \ New(t)
             PROVE  /\ tree'[n] = Absent /\ view'[t][n] # Absent => Documents({n}) \subseteq stale'[t]
                    /\ Touches(t, n)' => tree'[n] # Absent
                    /\ Touches(t, n)' /\ view'[t][n] = Absent => Documents({n}) \subseteq touched'[t]
  BY DEF ViewInv
<1>0. t \in Session /\ \A u \in Session : (u \notin open => ~begun[u]) /\ (~begun[u] => touched[u] = {})
  BY TxStep DEF TxInv, TouchedInv, Locks!LockTypeOK
<1>1. ASSUME t \in open, begun[t]
      PROVE  /\ tree[n] = Absent /\ view[t][n] # Absent => Documents({n}) \subseteq stale[t]
             /\ Touches(t, n) => tree[n] # Absent
             /\ Touches(t, n) /\ view[t][n] = Absent => Documents({n}) \subseteq touched[t]
  BY <1>1 DEF TxInv, ViewInv
<1>2. CASE t # s
  <2>1. /\ view'[t] = view[t] /\ begun[t] /\ touched'[t] = touched[t] /\ t \in open
        /\ stale[t] \subseteq stale'[t] /\ (Touches(t, n)' <=> Touches(t, n))
    BY <1>0, <1>2, OthersKept DEF Touches
  <2>2. CASE tree' = tree
    BY <1>1, <2>1, <2>2
  <2>3. CASE Commits(s)
    <3>1. stale'[t] = stale[t] \cup touched[s] /\ tree' = Merged(s) /\ s \in open /\ ~Ended(s)
      BY <1>0, <1>2, <2>1, <2>3 DEF Commits, Ended
    <3>2. CASE ~Touches(s, n)
      <4>1. tree'[n] = tree[n]
        BY <3>1, <3>2 DEF Merged, Touches, Documents
      <4> QED BY <1>1, <2>1, <4>1
    <3>3. CASE Touches(s, n)
      <4>1. begun[s]
        BY <1>0, <3>3 DEF Touches
      <4>2. tree'[n] = Absent => Documents({n}) \subseteq touched[s]
        BY <3>1, <3>3, <4>1, MergedEntry
      <4>3. touched[t] \cap touched[s] = {}
        BY <1>0, <1>2, <2>1, <3>1 DEF TxInv, TouchedInv
      <4>4. Touches(t, n) => tree'[n] # Absent
        BY <4>2, <4>3 DEF Touches
      <4> QED BY <1>1, <2>1, <3>1, <4>2, <4>4
    <3> QED BY <3>2, <3>3
  <2> QED BY <2>2, <2>3, ActorKept DEF Snapshot, Stores
<1>3. CASE t = s
  <2>1. CASE UNCHANGED <<tree, view, begun, touched, stale>>
    BY <1>0, <1>1, <1>3, <2>1 DEF Touches
  <2>2. CASE ~begun'[s]
    BY <1>3, <2>2
  <2>3. CASE Snapshot(s)
    <3>1. touched'[s] = {} /\ view'[s] = tree /\ tree' = tree
      BY <1>0, <1>3, <2>3 DEF Snapshot, TypeOK
    <3> QED BY <1>3, <3>1 DEF Touches
  <2>4. CASE Stores(s)
    <3>0. s \in open /\ begun[s] /\ tree' = tree /\ stale' = stale
      BY <2>4 DEF Stores
    <3>1. CASE Inserts(s)
      <4>1. PICK m \in NewNode(s) :
              /\ m \in New(s) /\ touched' = [touched EXCEPT ![s] = @ \cup Documents({m})]
              /\ \A k \in Node \ {m} : view'[s][k] = view[s][k]
        BY <3>1, InsertParts
      <4>2. touched'[s] = touched[s] \cup Documents({m}) /\ n # m
        BY <1>3, <4>1 DEF TypeOK
      <4>3. view'[s][n] = view[s][n] /\ (Touches(s, n)' <=> Touches(s, n)) /\ touched[s] \subseteq touched'[s]
        BY <4>1, <4>2 DEF Touches, Documents
      <4> QED BY <1>1, <1>3, <3>0, <4>3
    <3>2. CASE Rewrites(s)
      <4>1. touched'[s] = touched[s] \cup Written(s) /\ Written(s) \subseteq Documents(target[s])
            /\ Written(s) \cap stale[s] = {}
        BY <2>4, <3>2, RewriteParts DEF Stores, TypeOK, Conflicting
      <4>2. CASE n \notin target[s]
        <5>1. view'[s][n] = view[s][n] /\ (Touches(s, n)' <=> Touches(s, n)) /\ touched[s] \subseteq touched'[s]
          BY <2>4, <3>2, <4>1, <4>2, RewriteParts DEF Touches, Documents, Stores
        <5> QED BY <1>1, <1>3, <3>0, <5>1
      <4>3. CASE n \in target[s]
        <5>1. /\ pc[s] = "erase" => view'[s][n] = Absent /\ Documents({n}) \subseteq Written(s)
              /\ pc[s] # "erase" => view[s][n] # Absent /\ view'[s][n] # Absent
          BY <2>4, <3>2, <4>3, RewriteParts DEF Stores
        <5>2. pc[s] = "erase" => view[s][n] # Absent
          BY <2>4, <4>3 DEF Stores, Possible
        <5>3. Documents({n}) \cap Written(s) # {} => tree[n] # Absent
          BY <1>1, <1>3, <3>0, <4>1, <5>1, <5>2
        <5> QED BY <1>1, <1>3, <3>0, <4>1, <5>1, <5>2, <5>3 DEF Touches
      <4> QED BY <4>2, <4>3
    <3> QED BY <2>4, <3>1, <3>2 DEF Stores
  <2> QED BY <2>1, <2>2, <2>3, <2>4, ActorKept
<1> QED BY <1>2, <1>3

-----------------------------------------------------------------------------
\* The invariant that holds for any requests.
GInv == TypeOK /\ LocalInv /\ LockInv /\ TxInv

\* The types and what requests know, in the parts the steps are proved for.
LEMMA TypeParts ==
  /\ TypeOK <=> LocalType /\ TxType /\ Locks!LockTypeOK
  /\ LocalInv <=> \A s \in Session : LocalOK(s)
BY DEF TypeOK, LocalType, TxType, LocalInv, LocalOK

\* A step of another request changes nothing that a request knows.
LEMMA LocalKept ==
  ASSUME NEW s \in Session, Alone(s), NEW t \in Session, t # s, LocalOK(t)
  PROVE  LocalOK(t)'
<1>1. /\ pc'[t] = pc[t] /\ todo'[t] = todo[t] /\ asked' = asked
      /\ place'[t] = place[t] /\ name'[t] = name[t]
  BY DEF Alone
<1>2. TodoOK(t)'
  BY <1>1, TodoKept DEF LocalOK, Ended
<1>3. KeyOK(t)' /\ StageOK(t)'
  BY <1>1 DEF LocalOK, KeyOK, StageOK, Change, Uploads
<1> QED BY <1>2, <1>3 DEF LocalOK

\* Every step of a request keeps the general invariant.
LEMMA GInvRequestStep ==
  ASSUME GInv, NEW s \in Session,
         UploadStep(s) \/ MutationStep(s) \/ RequestStep(s) \/ TxLimitAbort(s)
  PROVE  GInv' /\ Alone(s) /\ Shape(s)
<1>0. TypeOK /\ LocalInv /\ LockInv /\ TxInv
  BY DEF GInv
<1>1. Alone(s) /\ Shape(s)
  BY <1>0, ShapeStep
<1>2. LocalType' /\ LocalOK(s)'
  BY <1>0, LocalStep
<1>3. TxType' /\ Locks!LockTypeOK'
  BY <1>0, <1>1, TxStep
<1>4. TypeOK'
  BY <1>2, <1>3 DEF TypeOK, LocalType, TxType
<1>5. LocalInv'
  <2>1. \A t \in Session : LocalOK(t)'
    BY <1>0, <1>1, <1>2, LocalKept DEF LocalInv, LocalOK
  <2> QED BY <2>1 DEF LocalInv, LocalOK
<1>6. LockInv'
  BY <1>0, <1>1, LockStep
<1>7. TouchedInv' /\ ViewInv'
  BY <1>0, <1>1, TouchedStep, TargetStep, ViewStep
<1>8. NewInv'
  BY <1>0, <1>1, NewStep, TargetStep
<1> QED BY <1>1, <1>4, <1>5, <1>6, <1>7, <1>8 DEF GInv, TxInv

\* A crash: what the requests of the replica had is gone.
LEMMA GInvCrash ==
  ASSUME GInv, NEW r, Crash(r)
  PROVE  GInv'
<1> DEFINE dying == {s \in Session : ReplicaOf[s] = r /\ pc[s] \notin {"start", "done"}}
<1>0. TypeOK /\ LocalInv /\ LockInv /\ TxInv /\ NoTree \in [Node -> Entry]
  BY EntryType DEF GInv, NoTree
<1>1. TypeOK'
  <2>1. LocalType'
    BY <1>0 DEF Crash, Forget, LocalType, TypeOK, PC
  <2>2. TxType'
    BY <1>0 DEF Crash, TxType, TypeOK
  <2>3. Locks!LockTypeOK'
    BY <1>0 DEF Crash, Locks!Crash, Locks!LockTypeOK, TypeOK
  <2> QED BY <2>1, <2>2, <2>3 DEF TypeOK, LocalType, TxType
<1>2. ASSUME NEW t \in Session \ dying
      PROVE  /\ pc'[t] = pc[t] /\ todo'[t] = todo[t] /\ place'[t] = place[t] /\ name'[t] = name[t]
             /\ target'[t] = target[t] /\ view'[t] = view[t] /\ begun'[t] = begun[t]
             /\ touched'[t] = touched[t] /\ stale'[t] = stale[t]
  BY <1>0, <1>2 DEF Crash, Forget, TypeOK
<1>3. ASSUME NEW t \in dying
      PROVE  pc'[t] = "done" /\ view'[t] = NoTree /\ touched'[t] = {} /\ ~begun'[t] /\ target'[t] = {}
  BY <1>0, <1>3 DEF Crash, Forget, TypeOK
<1>4. /\ tree' = tree /\ asked' = asked /\ open' \subseteq open
      /\ \A t \in open' : t \in Session \ dying \/ ReplicaOf[t] # r
      /\ \A t \in Session : owned'[t] \subseteq owned[t] /\ shared'[t] \subseteq shared[t]
      /\ \A t \in open : t \in open' \/ ReplicaOf[t] = r
  BY <1>0 DEF Crash, Locks!Crash, TypeOK
<1>5. LocalInv'
  <2>1. ASSUME NEW t \in Session \ dying PROVE LocalOK(t)'
    <3>1. TodoOK(t) /\ KeyOK(t) /\ StageOK(t)
      BY <1>0 DEF LocalInv
    <3>2. TodoOK(t)'
      BY <1>2, <1>4, <3>1, TodoKept DEF Ended
    <3>3. KeyOK(t)' /\ StageOK(t)'
      BY <1>2, <1>4, <3>1 DEF KeyOK, StageOK, Change, Uploads
    <3> QED BY <3>2, <3>3 DEF LocalOK
  <2>2. ASSUME NEW t \in dying PROVE LocalOK(t)'
    BY <1>3 DEF LocalOK, TodoOK, KeyOK, StageOK, Ended
  <2> QED BY <2>1, <2>2 DEF LocalInv, LocalOK
<1>6. LockInv'
  <2> SUFFICES ASSUME NEW s \in Session, NEW t \in Session, s # t
               PROVE  /\ ReplicaOf[s] = ReplicaOf[t] => owned'[s] \cap owned'[t] = {}
                      /\ s \in open' /\ t \in open' => shared'[s] \cap shared'[t] = {}
    BY DEF LockInv
  <2>1. /\ ReplicaOf[s] = ReplicaOf[t] => owned[s] \cap owned[t] = {}
        /\ s \in open /\ t \in open => shared[s] \cap shared[t] = {}
    BY <1>0 DEF LockInv
  <2> QED BY <1>4, <2>1
<1>7. TouchedInv'
  <2>1. \A t \in Session : touched'[t] \subseteq touched[t] /\ (~begun'[t] => touched'[t] = {})
    BY <1>0, <1>2, <1>3 DEF TxInv, TouchedInv
  <2>2. \A t \in Session : t \notin open' => ~begun'[t]
    <3> SUFFICES ASSUME NEW t \in Session, t \notin open' PROVE ~begun'[t]
      OBVIOUS
    <3>1. CASE t \in dying
      BY <1>3, <3>1
    <3>2. CASE t \notin open
      BY <1>0, <1>2, <1>3, <3>2 DEF TxInv, TouchedInv
    <3>3. CASE t \in open /\ t \notin dying
      <4>1. pc[t] \in {"start", "done"}
        BY <1>4, <3>3
      <4> QED BY <1>0, <1>2, <3>3, <4>1 DEF TxInv, TouchedInv
    <3> QED BY <3>1, <3>2, <3>3
  <2>3. \A t \in Session : pc'[t] \in {"start", "done"} => ~begun'[t]
    BY <1>0, <1>2, <1>3 DEF TxInv, TouchedInv
  <2>4. \A t \in Session : \A u \in open' \ {t} : touched'[t] \cap touched'[u] = {}
    <3>1. \A t \in Session : \A u \in open \ {t} : touched[t] \cap touched[u] = {}
      BY <1>0 DEF TxInv, TouchedInv
    <3>2. open' \subseteq Session
      BY <1>1 DEF TypeOK, Locks!LockTypeOK
    <3> QED BY <1>4, <2>1, <3>1, <3>2
  <2> QED BY <2>1, <2>2, <2>3, <2>4 DEF TouchedInv
<1>8. NewInv'
  <2> SUFFICES ASSUME NEW u \in Session, ~Ended(u)', NEW n \in New(u)
               PROVE  /\ tree'[n] = Absent
                      /\ Touches(u, n)' => Documents({n}) \subseteq touched'[u]
                      /\ \A t \in Session \ {u} : view'[t][n] = Absent /\ ~Touches(t, n)'
                      /\ \A t \in Session : n \notin target'[t]
    BY DEF NewInv
  <2>1. u \notin dying
    BY <1>3 DEF Ended
  <2>2. ~Ended(u) /\ n \in Node
    BY <1>2, <2>1, NewApart DEF Ended
  <2>3. NoTree[n] = Absent
    BY <2>2 DEF NoTree
  <2>4. /\ tree[n] = Absent /\ (Touches(u, n) => Documents({n}) \subseteq touched[u])
        /\ \A t \in Session \ {u} : view[t][n] = Absent /\ ~Touches(t, n)
        /\ \A t \in Session : n \notin target[t]
    BY <1>0, <2>2 DEF TxInv, NewInv
  <2>5. Touches(u, n)' => Documents({n}) \subseteq touched'[u]
    BY <1>2, <2>1, <2>4 DEF Touches
  <2>6. ASSUME NEW t \in Session \ {u} PROVE view'[t][n] = Absent /\ ~Touches(t, n)'
    <3>1. CASE t \in dying
      BY <1>3, <2>3, <3>1 DEF Touches
    <3>2. CASE t \notin dying
      BY <1>2, <2>4, <3>2 DEF Touches
    <3> QED BY <3>1, <3>2
  <2>7. \A t \in Session : n \notin target'[t]
    BY <1>2, <1>3, <2>4
  <2> QED BY <1>4, <2>4, <2>5, <2>6, <2>7
<1>9. ViewInv'
  <2> SUFFICES ASSUME NEW t \in open', begun'[t], NEW n \in Node \ New(t)
               PROVE  /\ tree'[n] = Absent /\ view'[t][n] # Absent => Documents({n}) \subseteq stale'[t]
                      /\ Touches(t, n)' => tree'[n] # Absent
                      /\ Touches(t, n)' /\ view'[t][n] = Absent => Documents({n}) \subseteq touched'[t]
    BY DEF ViewInv
  <2>1. t \in Session \ dying
    BY <1>0, <1>3, <1>4 DEF TypeOK, Locks!LockTypeOK
  <2> QED BY <1>0, <1>2, <1>4, <2>1 DEF TxInv, ViewInv, Touches
<1> QED BY <1>1, <1>5, <1>6, <1>7, <1>8, <1>9 DEF GInv, TxInv

\* The general invariant holds at the start.
LEMMA GInvInit ==
  ASSUME Init
  PROVE  GInv
<1>0. NoTree \in [Node -> Entry]
  BY EntryType DEF NoTree
<1>1. TypeOK
  <2>1. tree \in [Node -> Entry]
    BY InitialAssumption, EntryType DEF Init, FirstTree
  <2>2. asked \in [Session -> Request] /\ todo = asked
    BY DEF Init
  <2>3. \A s \in Session : asked[s] \in Seq(Upload \cup Field)
    BY <2>2, RequestAssumption
  <2>4. todo \in [Session -> Seq(Upload \cup Field)]
    BY <2>2, <2>3
  <2> QED BY <1>0, <2>1, <2>2, <2>4 DEF Init, TypeOK, PC, Locks!LockTypeOK, Locks!LockInit
<1>2. LocalInv
  <2> SUFFICES ASSUME NEW s \in Session PROVE TodoOK(s) /\ KeyOK(s) /\ StageOK(s)
    BY DEF LocalInv
  <2>1. pc[s] = "start" /\ todo[s] = asked[s] /\ asked[s] \in Request
    BY DEF Init
  <2>2. CASE Uploads(s)
    BY <2>1, <2>2, RequestType DEF Uploads, TodoOK, KeyOK, StageOK, Change
  <2>3. CASE ~Uploads(s)
    <3>1. asked[s] \in Seq(Field) /\ Len(asked[s]) > 0
      BY <2>1, <2>3, RequestType DEF Uploads
    <3>2. Len(asked[s]) \in Nat
      BY <3>1
    <3>3. Len(todo[s]) \in 1..Len(asked[s])
      BY <2>1, <3>1, <3>2
    <3>4. \A i \in 1..Len(todo[s]) : i + Len(asked[s]) - Len(todo[s]) = i
      BY <2>1, <3>2
    <3>5. TodoOK(s)
      BY <2>1, <2>3, <3>1, <3>3, <3>4 DEF TodoOK
    <3> QED BY <2>1, <3>5 DEF KeyOK, StageOK
  <2> QED BY <2>2, <2>3
<1>3. LockInv
  BY DEF Init, LockInv, Locks!LockInit
<1>4. TouchedInv /\ ViewInv
  BY DEF Init, TouchedInv, ViewInv, Locks!LockInit
<1>5. NewInv
  <2> SUFFICES ASSUME NEW s \in Session, NEW n \in New(s)
               PROVE  /\ tree[n] = Absent /\ (Touches(s, n) => Documents({n}) \subseteq touched[s])
                      /\ \A t \in Session \ {s} : view[t][n] = Absent /\ ~Touches(t, n)
                      /\ \A t \in Session : n \notin target[t]
    BY DEF NewInv
  <2>1. n \in Node /\ n \notin OldNode /\ NoTree[n] = Absent
    BY NewApart DEF NoTree
  <2> QED BY <2>1 DEF Init, FirstTree, Touches
<1> QED BY <1>1, <1>2, <1>3, <1>4, <1>5 DEF GInv, TxInv

\* A step is a step of a request, a crash of a replica, or none.
LEMMA StepKinds ==
  ASSUME [Next]_vars
  PROVE  \/ \E s \in Session : UploadStep(s) \/ MutationStep(s) \/ RequestStep(s) \/ TxLimitAbort(s)
         \/ \E s \in Session : Crash(ReplicaOf[s])
         \/ UNCHANGED vars
BY DEF Next, Finished

\* Every step keeps the general invariant.
LEMMA GInvStep ==
  ASSUME GInv, [Next]_vars
  PROVE  GInv'
<1>1. CASE \E s \in Session : UploadStep(s) \/ MutationStep(s) \/ RequestStep(s) \/ TxLimitAbort(s)
  BY <1>1, GInvRequestStep
<1>2. CASE \E s \in Session : Crash(ReplicaOf[s])
  BY <1>2, GInvCrash
<1>3. CASE UNCHANGED vars
  <2>1. UNCHANGED <<tree, asked, todo, pc, place, name, target, view, begun, touched, stale, owned, shared, open>>
    BY <1>3 DEF vars, changeVars, txVars, lockVars
  <2>2. TypeOK' /\ LockInv'
    BY <2>1 DEF GInv, TypeOK, Locks!LockTypeOK, LockInv
  <2>3. LocalInv'
    BY <2>1 DEF GInv, LocalInv, TodoOK, KeyOK, StageOK, Change, Uploads, Ended
  <2>4. TxInv'
    <3>1. TouchedInv'
      BY <2>1 DEF GInv, TxInv, TouchedInv
    <3>2. NewInv'
      BY <2>1 DEF GInv, TxInv, NewInv, Touches, Ended
    <3>3. ViewInv'
      BY <2>1 DEF GInv, TxInv, ViewInv, Touches
    <3> QED BY <3>1, <3>2, <3>3 DEF TxInv
  <2> QED BY <2>2, <2>3, <2>4 DEF GInv
<1> QED BY <1>1, <1>2, <1>3, StepKinds

\* The general invariant holds for any requests: types, what handlers know, owners of
\* names, and what transactions have seen and written.
THEOREM Invariance == Spec => []GInv
BY GInvInit, GInvStep, PTL DEF Spec

\* Every variable keeps its type: no handler stores an entry, a key or a rest of a request
\* that is not one.
THEOREM Types == Spec => []TypeOK
BY Invariance, PTL DEF GInv

\* A name belongs to one request of a replica, and across replicas to one whose transaction
\* can still commit, however the handlers take and release names.
THEOREM OneOwner == Spec => []LockInv
BY Invariance, PTL DEF GInv

\* No two open transactions have written the same document, new entries are seen by nobody
\* else before the commit, and what a transaction has written is still committed for it.
THEOREM SnapshotWrites == Spec => [](TouchedInv /\ NewInv /\ ViewInv)
BY Invariance, PTL DEF GInv, TxInv

\* What a step does to the locks is a step of the lock, or none.
LEMMA LocksStep ==
  ASSUME GInv, [Next]_vars
  PROVE  [Locks!LockNext]_<<owned, shared, open>>
<1>0. TypeOK /\ LocalInv
  BY DEF GInv
<1>1. ASSUME NEW s \in Session, UploadStep(s) \/ MutationStep(s) \/ RequestStep(s) \/ TxLimitAbort(s)
      PROVE  [Locks!LockNext]_<<owned, shared, open>>
  <2>1. Shape(s) /\ KeyOK(s)
    BY <1>1, GInvRequestStep DEF GInv, LocalInv
  <2>2. CASE Quiet \/ Snapshot(s) \/ Stores(s)
    BY <2>2 DEF Quiet, Snapshot, Stores, lockVars
  <2>3. CASE Begins(s)
    BY <2>3 DEF Begins, Locks!LockNext
  <2>4. CASE Grants(s) \/ Shares(s)
    <3>1. Key(s) \in Node \X Name
      BY <2>1, <2>4 DEF Grants, Shares, KeyOK, Key
    <3> QED BY <2>4, <3>1 DEF Grants, Shares, Locks!LockNext
  <2>5. CASE Releases(s)
    <3>1. PICK k \in owned[s] : IF k \in shared[s] THEN Locks!Unshare(s, k) ELSE Locks!Give(s, k)
      BY <2>5 DEF Releases
    <3>2. k \in Node \X Name
      BY <1>0 DEF TypeOK, Locks!LockTypeOK
    <3> QED BY <3>1, <3>2 DEF Locks!LockNext
  <2>6. CASE Closes(s) \/ Commits(s)
    BY <2>6 DEF Closes, Commits, Locks!LockNext
  <2> QED BY <2>1, <2>2, <2>3, <2>4, <2>5, <2>6 DEF Shape
<1>2. ASSUME NEW s \in Session, Crash(ReplicaOf[s])
      PROVE  [Locks!LockNext]_<<owned, shared, open>>
  BY <1>2 DEF Crash, Locks!LockNext
<1>3. CASE UNCHANGED vars
  BY <1>3 DEF vars, lockVars
<1> QED BY <1>1, <1>2, <1>3, StepKinds

\* All the handlers do with names and transactions is what SiblingLocks allows, so that what
\* NameLocks implements is what the handlers rely on.
THEOREM UsesLocks == Spec => Locks!LockSpec
<1>1. Init => Locks!LockInit
  BY DEF Init
<1>2. GInv /\ [Next]_vars => [Locks!LockNext]_Locks!lockVars
  BY LocksStep DEF Locks!lockVars
<1> QED BY <1>1, <1>2, Invariance, PTL DEF Spec, Locks!LockSpec
-----------------------------------------------------------------------------
(***************************************************************************)
(* The folders stay trees, where one folder alone is moved below folders   *)
(* that may be moved.                                                      *)
(*                                                                         *)
(* The walk over the ancestors sees what is committed when it is made.     *)
(* The folder it looks for cannot get above the target afterwards: that    *)
(* would take the move of another folder, which the class excludes, or of  *)
(* the same one, which would conflict (CommitMayGo).  A commit that closed *)
(* a loop would have moved a folder below itself (CommitAcyclic).          *)
(***************************************************************************)

\* What is above an entry: the entry, and with every member its parent.
LEMMA AboveClosed ==
  ASSUME NEW t, NEW p \in Node
  PROVE  /\ p \in Above(t, p) /\ Above(t, p) \subseteq Node
         /\ \A n \in Above(t, p) : 
              t[n].parent \in Node \cup {NoNode} => t[n].parent \in Above(t, p) \cup {NoNode}
<1>1. p \in Above(t, p) /\ Above(t, p) \subseteq Node
  BY DEF Above
<1>2. ASSUME NEW n \in Above(t, p), t[n].parent \in Node, NEW up \in SUBSET Node,
             p \in up, \A m \in up : t[m].parent \in up \cup {NoNode}
      PROVE  t[n].parent \in up
  <2>1. n \in up
    BY <1>2 DEF Above
  <2> QED BY <1>2, <2>1, NodeAssumption
<1>3. \A n \in Above(t, p) : t[n].parent \in Node => t[n].parent \in Above(t, p)
  BY <1>2 DEF Above
<1> QED BY <1>1, <1>3

\* It is the least such set.
LEMMA AboveWithin ==
  ASSUME NEW t, NEW up \in SUBSET Node, NEW p \in up,
         \A m \in up : t[m].parent \in up \cup {NoNode}
  PROVE  Above(t, p) \subseteq up
BY DEF Above

\* Where there is no loop, some member of a set has its parent outside.
LEMMA WayOut ==
  ASSUME NEW t, Acyclic(t), NEW loop \in SUBSET Node, loop # {}
  PROVE  \E n \in loop : t[n].parent \notin loop
<1>1. CASE \E n \in loop : t[n].parent = NoNode
  BY <1>1, NodeAssumption
<1>2. CASE \A n \in loop : t[n].parent # NoNode
  <2>1. loop \in SUBSET {n \in Node : t[n].parent # NoNode}
    BY <1>2
  <2> QED BY <2>1 DEF Acyclic
<1> QED BY <1>1, <1>2

\* A change that moves an entry: what it moves, and where to.
LEMMA MoveType ==
  ASSUME NEW c \in Changes, IsMove(c)
  PROVE  /\ c.id \in OldNode /\ c.to \in OldNode /\ c.id \in Node /\ c.to \in Node
         /\ c.id \notin Fixed
<1>1. c \in Upload \cup Field
  BY RequestAssumption DEF Changes
<1>2. c.id \in OldNode /\ c.to \in OldNode
  BY <1>1 DEF IsMove, Upload, Field
<1>3. ~IsFile(c.id) => c.id \in Moved
  BY DEF Moved
<1>4. c.id \in Above(FirstTree, c.id)
  BY <1>2, AboveClosed DEF Node
<1> QED BY <1>2, <1>3, <1>4 DEF Fixed, Node

\* What is above a folder that stays where it is, stays where it is.
LEMMA FixedUp ==
  ASSUME NEW n \in Fixed
  PROVE  /\ n \in OldNode /\ n \in Node /\ ~IsFile(n)
         /\ Initial[n].parent \in Fixed \cup {NoNode}
<1>1. n \in OldNode /\ n \in Node /\ ~IsFile(n) /\ Above(FirstTree, n) \cap Moved = {}
  BY DEF Fixed, Node
<1>2. ASSUME Initial[n].parent # NoNode PROVE Initial[n].parent \in Fixed
  <2> DEFINE p == Initial[n].parent
  <2>1. p \in OldNode /\ p \in Node /\ ~IsFile(p) /\ FirstTree[n].parent = p
    BY <1>1, <1>2, FirstTreeAssumption DEF IsFile, Node, FirstTree
  <2>2. p \in Above(FirstTree, n)
    BY <1>1, <1>2, <2>1, AboveClosed
  <2>3. \A m \in Above(FirstTree, n) : FirstTree[m].parent \in Node \cup {NoNode}
    BY <1>1, AboveClosed, InitialAssumption, EntryType DEF FirstTree
  <2>4. Above(FirstTree, p) \subseteq Above(FirstTree, n)
    BY <1>1, <2>2, <2>3, AboveClosed, AboveWithin
  <2> QED BY <1>1, <2>1, <2>4 DEF Fixed
<1> QED BY <1>1, <1>2

\* The folders that stay where they are form trees.
LEMMA FixedWayOut ==
  ASSUME NEW loop \in SUBSET Fixed, loop # {}
  PROVE  \E n \in loop : Initial[n].parent \notin loop
<1>1. loop \in SUBSET OldNode
  BY FixedUp
<1> QED BY <1>1, FirstTreeAssumption

\* Where a commit puts an entry: an entry that was moved or erased is where the view
\* of the transaction has it, every other one where it was.
LEMMA MergedParent ==
  ASSUME GInv, NEW s \in open, ~Ended(s), begun[s], NEW n \in Node
  PROVE  /\ Merged(s)[n].parent \in Node \cup {NoNode}
         /\ Merged(s)[n].parent = IF <<n, "link">> \in touched[s] THEN view[s][n].parent ELSE tree[n].parent
         /\ Merged(s)[n].kind \in {tree[n].kind, view[s][n].kind}
<1>1. TypeOK /\ TxInv /\ s \in Session
  BY DEF GInv, TypeOK, Locks!LockTypeOK
<1>2. Merged(s)[n] \in Entry
  BY <1>1, MergedEntry
<1>4. tree[n] \in Entry /\ view[s][n] \in Entry
  BY <1>1 DEF TypeOK
<1>3. Merged(s)[n].kind \in {tree[n].kind, view[s][n].kind}
  BY <1>4 DEF Merged, Entry, Absent
<1> QED BY <1>1, <1>2, <1>3, MergedEntry, EntryType

\* What the invariant says of the tree that a commit makes.
LEMMA CommitPlain ==
  ASSUME GInv, FolderInv, NEW s \in open, ~Ended(s), begun[s]
  PROVE  PlainOK(Merged(s))
<1>1. PlainOK(tree) /\ PlainOK(view[s])
  BY DEF FolderInv, GInv, TypeOK, Locks!LockTypeOK
<1>2. \A n \in Node : ~IsFile(Merged(s)[n].parent)
  BY <1>1, MergedParent DEF PlainOK
<1>3. \A n \in OldNode : n \in Node /\ Merged(s)[n].kind \in {Initial[n].kind, "none"}
  <2> SUFFICES ASSUME NEW n \in OldNode PROVE n \in Node /\ Merged(s)[n].kind \in {Initial[n].kind, "none"}
    OBVIOUS
  <2>1. n \in Node
    BY DEF Node
  <2>2. Merged(s)[n].kind \in {tree[n].kind, view[s][n].kind}
    BY <2>1, MergedParent
  <2> QED BY <1>1, <2>1, <2>2 DEF PlainOK
<1>4. \A n \in Fixed : Merged(s)[n].parent \in {Initial[n].parent, NoNode}
  BY <1>1, FixedUp, MergedParent DEF PlainOK
<1> QED BY <1>2, <1>3, <1>4 DEF PlainOK

\* The class lets one folder alone go to where a moved folder may be above it.
LEMMA OneGoes ==
  ASSUME OneMover, NEW m, NEW n, NEW p, NEW q, MayGo(m, p), MayGo(n, q),
         ~IsFile(m), ~IsFile(n), p \notin Fixed, q \notin Fixed
  PROVE  m = n
BY DEF OneMover, MayGo

\* What may go to a folder may go there after a commit of another request: nothing that
\* is moved gets above that folder.
LEMMA CommitMayGo ==
  ASSUME OneMover, GInv, FolderInv, NEW s \in open, ~Ended(s), begun[s],
         tree' = Merged(s), NEW n, NEW p, MayGo(n, p)
  PROVE  MayGo(n, p)'
<1>0. s \in Session /\ NewFoldersOK(s) /\ GoneOK(s) /\ PlainOK(tree)
  BY DEF FolderInv, GInv, TypeOK, Locks!LockTypeOK
<1>1. PICK c \in Changes : IsMove(c) /\ c.id = n /\ c.to = p
  BY DEF MayGo
<1>2. n \in OldNode /\ p \in OldNode /\ p \in Node /\ n \notin Fixed /\ ~IsFile(p)
  BY <1>1, MoveType DEF MayGo
<1>3. CASE p \in Fixed \/ IsFile(n)
  BY <1>1, <1>2, <1>3 DEF MayGo
<1>4. CASE p \notin Fixed /\ ~IsFile(n)
  <2> DEFINE up == {m \in Above(tree, p) : ~IsFile(m) /\ m \notin New(s)} \cup Fixed
  <2>1. n \notin Above(tree, p)
    BY <1>4 DEF MayGo
  <2>2. up \in SUBSET Node /\ p \in up
    BY <1>0, <1>2, AboveClosed, FixedUp, NewApart
  <2>3. ASSUME NEW m \in up PROVE tree'[m].parent \in up \cup {NoNode}
    <3>0. m \in Node /\ tree'[m].parent = Merged(s)[m].parent
      BY <2>2
    <3>1. CASE m \in Fixed
      BY <3>0, <3>1, CommitPlain, FixedUp DEF PlainOK
    <3>2. CASE m \notin Fixed /\ <<m, "link">> \notin touched[s]
      <4>1. tree'[m].parent = tree[m].parent /\ m \in Above(tree, p) /\ tree[m].parent \in Node \cup {NoNode}
        BY <3>0, <3>2, MergedParent
      <4>2. tree[m].parent \in Above(tree, p) \cup {NoNode}
        BY <1>2, <4>1, AboveClosed
      <4>3. ~IsFile(tree[m].parent) /\ tree[m].parent \notin New(s)
        BY <1>0, <3>0 DEF PlainOK, NewFoldersOK
      <4> QED BY <4>1, <4>2, <4>3
    <3>3. CASE m \notin Fixed /\ <<m, "link">> \in touched[s]
      <4>1. tree'[m].parent = view[s][m].parent /\ m \in Above(tree, p) /\ ~IsFile(m) /\ m \notin New(s)
        BY <3>0, <3>3, MergedParent
      <4>2. tree'[m].parent = NoNode \/ MayGo(m, tree'[m].parent)
        BY <1>0, <3>0, <3>3, <4>1 DEF GoneOK
      <4>3. m # n
        BY <2>1, <4>1
      <4>4. MayGo(m, tree'[m].parent) => tree'[m].parent \in Fixed
        BY <1>4, <4>1, <4>3, OneGoes
      <4> QED BY <4>2, <4>4
    <3> QED BY <3>1, <3>2, <3>3
  <2>4. Above(tree', p) \subseteq up
    BY <2>2, <2>3, AboveWithin
  <2>5. n \notin Above(tree', p)
    BY <1>2, <2>1, <2>4
  <2> QED BY <1>1, <1>2, <2>5 DEF MayGo
<1> QED BY <1>3, <1>4

\* A commit closes no loop: through the folder that was moved the tree before it would
\* have one, too.
LEMMA CommitAcyclic ==
  ASSUME OneMover, GInv, FolderInv, NEW s \in open, ~Ended(s), begun[s]
  PROVE  Acyclic(Merged(s))
<1>0. s \in Session /\ NewFoldersOK(s) /\ GoneOK(s) /\ PlainOK(tree) /\ Acyclic(tree) /\ NewInv
  BY DEF FolderInv, GInv, TypeOK, Locks!LockTypeOK, NoFolderCycle, TxInv
<1> DEFINE T == Merged(s)
<1> SUFFICES ASSUME NEW loop \in SUBSET Node, loop # {}, \A n \in loop : T[n].parent \in loop
             PROVE  FALSE
  BY DEF Acyclic
<1> HIDE DEF T
<1>1. /\ PlainOK(T)
      /\ \A n \in Node : T[n].parent = IF <<n, "link">> \in touched[s] THEN view[s][n].parent ELSE tree[n].parent
  BY CommitPlain, MergedParent DEF T
<1>2. NoNode \notin loop
  BY NodeAssumption
<1> DEFINE folders == {n \in loop : ~IsFile(n)}
<1>3. folders # {} /\ \A n \in folders : T[n].parent \in folders
  BY <1>1 DEF PlainOK
<1>4. folders \cap Fixed = {}
  <2> SUFFICES ASSUME folders \cap Fixed # {} PROVE FALSE
    OBVIOUS
  <2>1. PICK n \in folders \cap Fixed : Initial[n].parent \notin folders \cap Fixed
    <3>1. folders \cap Fixed \in SUBSET Fixed
      OBVIOUS
    <3> QED BY <3>1, FixedWayOut
  <2>2. T[n].parent = Initial[n].parent
    BY <1>1, <1>2, <1>3, <2>1 DEF PlainOK
  <2> QED BY <1>2, <1>3, <2>1, <2>2, FixedUp
<1>5. ASSUME NEW n \in folders \ New(s)
      PROVE  /\ T[n].parent \in folders \ New(s)
             /\ <<n, "link">> \in touched[s] => MayGo(n, T[n].parent)
  <2>1. <<n, "link">> \in touched[s] => MayGo(n, T[n].parent)
    BY <1>0, <1>1, <1>2, <1>3 DEF GoneOK
  <2>2. \A q : MayGo(n, q) => q \notin New(s)
    BY <1>0, MoveType, NewApart DEF MayGo
  <2>3. tree[n].parent \notin New(s)
    BY <1>0 DEF NewFoldersOK
  <2> QED BY <1>1, <1>3, <2>1, <2>2, <2>3
<1>6. folders \ New(s) # {}
  <2> SUFFICES ASSUME folders \subseteq New(s) PROVE FALSE
    OBVIOUS
  <2>1. PICK n \in folders : view[s][n].parent \notin folders
    BY <1>0, <1>3 DEF NewFoldersOK
  <2>2. tree[n].parent = NoNode
    BY <1>0, <2>1, EntryType DEF NewInv
  <2> QED BY <1>1, <1>2, <1>3, <2>1, <2>2
<1>7. CASE \A n \in folders \ New(s) : <<n, "link">> \notin touched[s]
  <2>1. \A n \in folders \ New(s) : tree[n].parent \in folders \ New(s)
    BY <1>1, <1>5, <1>7
  <2> QED BY <1>0, <1>6, <2>1, WayOut
<1>8. CASE \E n \in folders \ New(s) : <<n, "link">> \in touched[s]
  <2>1. PICK f \in folders \ New(s) : <<f, "link">> \in touched[s]
    BY <1>8
  <2> DEFINE p == T[f].parent
  <2>2. p \in folders \ New(s) /\ MayGo(f, p)
    BY <1>5, <2>1
  <2>3. p \in Node /\ f \notin Above(tree, p)
    BY <1>4, <2>2 DEF MayGo
  <2> DEFINE way == (folders \ New(s)) \cap Above(tree, p)
  <2>4. p \in way
    BY <2>2, <2>3, AboveClosed
  <2> HIDE DEF p
  <2>5. ASSUME NEW n \in way PROVE tree[n].parent \in way
    <3>1. <<n, "link">> \notin touched[s]
      <4> SUFFICES ASSUME <<n, "link">> \in touched[s] PROVE FALSE
        OBVIOUS
      <4>1. MayGo(n, T[n].parent) /\ T[n].parent \in folders
        BY <1>5
      <4>2. n = f
        BY <1>4, <2>2, <4>1, OneGoes
      <4> QED BY <2>3, <4>2
    <3>2. tree[n].parent = T[n].parent
      BY <1>1, <3>1
    <3>3. tree[n].parent \in folders \ New(s)
      BY <1>5, <3>2
    <3>4. tree[n].parent \in Above(tree, p)
      BY <1>2, <2>3, <3>3, AboveClosed
    <3> QED BY <3>3, <3>4
  <2> QED BY <1>0, <2>4, <2>5, WayOut
<1> QED BY <1>7, <1>8

\* What a step does to the tree.
LEMMA TreeStep ==
  ASSUME OneMover, GInv, FolderInv, NEW s \in Session, Shape(s)
  PROVE  /\ PlainOK(tree') /\ Acyclic(tree')
         /\ \A n, p : MayGo(n, p) => MayGo(n, p)'
         /\ \A n \in OldNode : tree[n] = Absent => tree'[n] = Absent
         /\ \A u \in Session : ~Ended(u) /\ (u # s \/ tree' = tree) => 
              \A n \in Node : tree'[n].parent \notin New(u)
<1>0. /\ TypeOK /\ LocalInv /\ TxInv /\ PlainOK(tree) /\ Acyclic(tree)
      /\ \A u \in Session : ~Ended(u) => NewFoldersOK(u)
  BY DEF GInv, FolderInv, NoFolderCycle
<1>1. CASE tree' = tree
  <2>1. \A n, p : MayGo(n, p) => MayGo(n, p)'
    BY <1>1 DEF MayGo
  <2> QED BY <1>0, <1>1, <2>1 DEF NewFoldersOK
<1>2. CASE tree' # tree
  <2>1. Commits(s) /\ s \in open /\ ~Ended(s) /\ tree' = Merged(s)
    BY <1>0, <1>2, ActorKept DEF Snapshot, Stores, Commits, Ended
  <2>2. begun[s]
    <3> SUFFICES ASSUME ~begun[s] PROVE FALSE
      OBVIOUS
    <3>1. touched[s] = {}
      BY <1>0 DEF TxInv, TouchedInv
    <3>2. Merged(s) = [n \in Node |-> tree[n]]
      BY <3>1 DEF Merged
    <3> QED BY <1>0, <1>2, <2>1, <3>2 DEF TypeOK
  <2>3. PlainOK(tree') /\ Acyclic(tree')
    BY <2>1, <2>2, CommitPlain, CommitAcyclic
  <2>4. \A n, p : MayGo(n, p) => MayGo(n, p)'
    BY <2>1, <2>2, CommitMayGo
  <2>5. ASSUME NEW n \in OldNode, tree[n] = Absent PROVE tree'[n] = Absent
    <3>1. n \in Node /\ n \notin New(s)
      BY NewApart DEF Node
    <3> QED BY <1>0, <2>1, <2>2, <2>5, <3>1, MergedEntry
  <2>6. ASSUME NEW u \in Session, ~Ended(u), u # s, NEW n \in Node
        PROVE  tree'[n].parent \notin New(u)
    <3>1. tree'[n].parent \in {tree[n].parent, view[s][n].parent}
      BY <2>1, <2>2, MergedParent
    <3> QED BY <1>0, <2>6, <3>1 DEF NewFoldersOK
  <2> QED BY <1>2, <2>3, <2>4, <2>5, <2>6
<1> QED BY <1>1, <1>2

-----------------------------------------------------------------------------
\* A write changes the kind of nothing that it does not erase.
LEMMA RewriteKind ==
  ASSUME TypeOK, LocalInv, NEW s \in Session, Stores(s), Rewrites(s), NEW n \in target[s]
  PROVE  view'[s][n].kind \in {view[s][n].kind, "none"}
<1>0. view[s] \in [Node -> Entry] /\ target[s] \subseteq Node /\ n \in Node
  BY DEF TypeOK
<1>1. PICK entries \in [target[s] -> Entry] :
        /\ view' = [view EXCEPT ![s] = [m \in Node |-> IF m \in target[s] THEN entries[m] ELSE @[m]]]
        /\ pc[s] = "erase" => entries[n] = Absent
        /\ pc[s] = "update" =>
             entries[n] = [view[s][n] EXCEPT
                             !.name = IF Change(s).name = NoName THEN @ ELSE Change(s).name,
                             !.parent = IF Change(s).to = NoNode THEN @ ELSE Change(s).to]
        /\ pc[s] = "replace" => entries[n] = [view[s][n] EXCEPT !.name = name[s]]
  BY DEF Rewrites
<1>2. view'[s][n] = entries[n]
  BY <1>0, <1>1 DEF TypeOK
<1>3. CASE pc[s] = "erase"
  BY <1>1, <1>2, <1>3, EntryType
<1>4. CASE pc[s] # "erase"
  <2>1. view[s][n] \in [kind : {"folder", "file"}, parent : Node \cup {NoNode}, name : Name]
    BY <1>0, <1>4 DEF Stores, Possible, Rewrites, Entry
  <2>2. \A a, b : [view[s][n] EXCEPT !.name = a, !.parent = b].kind = view[s][n].kind
                  /\ [view[s][n] EXCEPT !.name = a].kind = view[s][n].kind
    BY <2>1
  <2>3. CASE pc[s] = "update"
    <3> DEFINE given == IF Change(s).name = NoName THEN view[s][n].name ELSE Change(s).name
               where == IF Change(s).to = NoNode THEN view[s][n].parent ELSE Change(s).to
    <3>1. entries[n] = [view[s][n] EXCEPT !.name = given, !.parent = where]
      BY <1>1, <2>3
    <3> QED BY <1>2, <2>2, <3>1
  <2>4. CASE pc[s] = "replace"
    <3>1. entries[n] = [view[s][n] EXCEPT !.name = name[s]]
      BY <1>1, <2>4
    <3> QED BY <1>2, <2>1, <3>1
  <2> QED BY <1>4, <2>3, <2>4 DEF Rewrites
<1> QED BY <1>3, <1>4

\* What the handler of a move writes it may write: an entry that is gone would be a
\* conflict.
LEMMA MoveKnown ==
  ASSUME GInv, FolderInv, NEW s \in Session, Stores(s), pc[s] = "update", Change(s).to # NoNode
  PROVE  target[s] = {Change(s).id} /\ MayGo(Change(s).id, Change(s).to)
<1> DEFINE c == Change(s)
<1>0. TypeOK /\ LocalOK(s) /\ TxInv /\ ~Ended(s) /\ s \in open /\ begun[s] /\ Possible(s)
  BY DEF GInv, LocalInv, LocalOK, Stores, Ended
<1>1. IsMove(c) /\ c.id \in OldNode /\ c.id \in Node
  BY <1>0, ChangeParts DEF IsMove, LocalOK, StageOK
<1>2. target[s] = {c.id} /\ (tree[c.id] = Absent \/ MayGo(c.id, c.to))
  BY <1>0, <1>1 DEF FolderInv, GoingOK, Following
<1> SUFFICES ASSUME tree[c.id] = Absent PROVE FALSE
  BY <1>2
<1>3. view[s][c.id] # Absent
  BY <1>0, <1>2 DEF Possible
<1>4. c.id \notin New(s)
  BY <1>1, NewApart
<1>5. Documents({c.id}) \subseteq stale[s]
  BY <1>0, <1>1, <1>3, <1>4 DEF TxInv, ViewInv
<1>6. <<c.id, "link">> \in Written(s)
  BY <1>2 DEF Written, UpdateDocuments, Documents
<1> QED BY <1>0, <1>5, <1>6 DEF Possible, Conflicting, Documents

\* Where a new entry is put: into a folder that is there.
LEMMA PlaceThere ==
  ASSUME GInv, FolderInv, NEW s \in Session, Stores(s), Inserts(s)
  PROVE  place[s] \in Node /\ ~IsFile(place[s]) /\ view[s][place[s]] # Absent
<1>1. IsFolder(view[s], place[s])
  BY DEF Stores, Possible, Inserts
<1>2. PlainOK(view[s])
  BY DEF FolderInv
<1> QED BY <1>1, <1>2, EntryType DEF IsFolder, PlainOK, IsFile

\* What a write does to the entries a transaction sees.
LEMMA StorePlain ==
  ASSUME GInv, FolderInv, NEW s \in Session, Stores(s)
  PROVE  PlainOK(view'[s])
<1>0. TypeOK /\ LocalInv /\ PlainOK(view[s]) /\ ~IsFile(NoNode) /\ Absent.parent = NoNode
  BY NodeAssumption, EntryType DEF GInv, FolderInv, IsFile, Node
<1>1. CASE Inserts(s)
  <2>1. PICK n \in New(s) :
          /\ view'[s][n].parent = place[s] /\ \A m \in Node \ {n} : view'[s][m] = view[s][m]
    BY <1>0, <1>1, InsertParts
  <2>2. ~IsFile(place[s]) /\ n \notin OldNode /\ OldNode \subseteq Node /\ Fixed \subseteq OldNode
    BY <1>1, PlaceThere, NewApart DEF Fixed, Node
  <2> QED BY <1>0, <2>1, <2>2 DEF PlainOK
<1>2. CASE Rewrites(s)
  <2>1. /\ \A n \in Node \ target[s] : view'[s][n] = view[s][n]
        /\ OldNode \subseteq Node /\ Fixed \subseteq OldNode
    BY <1>0, <1>2, RewriteParts DEF Stores, Fixed, Node
  <2>2. ASSUME NEW n \in target[s]
        PROVE  /\ n \in Node /\ view'[s][n].kind \in {view[s][n].kind, "none"}
               /\ \/ view'[s][n].parent = view[s][n].parent \/ view'[s][n].parent = NoNode
                  \/ ~IsFile(view'[s][n].parent) /\ n \notin Fixed
    <3>1. n \in Node /\ view'[s][n].kind \in {view[s][n].kind, "none"}
      BY <1>0, <1>2, RewriteKind, RewriteParts DEF Stores
    <3>2. CASE pc[s] = "update" /\ Change(s).to # NoNode
      <4>0. view'[s][n].parent = Change(s).to
        BY <1>0, <1>2, <3>2, RewriteParts DEF Stores
      <4>1. n = Change(s).id /\ MayGo(Change(s).id, Change(s).to)
        BY <3>2, MoveKnown
      <4>2. n \notin Fixed /\ ~IsFile(Change(s).to)
        BY <4>1, MoveType DEF MayGo
      <4> QED BY <3>1, <4>0, <4>1, <4>2
    <3>3. CASE ~(pc[s] = "update" /\ Change(s).to # NoNode)
      <4>0. pc[s] \in {"update", "replace", "erase"}
        BY <1>2 DEF Rewrites
      <4>1. view'[s][n].parent = view[s][n].parent \/ view'[s][n] = Absent
        BY <1>0, <1>2, <3>3, <4>0, RewriteParts DEF Stores
      <4> QED BY <1>0, <3>1, <4>1
    <3> QED BY <3>2, <3>3
  <2>3. \A n \in Node : ~IsFile(view'[s][n].parent)
    BY <1>0, <2>1, <2>2 DEF PlainOK
  <2>4. \A n \in OldNode : view'[s][n].kind \in {Initial[n].kind, "none"}
    BY <1>0, <2>1, <2>2 DEF PlainOK
  <2>5. \A n \in Fixed : view'[s][n].parent \in {Initial[n].parent, NoNode}
    BY <1>0, <2>1, <2>2 DEF PlainOK
  <2> QED BY <2>3, <2>4, <2>5 DEF PlainOK
<1> QED BY <1>1, <1>2 DEF Stores

\* What a write moves may go there.
LEMMA StoreGone ==
  ASSUME GInv, FolderInv, NEW s \in Session, Stores(s), GoneOK(s)
  PROVE  GoneOK(s)'
<1>0. TypeOK /\ LocalInv /\ tree' = tree /\ touched \in [Session -> SUBSET Documents(Node)]
  BY DEF GInv, Stores, TypeOK
<1>1. \A n, p : MayGo(n, p) => MayGo(n, p)'
  BY <1>0 DEF MayGo
<1> SUFFICES ASSUME NEW n \in Node \ New(s), <<n, "link">> \in touched'[s]
             PROVE  view'[s][n].parent = NoNode \/ MayGo(n, view'[s][n].parent)
  BY <1>1 DEF GoneOK
<1>2. CASE <<n, "link">> \in touched[s] /\ view'[s][n].parent = view[s][n].parent
  BY <1>2 DEF GoneOK
<1>3. CASE Inserts(s)
  <2>1. PICK m \in New(s) :
          /\ touched' = [touched EXCEPT ![s] = @ \cup Documents({m})]
          /\ \A k \in Node \ {m} : view'[s][k] = view[s][k]
    BY <1>0, <1>3, InsertParts
  <2>2. <<n, "link">> \in touched[s] /\ view'[s][n] = view[s][n]
    BY <1>0, <2>1 DEF Documents
  <2> QED BY <1>2, <2>2
<1>4. CASE Rewrites(s) /\ n \notin target[s]
  <2>1. /\ touched' = [touched EXCEPT ![s] = @ \cup Written(s)] /\ Written(s) \subseteq Documents(target[s])
        /\ view'[s][n] = view[s][n]
    BY <1>0, <1>4, RewriteParts DEF Stores
  <2>2. <<n, "link">> \in touched[s]
    BY <1>0, <1>4, <2>1 DEF Documents
  <2> QED BY <1>2, <2>1, <2>2
<1>5. CASE Rewrites(s) /\ n \in target[s]
  <2>0. touched'[s] = touched[s] \cup Written(s)
    BY <1>0, <1>5, RewriteParts DEF Stores
  <2>1. CASE pc[s] = "erase"
    BY <1>0, <1>5, <2>1, RewriteParts, EntryType DEF Stores
  <2>2. CASE pc[s] = "update" /\ Change(s).to # NoNode
    <3>1. view'[s][n].parent = Change(s).to
      BY <1>0, <1>5, <2>2, RewriteParts DEF Stores
    <3>2. n = Change(s).id /\ MayGo(n, Change(s).to)
      BY <1>5, <2>2, MoveKnown
    <3> QED BY <3>1, <3>2
  <2>3. CASE pc[s] = "update" /\ Change(s).to = NoNode
    <3>1. view'[s][n].parent = view[s][n].parent
      BY <1>0, <1>5, <2>3, RewriteParts DEF Stores
    <3>2. <<n, "link">> \notin Written(s)
      BY <2>3 DEF Written, UpdateDocuments
    <3> QED BY <1>2, <2>0, <3>1, <3>2
  <2>4. CASE pc[s] = "replace"
    <3>1. view'[s][n].parent = view[s][n].parent
      BY <1>0, <1>5, <2>4, RewriteParts DEF Stores
    <3>2. <<n, "link">> \notin Written(s)
      BY <2>4 DEF Written
    <3> QED BY <1>2, <2>0, <3>1, <3>2
  <2> QED BY <1>5, <2>1, <2>2, <2>3, <2>4 DEF Rewrites
<1> QED BY <1>3, <1>4, <1>5 DEF Stores

\* Where a write puts an entry: into a folder that the transaction sees, into an old one,
\* or nowhere else than before.
LEMMA StoreParents ==
  ASSUME GInv, FolderInv, NEW s \in Session, Stores(s), NEW n \in Node
  PROVE  \/ view'[s][n].parent = view[s][n].parent
         \/ view'[s][n].parent \in OldNode \cup {NoNode}
         \/ view'[s][n].parent \in Node /\ view[s][view'[s][n].parent] # Absent
<1>0. TypeOK /\ LocalInv
  BY DEF GInv
<1>1. CASE Inserts(s)
  <2>1. PICK m \in Node :
          /\ view'[s][m].parent = place[s] /\ \A k \in Node \ {m} : view'[s][k] = view[s][k]
    BY <1>0, <1>1, InsertParts
  <2> QED BY <1>1, <2>1, PlaceThere
<1>2. CASE Rewrites(s)
  <2>1. CASE n \notin target[s]
    BY <1>0, <1>2, <2>1, RewriteParts DEF Stores
  <2>2. CASE n \in target[s] /\ pc[s] = "erase"
    BY <1>0, <1>2, <2>2, RewriteParts, EntryType DEF Stores
  <2>3. CASE n \in target[s] /\ pc[s] = "update"
    <3>1. view'[s][n].parent = IF Change(s).to = NoNode THEN view[s][n].parent ELSE Change(s).to
      BY <1>0, <1>2, <2>3, RewriteParts DEF Stores
    <3>2. Change(s).to # NoNode => Change(s).to \in OldNode
      BY <2>3, MoveKnown, MoveType DEF MayGo
    <3> QED BY <3>1, <3>2
  <2>4. CASE n \in target[s] /\ pc[s] = "replace"
    BY <1>0, <1>2, <2>4, RewriteParts DEF Stores
  <2> QED BY <1>2, <2>1, <2>2, <2>3, <2>4 DEF Rewrites
<1> QED BY <1>1, <1>2 DEF Stores

\* Nobody else puts anything into the new folders of u.
LEMMA StoreOthersNew ==
  ASSUME GInv, FolderInv, NEW s \in Session, Shape(s), Stores(s), NEW u \in Session, u # s, ~Ended(u)
  PROVE  NewFoldersOK(u)'
<1>0. TypeOK /\ LocalInv /\ TxInv /\ NewFoldersOK(u) /\ tree' = tree
  BY DEF GInv, FolderInv, Stores
<1>1. \A t \in Session \ {s} : view'[t] = view[t] /\ touched'[t] = touched[t]
  BY <1>0, OthersKept
<1>2. ASSUME NEW n \in Node PROVE view'[s][n].parent \notin New(u)
  <2>1. New(u) \cap (OldNode \cup {NoNode}) = {}
    BY NewApart, NodeAssumption
  <2>2. \A m \in New(u) : view[s][m] = Absent
    <3> SUFFICES ASSUME NEW m \in New(u) PROVE view[s][m] = Absent
      OBVIOUS
    <3>1. NewInv
      BY <1>0 DEF TxInv
    <3>2. \A t \in Session \ {u} : view[t][m] = Absent /\ ~Touches(t, m)
      BY <3>1 DEF NewInv
    <3> QED BY <3>2
  <2> QED BY <1>0, <2>1, <2>2, StoreParents DEF NewFoldersOK
<1>3. \A t \in Session \ {u} : \A n \in Node : view'[t][n].parent \notin New(u)
  BY <1>0, <1>1, <1>2 DEF NewFoldersOK
<1> QED BY <1>0, <1>1, <1>3 DEF NewFoldersOK, Touches

\* A new folder is put into one that is there: the new folders form a tree.
LEMMA StoreOwnNew ==
  ASSUME GInv, FolderInv, NEW s \in Session, Shape(s), Stores(s), ~Ended(s)
  PROVE  NewFoldersOK(s)'
<1>0. /\ TypeOK /\ LocalInv /\ TxInv /\ NewFoldersOK(s) /\ tree' = tree
      /\ touched \in [Session -> SUBSET Documents(Node)]
  BY DEF GInv, FolderInv, Stores, TypeOK
<1>1. \A t \in Session \ {s} : view'[t] = view[t]
  BY <1>0, OthersKept
<1>2. /\ touched[s] \subseteq touched'[s]
      /\ \A n \in Node : Touches(s, n) => Touches(s, n)'
  <2>1. touched[s] \subseteq touched'[s]
    BY <1>0, StoredDocuments
  <2> QED BY <2>1 DEF Touches
<1>3. New(s) \subseteq Node /\ New(s) \cap (OldNode \cup {NoNode}) = {}
  BY NewApart, NodeAssumption
<1>4. ASSUME NEW n \in Node, view'[s][n].parent \in New(s) PROVE Touches(s, view'[s][n].parent)
  BY <1>0, <1>3, <1>4, StoreParents DEF NewFoldersOK
<1>5. CASE Inserts(s)
  <2>1. PICK m \in NewNode(s) :
          /\ m \in New(s) /\ m \in Node
          /\ touched' = [touched EXCEPT ![s] = @ \cup Documents({m})]
          /\ \A k \in Node \ {m} : view'[s][k] = view[s][k]
    BY <1>0, <1>5, InsertParts
  <2>2. ~Touches(s, m)
    <3>1. <<m, "entry">> \notin touched[s]
      BY <2>1 DEF NewNode
    <3>2. Touches(s, m) => Documents({m}) \subseteq touched[s]
      BY <1>0, <2>1 DEF TxInv, NewInv
    <3> QED BY <3>1, <3>2 DEF Documents
  <2>3. Touches(s, m)'
    <3>1. Documents({m}) \subseteq touched'[s]
      BY <1>0, <2>1
    <3>2. <<m, "entry">> \in Documents({m})
      BY DEF Documents
    <3> QED BY <3>1, <3>2 DEF Touches
  <2>4. \A n \in New(s) : ~Touches(s, n)' => view'[s][n] = Absent
    BY <1>0, <1>2, <1>3, <2>1, <2>3 DEF NewFoldersOK
  <2>5. ASSUME NEW loop \in SUBSET New(s), loop # {}, \A n \in loop : view'[s][n].parent \in loop
        PROVE  FALSE
    <3>1. m \notin {view'[s][n].parent : n \in loop}
      BY <1>3, <1>4, <2>2, <2>5
    <3> DEFINE rest == loop \ {m}
    <3>2. rest \in SUBSET New(s) /\ \A n \in rest : view[s][n].parent \in rest
      BY <1>3, <2>1, <2>5, <3>1
    <3>3. rest # {}
      BY <2>5, <3>1
    <3> HIDE DEF rest
    <3> QED BY <1>0, <3>2, <3>3 DEF NewFoldersOK
  <2> QED BY <1>0, <1>1, <1>2, <1>3, <1>4, <2>4, <2>5 DEF NewFoldersOK
<1>6. CASE Rewrites(s)
  <2>1. \A n \in New(s) : view'[s][n] = view[s][n]
    <3>1. \A n \in New(s) : n \notin target[s]
      BY <1>0 DEF TxInv, NewInv
    <3> QED BY <1>0, <1>3, <1>6, <3>1, RewriteParts DEF Stores
  <2>2. \A n \in New(s) : ~Touches(s, n)' => view'[s][n] = Absent
    BY <1>0, <1>2, <1>3, <2>1 DEF NewFoldersOK
  <2>3. ASSUME NEW loop \in SUBSET New(s), loop # {} PROVE \E n \in loop : view'[s][n].parent \notin loop
    BY <1>0, <2>1, <2>3 DEF NewFoldersOK
  <2> QED BY <1>0, <1>1, <1>2, <1>3, <1>4, <2>2, <2>3 DEF NewFoldersOK
<1> QED BY <1>5, <1>6 DEF Stores

\* The new folders of u, after any step of s.
LEMMA NewFoldersStep ==
  ASSUME OneMover, GInv, FolderInv, NEW s \in Session, Shape(s), NEW u \in Session, ~Ended(u),
         u # s \/ ~Commits(s)
  PROVE  NewFoldersOK(u)'
<1>0. TypeOK /\ LocalInv /\ TxInv /\ NewFoldersOK(u)
  BY DEF GInv, FolderInv
<1>1. CASE Stores(s)
  BY <1>1, StoreOthersNew, StoreOwnNew
<1>2. CASE ~Stores(s)
  <2>1. \A t \in Session \ {s} : view'[t] = view[t] /\ touched'[t] = touched[t]
    BY <1>0, OthersKept
  <2>2. \/ view'[s] = view[s] /\ touched'[s] = touched[s] /\ tree' = tree
        \/ view'[s] = NoTree
        \/ view'[s] = tree /\ tree' = tree
    BY <1>0, <1>2, ActorKept DEF Snapshot, TypeOK
  <2>3. u # s \/ tree' = tree
    BY <1>0, <1>2, ActorKept DEF Snapshot
  <2>4. \A n \in Node : tree'[n].parent \notin New(u)
    BY <2>3, TreeStep
  <2>5. \A n \in Node : NoTree[n].parent \notin New(u) /\ NoTree[n] = Absent
    BY NewApart, NodeAssumption, EntryType DEF NoTree
  <2>6. \A t \in Session \ {u} : \A n \in Node : view'[t][n].parent \notin New(u)
    BY <1>0, <2>1, <2>2, <2>4, <2>5 DEF NewFoldersOK
  <2>7. CASE view'[u] = view[u] /\ touched'[u] = touched[u]
    BY <1>0, <2>4, <2>6, <2>7 DEF NewFoldersOK, Touches
  <2>8. CASE view'[u] = NoTree \/ (view'[u] = tree /\ tree' = tree)
    <3>1. New(u) \subseteq Node /\ \A n \in New(u) : tree[n] = Absent
      BY <1>0, NewApart DEF TxInv, NewInv
    <3>2. \A n \in Node : view'[u][n].parent \notin New(u)
      BY <2>4, <2>5, <2>8
    <3>3. \A n \in New(u) : view'[u][n] = Absent
      BY <2>5, <2>8, <3>1
    <3>4. \A loop \in SUBSET New(u) : loop # {} => \E n \in loop : view'[u][n].parent \notin loop
      BY <3>1, <3>2
    <3> QED BY <2>4, <2>6, <3>2, <3>3, <3>4 DEF NewFoldersOK
  <2> QED BY <2>1, <2>2, <2>7, <2>8
<1> QED BY <1>1, <1>2

\* What u has moved may still go there, after any step of s.
LEMMA GoneStep ==
  ASSUME OneMover, GInv, FolderInv, NEW s \in Session, Shape(s), NEW u \in Session, ~Ended(u)
  PROVE  GoneOK(u)'
<1>0. TypeOK /\ LocalInv /\ TxInv /\ GoneOK(u)
  BY DEF GInv, FolderInv
<1>1. CASE touched'[u] = {}
  BY <1>1 DEF GoneOK
<1>2. CASE view'[u] = view[u] /\ touched'[u] = touched[u]
  <2>1. \A n, p : MayGo(n, p) => MayGo(n, p)'
    BY TreeStep
  <2>2. ASSUME NEW n \in Node \ New(u), <<n, "link">> \in touched'[u]
        PROVE  \E p : view'[u][n].parent = p /\ (p = NoNode \/ MayGo(n, p)')
    BY <1>0, <1>2, <2>1, <2>2 DEF GoneOK
  <2> QED BY <2>2 DEF GoneOK
<1>3. CASE u = s /\ Stores(s)
  BY <1>0, <1>3, StoreGone
<1>4. CASE u = s /\ Snapshot(s)
  <2>1. touched'[u] = {}
    BY <1>0, <1>4 DEF Snapshot, TxInv, TouchedInv
  <2> QED BY <1>1, <2>1
<1> QED BY <1>0, <1>1, <1>2, <1>3, <1>4, OthersKept, ActorKept

\* What a transaction that is not open sees, nothing, is plain.
LEMMA NoTreePlain ==
  PlainOK(NoTree) /\ \A u \in Session : \A n \in Node : NoTree[n].parent \notin New(u)
<1>1. OldNode \subseteq Node /\ Fixed \subseteq OldNode /\ \A n \in Node : NoTree[n] = Absent
  BY DEF Fixed, Node, NoTree
<1>2. ~IsFile(NoNode) /\ Absent.parent = NoNode /\ Absent.kind = "none"
  BY NodeAssumption, EntryType DEF IsFile, Node
<1>3. \A u \in Session : NoNode \notin New(u)
  BY NewApart, NodeAssumption
<1> QED BY <1>1, <1>2, <1>3 DEF PlainOK

\* What the transactions see is plain, after any step of s.
LEMMA ViewPlainStep ==
  ASSUME GInv, FolderInv, NEW s \in Session, Shape(s), NEW u \in Session
  PROVE  PlainOK(view'[u])
<1>0. TypeOK /\ LocalInv /\ TxInv /\ PlainOK(view[u]) /\ PlainOK(tree)
  BY DEF GInv, FolderInv
<1>1. CASE u # s
  BY <1>0, <1>1, OthersKept
<1>2. CASE u = s /\ Stores(s)
  BY <1>2, StorePlain
<1>3. CASE u = s /\ ~Stores(s)
  BY <1>0, <1>3, NoTreePlain, ActorKept DEF Snapshot, TypeOK
<1> QED BY <1>1, <1>2, <1>3
-----------------------------------------------------------------------------
\* The steps of the upload handlers are steps of uploads.
LEMMA UploadsUpload ==
  ASSUME GInv, NEW s \in Session, UploadStep(s)
  PROVE  Uploads(s)
<1>0. TypeOK /\ TodoOK(s) /\ StageOK(s)
  BY DEF GInv, LocalInv
<1>1. CASE CheckUpload(s)
  BY <1>1 DEF CheckUpload
<1>2. CASE InsertFolder(s)
  BY <1>0, <1>2, ChangeParts DEF InsertFolder, Writes, StageOK, Ended
<1>3. CASE PutIntoFolder(s) \/ PutById(s) \/ HoldFirstMissing(s) \/ BeginPath(s)
  BY <1>0, <1>3, ChangeParts DEF PutIntoFolder, PutById, HoldFirstMissing, BeginPath, StageOK, Ended
<1>4. CASE Hold(s) \/ Walk(s) \/ WalkFails(s) \/ CheckFolder(s)
  BY <1>0, <1>4, ChangeParts DEF Hold, Walk, WalkFails, CheckFolder, StageOK, Ended
<1> QED BY <1>1, <1>2, <1>3, <1>4 DEF UploadStep

\* A request that is about to change an entry has just read it, has taken the next of its
\* checks, or is where it was.
LEMMA GoingKinds ==
  ASSUME GInv, NEW s \in Session, UploadStep(s) \/ MutationStep(s) \/ RequestStep(s) \/ TxLimitAbort(s),
         pc'[s] \in Following, ~Uploads(s)
  PROVE  \/ Create(s) \/ Update(s) \/ Visible(s) \/ NotBelowItself(s)
         \/ /\ pc[s] \in Following
            /\ \/ pc'[s] = pc[s]
               \/ pc[s] \in {"grant", "share", "check"} /\ pc'[s] \in {"share", "check", "update"}
            /\ UNCHANGED <<todo, target, place>>
<1> DEFINE Goal ==
      \/ Create(s) \/ Update(s) \/ Visible(s) \/ NotBelowItself(s)
      \/ /\ pc[s] \in Following
         /\ \/ pc'[s] = pc[s]
            \/ pc[s] \in {"grant", "share", "check"} /\ pc'[s] \in {"share", "check", "update"}
         /\ UNCHANGED <<todo, target, place>>
<1>0. TypeOK /\ pc \in [Session -> PC] /\ ~UploadStep(s)
  BY UploadsUpload DEF GInv, TypeOK
<1>1. CASE Create(s) \/ Update(s) \/ Visible(s) \/ NotBelowItself(s)
  BY <1>1
<1>2. ~BeginMutation(s) /\ ~Delete(s) /\ ~NextChange(s)
  BY <1>0 DEF BeginMutation, Delete, NextChange, Goto, Following
<1>3. ~UpdateEntry(s) /\ ~Erase(s) /\ ~Insert(s) /\ ~Replace(s)
  BY <1>0 DEF UpdateEntry, Erase, Insert, Replace, Goto, Following
<1>4. ~LockFails(s) /\ ~WriteFails(s) /\ ~SessionFails(s) /\ ~Commit(s) /\ ~Finish(s)
  BY <1>0 DEF LockFails, WriteFails, SessionFails, Commit, Finish, Fail, Goto, Following
<1>5. CASE CheckName(s)
  BY <1>0, <1>5 DEF CheckName, Fail, Goto, Following, changeVars
<1>6. CASE GrantName(s) \/ ShareName(s)
  BY <1>0, <1>6 DEF GrantName, ShareName, Goto, Following, changeVars
<1>7. CASE Snapshot(s) \/ TxLimitAbort(s)
  BY <1>0, <1>7 DEF Snapshot, TxLimitAbort, changeVars
<1>8. \A k \in owned[s] : ~ReleaseName(s, k)
  BY DEF ReleaseName, Following
<1> QED BY <1>0, <1>1, <1>2, <1>3, <1>4, <1>5, <1>6, <1>7, <1>8 DEF MutationStep, RequestStep

\* What the handler of a move knows at its target: the walk over the ancestors has not
\* met the folder that is moved, or there is no such folder.
LEMMA GoingStep ==
  ASSUME GInv, GInv', FolderInv, NEW s \in Session,
         UploadStep(s) \/ MutationStep(s) \/ RequestStep(s) \/ TxLimitAbort(s)
  PROVE  GoingOK(s)'
<1> DEFINE c == Change(s)
<1>0. /\ TypeOK /\ LocalInv /\ TxInv /\ TodoOK(s) /\ StageOK(s)
      /\ PlainOK(tree) /\ PlainOK(view[s]) /\ (~Ended(s) => GoingOK(s))
  BY DEF GInv, FolderInv, LocalInv
<1>1. TypeOK' /\ TodoOK(s)' /\ asked' = asked
  BY GInvRequestStep DEF GInv, LocalInv, Alone
<1> SUFFICES ASSUME pc'[s] \in Following, IsMove(Change(s))' PROVE GoingOK(s)'
  BY DEF GoingOK
<1>2. ~Uploads(s)
  <2>1. ~Ended(s)' /\ Change(s)'.op = "update"
    BY DEF Following, Ended, IsMove
  <2>2. asked[s] \in Request
    BY <1>0 DEF TypeOK
  <2>3. Uploads(s)' => Change(s)'.op = asked[s][1].op
    BY <1>1, <2>1 DEF TodoOK
  <2>4. Uploads(s)' => asked[s][1].op \in {"put", "putPath", "putById"}
    BY <1>1, <2>2, RequestType DEF Uploads
  <2> QED BY <1>1, <2>1, <2>3, <2>4 DEF Uploads
<1>3. CASE Create(s)
  <2>1. todo' = todo /\ Change(s).op = "create"
    BY <1>3 DEF Create
  <2> QED BY <2>1 DEF Change, IsMove
<1> DEFINE Knows(pc2, target2, place2) ==
      /\ target2 = {c.id}
      /\ pc2 # "update" => place2 = c.to
      /\ pc2 = "ancestors" => ~IsFile(c.to)
      /\ pc2 \in {"grant", "share", "check", "update"} => tree[c.id] = Absent \/ MayGo(c.id, c.to)
<1>4. ASSUME tree' = tree, todo' = todo, Knows(pc'[s], target'[s], place'[s]) PROVE GoingOK(s)'
  BY <1>4 DEF GoingOK, Change, MayGo
<1>5. ASSUME todo' = todo PROVE IsMove(c)
  BY <1>5 DEF Change, IsMove
<1>6. c \in Changes \/ Ended(s)
  BY <1>0, <1>2, FieldChange
<1>7. CASE Update(s)
  <2>1. ~Ended(s) /\ tree' = tree /\ todo' = todo
    BY <1>7 DEF Update, Ended, Lock, Fail, vars
  <2>2. IsMove(c)
    BY <1>5, <2>1
  <2>3. Knows(pc'[s], target'[s], place'[s])
    BY <1>0, <1>7, <2>2 DEF Update, Lock, Fail, Goto, Following, IsMove, TypeOK
  <2> HIDE DEF Knows
  <2> QED BY <1>4, <2>1, <2>3
<1>8. CASE Visible(s)
  <2>1. /\ ~Ended(s) /\ tree' = tree /\ todo' = todo /\ target' = target /\ pc[s] \in Following
        /\ IsFolder(view[s], place[s]) /\ place'[s] = place[s]
        /\ \/ pc'[s] = "ancestors"
           \/ pc'[s] \in {"grant", "check"} /\ ~(c.op = "update" /\ \A n \in target[s] : tree[n].kind = "folder")
    BY <1>0, <1>8 DEF Visible, Ended, Lock, Fail, Goto, Following, TypeOK
  <2>2. IsMove(c) /\ target[s] = {c.id} /\ place[s] = c.to
    BY <1>0, <1>5, <1>8, <2>1 DEF GoingOK, Visible
  <2>3. ~IsFile(c.to)
    BY <1>0, <2>1, <2>2 DEF IsFolder, PlainOK, IsFile
  <2>4. pc'[s] # "ancestors" => tree[c.id] = Absent \/ IsFile(c.id)
    <3>1. c.id \in OldNode /\ c.id \in Node
      BY <1>6, <2>1, <2>2, MoveType
    <3>2. tree[c.id] \in Entry /\ tree[c.id].kind \in {Initial[c.id].kind, "none"}
      BY <1>0, <3>1 DEF TypeOK, PlainOK
    <3> QED BY <2>1, <2>2, <3>1, <3>2, EntryType DEF IsMove, IsFile
  <2>5. Knows(pc'[s], target'[s], place'[s])
    BY <1>6, <2>1, <2>2, <2>3, <2>4 DEF MayGo
  <2> HIDE DEF Knows
  <2> QED BY <1>4, <2>1, <2>5
<1>9. CASE NotBelowItself(s)
  <2>1. /\ ~Ended(s) /\ tree' = tree /\ todo' = todo /\ target' = target /\ pc[s] \in Following
        /\ target[s] \cap Above(tree, place[s]) = {} /\ place'[s] = place[s] /\ pc'[s] \in {"grant", "check"}
    BY <1>0, <1>9 DEF NotBelowItself, Ended, Lock, Fail, Goto, Following, TypeOK
  <2>2. IsMove(c) /\ target[s] = {c.id} /\ place[s] = c.to /\ ~IsFile(c.to)
    BY <1>0, <1>5, <1>9, <2>1 DEF GoingOK, NotBelowItself
  <2>3. MayGo(c.id, c.to)
    BY <1>6, <2>1, <2>2 DEF MayGo
  <2>4. Knows(pc'[s], target'[s], place'[s])
    BY <2>1, <2>2, <2>3
  <2> HIDE DEF Knows
  <2> QED BY <1>4, <2>1, <2>4
<1>10. CASE /\ pc[s] \in Following
            /\ \/ pc'[s] = pc[s]
               \/ pc[s] \in {"grant", "share", "check"} /\ pc'[s] \in {"share", "check", "update"}
            /\ UNCHANGED <<todo, target, place>>
  <2>1. ~Ended(s) /\ pc'[s] # "next" /\ pc'[s] # "release"
    BY <1>10 DEF Following, Ended
  <2>2. tree' = tree
    BY <1>0, <2>1, ActorKept, GInvRequestStep DEF Snapshot, Stores, Commits
  <2>3. IsMove(c)
    BY <1>5, <1>10
  <2>4. Knows(pc[s], target[s], place[s])
    BY <1>0, <1>10, <2>1, <2>3 DEF GoingOK
  <2>5. Knows(pc'[s], target'[s], place'[s])
    BY <1>10, <2>4
  <2> HIDE DEF Knows
  <2> QED BY <1>4, <1>10, <2>2, <2>5
<1> QED BY <1>2, <1>3, <1>7, <1>8, <1>9, <1>10, GoingKinds

\* What another request knows of the move it is about to make survives a step of s.
LEMMA GoingOthers ==
  ASSUME OneMover, GInv, FolderInv, NEW s \in Session, Shape(s), Alone(s), NEW u \in Session, u # s, ~Ended(u)
  PROVE  GoingOK(u)'
<1> DEFINE c == Change(u)
<1>0. TypeOK /\ TodoOK(u) /\ GoingOK(u)
  BY DEF GInv, FolderInv, LocalInv
<1>1. pc'[u] = pc[u] /\ target'[u] = target[u] /\ place'[u] = place[u] /\ Change(u)' = c
  BY DEF Alone, Change
<1>2. \A n, p : MayGo(n, p) => MayGo(n, p)'
  BY TreeStep
<1>3. ASSUME IsMove(c), tree[c.id] = Absent PROVE tree'[c.id] = Absent
  <2>1. c.id \in OldNode
    BY <1>0, <1>3, ChangeParts DEF IsMove
  <2> QED BY <1>3, <2>1, TreeStep
<1>4. ASSUME IsMove(c), tree[c.id] = Absent \/ MayGo(c.id, c.to)
      PROVE  \E n, p : n = c.id /\ p = c.to /\ (tree'[n] = Absent \/ MayGo(n, p)')
  BY <1>2, <1>3, <1>4
<1> HIDE DEF c
<1> QED BY <1>0, <1>1, <1>4 DEF GoingOK, c

\* Every step of a request keeps the folders a tree.
LEMMA FolderRequestStep ==
  ASSUME OneMover, GInv, FolderInv, NEW s \in Session,
         UploadStep(s) \/ MutationStep(s) \/ RequestStep(s) \/ TxLimitAbort(s)
  PROVE  FolderInv'
<1>0. GInv' /\ Alone(s) /\ Shape(s) /\ TypeOK /\ LocalInv
  BY GInvRequestStep DEF GInv
<1>1. PlainOK(tree)' /\ NoFolderCycle'
  BY <1>0, TreeStep DEF NoFolderCycle
<1>2. \A u \in Session : PlainOK(view[u])'
  BY <1>0, ViewPlainStep
<1>3. ASSUME NEW u \in Session, ~Ended(u)' PROVE NewFoldersOK(u)' /\ GoingOK(u)' /\ GoneOK(u)'
  <2>1. ~Ended(u)
    <3>1. CASE u = s
      BY <1>0, <1>3, <3>1, TargetStep
    <3>2. CASE u # s
      BY <1>0, <1>3, <3>2 DEF Alone, Ended
    <3> QED BY <3>1, <3>2
  <2>2. u # s \/ ~Commits(s)
    BY <1>3 DEF Commits, Ended
  <2>3. GoingOK(u)'
    BY <1>0, <2>1, GoingStep, GoingOthers
  <2> QED BY <1>0, <2>1, <2>2, <2>3, NewFoldersStep, GoneStep
<1> QED BY <1>1, <1>2, <1>3 DEF FolderInv

\* So does the crash of a replica: what its requests had not committed is gone.
LEMMA FolderCrash ==
  ASSUME GInv, FolderInv, NEW r, Crash(r)
  PROVE  FolderInv'
<1> DEFINE dying == {s \in Session : ReplicaOf[s] = r /\ pc[s] \notin {"start", "done"}}
<1>0. TypeOK /\ tree' = tree
  BY DEF GInv, Crash
<1>1. ASSUME NEW t \in Session \ dying
      PROVE  /\ pc'[t] = pc[t] /\ todo'[t] = todo[t] /\ place'[t] = place[t]
             /\ target'[t] = target[t] /\ view'[t] = view[t] /\ touched'[t] = touched[t]
  BY <1>0, <1>1 DEF Crash, Forget, TypeOK
<1>2. ASSUME NEW t \in dying PROVE pc'[t] = "done" /\ view'[t] = NoTree
  BY <1>0, <1>2 DEF Crash, TypeOK
<1>3. PlainOK(NoTree) /\ \A u \in Session : \A n \in Node : NoTree[n].parent \notin New(u)
  BY NoTreePlain
<1>4. PlainOK(tree)' /\ NoFolderCycle'
  BY <1>0 DEF FolderInv, NoFolderCycle
<1>5. \A u \in Session : PlainOK(view[u])'
  BY <1>1, <1>2, <1>3 DEF FolderInv
<1>6. ASSUME NEW u \in Session, ~Ended(u)' PROVE NewFoldersOK(u)' /\ GoingOK(u)' /\ GoneOK(u)'
  <2>1. u \in Session \ dying
    BY <1>2, <1>6 DEF Ended
  <2>2. ~Ended(u)
    BY <1>1, <1>6, <2>1 DEF Ended
  <2>3. NewFoldersOK(u) /\ GoingOK(u) /\ GoneOK(u)
    BY <2>2 DEF FolderInv
  <2>4. \A t \in Session \ {u} : \A n \in Node : view'[t][n].parent \notin New(u)
    BY <1>1, <1>2, <1>3, <2>3 DEF NewFoldersOK
  <2>5. NewFoldersOK(u)'
    BY <1>0, <1>1, <2>1, <2>3, <2>4 DEF NewFoldersOK, Touches
  <2>6. GoingOK(u)' /\ GoneOK(u)'
    BY <1>0, <1>1, <2>1, <2>3 DEF GoingOK, GoneOK, MayGo, Change
  <2> QED BY <2>5, <2>6
<1> QED BY <1>4, <1>5, <1>6 DEF FolderInv

\* The folders that there are at the start form trees.
LEMMA FolderInit ==
  ASSUME Init
  PROVE  FolderInv
<1>0. /\ tree = FirstTree /\ \A s \in Session : view[s] = NoTree /\ touched[s] = {} /\ pc[s] = "start"
      /\ OldNode \subseteq Node /\ Fixed \subseteq OldNode
  BY DEF Init, Fixed, Node
<1>1. /\ ~IsFile(NoNode) /\ NoNode \notin Node /\ Absent.parent = NoNode /\ Absent.kind = "none"
      /\ \A u \in Session : NoNode \notin New(u) /\ New(u) \cap OldNode = {}
  BY NodeAssumption, NewApart, EntryType DEF IsFile, Node
<1>2. \A n \in Node : /\ NoTree[n] = Absent
                      /\ FirstTree[n] = IF n \in OldNode THEN Initial[n] ELSE Absent
                      /\ FirstTree[n].parent \in OldNode \cup {NoNode} /\ ~IsFile(FirstTree[n].parent)
  BY <1>1, FirstTreeAssumption DEF NoTree, FirstTree, IsFile
<1>3. PlainOK(tree) /\ \A s \in Session : PlainOK(view[s])
  BY <1>0, <1>1, <1>2 DEF PlainOK
<1>4. NoFolderCycle
  <2> SUFFICES ASSUME NEW loop \in SUBSET {n \in Node : FirstTree[n].parent # NoNode}, loop # {}
               PROVE  \E n \in loop : FirstTree[n].parent \notin loop
    BY <1>0 DEF NoFolderCycle, Acyclic
  <2>1. loop \in SUBSET OldNode
    BY <1>1, <1>2
  <2> QED BY <1>0, <1>2, <2>1, FirstTreeAssumption
<1>5. ASSUME NEW s \in Session PROVE NewFoldersOK(s) /\ GoingOK(s) /\ GoneOK(s)
  <2>1. NewFoldersOK(s)
    <3>1. \A n \in Node : tree[n].parent \notin New(s) /\ \A t \in Session : view[t][n].parent \notin New(s)
      BY <1>0, <1>1, <1>2
    <3>2. New(s) \subseteq Node /\ \A n \in New(s) : view[s][n] = Absent
      BY <1>0, <1>2, NewApart
    <3>3. \A loop \in SUBSET New(s) : loop # {} => \E n \in loop : view[s][n].parent \notin loop
      BY <3>1, <3>2
    <3> QED BY <3>1, <3>2, <3>3 DEF NewFoldersOK
  <2>2. GoingOK(s) /\ GoneOK(s)
    BY <1>0 DEF GoingOK, GoneOK, Following
  <2> QED BY <2>1, <2>2
<1> QED BY <1>3, <1>4, <1>5 DEF FolderInv

\* Every step keeps the folders a tree, where one folder alone is moved.
LEMMA FolderStep ==
  ASSUME OneMover, GInv, FolderInv, [Next]_vars
  PROVE  FolderInv'
<1>1. CASE \E s \in Session : UploadStep(s) \/ MutationStep(s) \/ RequestStep(s) \/ TxLimitAbort(s)
  BY <1>1, FolderRequestStep
<1>2. CASE \E s \in Session : Crash(ReplicaOf[s])
  BY <1>2, FolderCrash
<1>3. CASE UNCHANGED vars
  <2>1. UNCHANGED <<tree, asked, todo, pc, place, name, target, view, begun, touched, stale>>
    BY <1>3 DEF vars, changeVars, txVars
  <2>2. PlainOK(tree)' /\ NoFolderCycle' /\ \A s \in Session : PlainOK(view[s])'
    BY <2>1 DEF FolderInv, NoFolderCycle
  <2>3. \A s \in Session : ~Ended(s)' => NewFoldersOK(s)' /\ GoingOK(s)' /\ GoneOK(s)'
    BY <2>1 DEF FolderInv, Ended, NewFoldersOK, GoingOK, GoneOK, MayGo, Change, Touches
  <2> QED BY <2>2, <2>3 DEF FolderInv
<1> QED BY <1>1, <1>2, <1>3, StepKinds

\* Where one folder alone is moved to where moved folders may be above it, the invariant
\* behind NoFolderCycle holds: files hold nothing, what a transaction has moved may still
\* go there when it commits, and nobody puts anything into the new folders of another.
THEOREM FolderInvariance ==
  ASSUME OneMover
  PROVE  Spec => []FolderInv
<1>1. Init => GInv /\ FolderInv
  BY GInvInit, FolderInit
<1>2. (GInv /\ FolderInv) /\ [Next]_vars => (GInv /\ FolderInv)'
  BY GInvStep, FolderStep
<1> QED BY <1>1, <1>2, PTL DEF Spec

\* "A folder cannot move into itself or below itself": the committed folders form trees
\* after every move, upload and delete, with crashes and aborted transactions, as long as
\* one folder alone is moved below folders that may be moved.
THEOREM FoldersStayTrees ==
  ASSUME OneMover
  PROVE  Spec => []NoFolderCycle
<1>1. FolderInv => NoFolderCycle
  BY DEF FolderInv
<1> QED BY <1>1, FolderInvariance, PTL
=============================================================================
