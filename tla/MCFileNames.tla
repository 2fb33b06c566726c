---------------------------- MODULE MCFileNames -----------------------------
(* FileNames on small instances: one root, folders and a file. *)
EXTENDS FileNames, TLC

CONSTANTS s1, s2, s3, r1, r2, Root, P, Q, X, Y

OneReplica == [s \in Session |-> r1]
TwoReplicas == [s \in Session |-> IF s = s1 THEN r1 ELSE r2]

\* The requests of one replica are interchangeable.
AllAlike == Permutations({s1, s2, s3})
Alike23 == Permutations({s2, s3})

a == <<"a", 0>>
b == <<"b", 0>>
c == <<"c", 0>>
y == <<"y", 0>>
p == <<"p", 0>>
q == <<"q", 0>>

File(in, n) == [kind |-> "file", parent |-> in, name |-> n]
Folder(in, n) == [kind |-> "folder", parent |-> in, name |-> n]

\* Root holds the folders P and Q; P holds the file X, called a.
Tree == Root :> Folder(NoNode, p) @@ P :> Folder(Root, p) @@ Q :> Folder(Root, q)
        @@ X :> File(P, a)

\* The same, and P holds the folder Y, too.
Deep == Tree @@ Y :> Folder(P, y)

\* Root is empty.
Empty == Root :> Folder(NoNode, p)

Put(in, n, mode) == <<[op |-> "put", in |-> in, name |-> n, mode |-> mode]>>
Content(n) == <<[op |-> "putById", id |-> n]>>
PutPath(in, path, n, mode, create) ==
  <<[op |-> "putPath", in |-> in, path |-> path, name |-> n, mode |-> mode, create |-> create]>>
Insertion(in, n) == [op |-> "create", in |-> in, name |-> n, kind |-> "file"]
Rename(id, n) == [op |-> "update", id |-> id, name |-> n, from |-> NoNode, to |-> NoNode]
Move(id, from, to) == [op |-> "update", id |-> id, name |-> NoName, from |-> from, to |-> to]
Removal(id) == [op |-> "delete", id |-> id]

\* What names an entry of P without moving one; one request changes two entries, one
\* creates a folder of its path, one stores a copy there.
Names ==
  {Put(P, a, "replace"), <<Rename(X, b)>>, <<Rename(X, c), Insertion(P, a)>>, <<Removal(X)>>,
   PutPath(Root, <<b>>, a, "fail", TRUE), PutPath(Root, <<b>>, a, "keepBoth", FALSE)}

\* Two requests create the same missing folder.
NewFolder == {PutPath(Root, <<p>>, a, "fail", TRUE), PutPath(Root, <<p>>, b, "fail", TRUE)}

(***************************************************************************)
(* Combinations that break UniqueNames or, for Crossing, NoFolderCycle:    *)
(* values of Request for the configuration FileNames, without SYMMETRY.    *)
(***************************************************************************)

\* A copy gets a free name that nobody has locked.
KeepBoth == {Put(P, a, "keepBoth"), Put(P, <<"a", 1>>, "fail")}

\* The folder of the path is there when the request begins, so that no name is locked,
\* and gone when the path is walked: two requests create it again.
Vanishing == {PutPath(Root, <<q>>, a, "fail", TRUE), <<Removal(Q)>>}

\* A rename and a move of one file write different documents.
RenameAndMove == {<<Rename(X, b)>>, <<Move(X, P, Q)>>, Put(Q, b, "fail")}

\* An update that gives the unchanged name takes no lock.
UnchangedName == {<<Rename(X, a)>>, <<Rename(X, b)>>, Put(P, a, "fail")}

\* New content writes back the name the document had when it was read.
OldName == {Content(X), <<Rename(X, b)>>, Put(P, a, "fail")}

\* A second rename finds its name given and takes no lock, and the replacement of the
\* file takes the name away again: with four requests, Session = {s1, s2, s3, s4}.
Restored == {Put(P, a, "replace"), <<Rename(X, b)>>, Put(P, b, "fail")}

\* Two fields of one mutation create the same name.
Twice == {<<Insertion(P, b), Insertion(P, b)>>}

\* Two folders move into each other.
Crossing == {<<Move(P, Root, Q)>>, <<Move(Q, Root, P)>>}
=============================================================================
