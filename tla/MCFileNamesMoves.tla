-------------------------- MODULE MCFileNamesMoves ---------------------------
(* Requests that are steady: the inductive invariant behind UniqueNames, and *)
(* the tree of folders.                                                      *)
EXTENDS MCFileNames, FileNamesInv

\* An upload, a move and a rename lead to the name y in Root; P and Y may get below
\* each other; X gets new content or goes.
Moves ==
  {Put(Root, y, "fail"), <<Move(Y, P, Root)>>, <<Rename(Q, y), Removal(X)>>,
   <<Move(P, Root, Y)>>, Content(X)}

ASSUME MovesAreSteady == Steady
ASSUME OneFolderMoves == OneMover
=============================================================================
