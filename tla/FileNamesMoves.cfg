\* Moves, an upload, a rename with a delete, and new content, on two replicas.
SPECIFICATION Spec
CONSTANTS
  s1 = s1
  s2 = s2
  s3 = s3
  r1 = r1
  r2 = r2
  Root = Root
  P = P
  Q = Q
  X = X
  Y = Y
  NoNode = NoNode
  NoName = NoName
  Session = {s1, s2, s3}
  ReplicaOf <- TwoReplicas
  OldNode = {Root, P, Q, X, Y}
  Stem = {"a", "p", "q", "y"}
  MaxCopy = 0
  MaxNew = 1
  Initial <- Deep
  Request <- Moves
SYMMETRY Alike23
INVARIANTS IInv FolderInv NoFolderCycle
