\* Uploads, creates, renames and deletes in one folder, on one replica.
SPECIFICATION Spec
CONSTANTS
  s1 = s1
  s2 = s2
  s3 = s3
  r1 = r1
  r2 = r2
  Root = Root
  P = P
  Q = Q
  X = X
  Y = Y
  NoNode = NoNode
  NoName = NoName
  Session = {s1, s2, s3}
  ReplicaOf <- OneReplica
  OldNode = {Root, P, Q, X}
  Stem = {"a", "b", "c", "p", "q"}
  MaxCopy = 1
  MaxNew = 2
  Initial <- Tree
  Request <- Names
SYMMETRY AllAlike
INVARIANTS UniqueNames
