\* Two replicas create the folders of a path.
SPECIFICATION Spec
CONSTANTS
  s1 = s1
  s2 = s2
  s3 = s3
  r1 = r1
  r2 = r2
  Root = Root
  P = P
  Q = Q
  X = X
  Y = Y
  NoNode = NoNode
  NoName = NoName
  Session = {s1, s2}
  ReplicaOf <- TwoReplicas
  OldNode = {Root}
  Stem = {"a", "b", "p"}
  MaxCopy = 0
  MaxNew = 2
  Initial <- Empty
  Request <- NewFolder
INVARIANTS UniqueNames
