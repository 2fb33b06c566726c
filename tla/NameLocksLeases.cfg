\* Two requests of one replica and one of another contend for one lease; a delete may throw.
SPECIFICATION Spec
CONSTANTS
  s1 = s1
  s2 = s2
  s3 = s3
  r1 = r1
  r2 = r2
  Nobody = Nobody
  NoKey = NoKey
  Session = {s1, s2, s3}
  ReplicaOf <- TwoAndOne
  Key = {1}
  StartLimit = 1
  TxLimit = 1
  LeaseLimit = 2
  MaxCalls = 1
  LeaseStore = TRUE
  StoreThrows = TRUE
SYMMETRY Neighbours12
INVARIANTS LeaseExclusion
