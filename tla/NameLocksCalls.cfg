\* Two requests of one replica, two calls each: they may wait for each other.
SPECIFICATION FairSpec
CONSTANTS
  s1 = s1
  s2 = s2
  s3 = s3
  r1 = r1
  r2 = r2
  Nobody = Nobody
  NoKey = NoKey
  Session = {s1, s2}
  ReplicaOf <- OneReplica
  Key = {1, 2}
  StartLimit = 0
  TxLimit = 0
  LeaseLimit = 0
  MaxCalls = 2
  LeaseStore = FALSE
  StoreThrows = FALSE
PROPERTIES RequestEnds
