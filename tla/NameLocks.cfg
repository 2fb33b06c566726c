\* Two requests of one replica, one call each for one or both names, with leases.
SPECIFICATION Spec
CONSTANTS
  s1 = s1
  s2 = s2
  s3 = s3
  r1 = r1
  r2 = r2
  Nobody = Nobody
  NoKey = NoKey
  Session = {s1, s2}
  ReplicaOf <- OneReplica
  Key = {1, 2}
  StartLimit = 0
  TxLimit = 1
  LeaseLimit = 1
  MaxCalls = 1
  LeaseStore = TRUE
  StoreThrows = FALSE
INVARIANTS TypeOK SlotAccounting InProcessExclusion NothingLeftBehind WaitsAreOrdered
PROPERTIES PromiseKept
