\* Three calls with one key, two on one replica; the clock of the other is ahead.
SPECIFICATION Spec
CONSTANTS
  c1 = c1
  c2 = c2
  c3 = c3
  r1 = r1
  r2 = r2
  Nobody = Nobody
  Call = {c1, c2, c3}
  ReplicaOf <- TwoAndOne
  Skew <- SecondAhead
  MaxSkew = 1
  ServerSkew = 1
  Ttl = 3
  OpTimeout = 1
  MaxAttempts = 2
  MaxTime = 3
SYMMETRY Alike12
INVARIANTS TypeOK OneRunPerLifetime ResponseOfFirst InFlightRemembered AuditedOnce
PROPERTIES ResultStands
