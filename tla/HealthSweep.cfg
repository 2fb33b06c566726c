\* Two tenants that change at any time.
SPECIFICATION FairSpec
CONSTANTS
  Tenant = {t1, t2}
  None = None
  Window = 1
  Status <- Statuses
INVARIANTS TypeOK SteadyIsExported FaultsAreObserved
PROPERTIES FreshIsSwept StableIsExported
