\* Two concurrent requests, any number after another, about two tenants; room for one schema.
SPECIFICATION FairSpec
CONSTANTS
  Request = {r1, r2}
  Tenant = {t1, t2}
  None = None
  CacheLimit = 1
  MaxVersion = 1
INVARIANTS TypeOK BuildsOnce AnswersKnown StaleIsAnnounced
PROPERTIES RequestEnds
