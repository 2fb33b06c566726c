\* Two requests about one id: any two operations, at the same time or one after the other.
SPECIFICATION FairSpec
CONSTANTS
  Request = {1, 2}
  Old = Old
  Other = Other
  NoOne = NoOne
  Offered = {"create", "scratch", "attach", "detach", "delete", "rerun"}
  Tracked = TRUE
  RequeueRespects = TRUE
CHECK_DEADLOCK FALSE
INVARIANTS TypeOK RegisteredHasDatabase MarkerOfOwner LeftoverIsTombstoned
PROPERTIES OtherTenantUntouched TombstoneSettles
