SPECIFICATION FairSpec
CONSTANTS
  None = None
  Requests = {r1, r2}
  Sweepers = {s1, s2}
  Cost = 2
  Quota = 3
  MaxDay = 2
  FaultKinds = {"resend", "redis", "api"}
  MaxFaults = 2
CHECK_DEADLOCK FALSE
INVARIANTS TypeOK LedgerBalances WithinQuota ChargeFollowsService
PROPERTY ReservationResolves
