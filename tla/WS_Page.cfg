SPECIFICATION FairSpec
CONSTANTS
  None = None
  Users = {ann, bob}
  Returning = {ann}
  Calls = {c1, c2}
  Checks = {c1}
  Streams = {c2}
  MaxActs = 2
  FaultKinds = {"lose", "revoke", "deactivate"}
  MaxFaults = 1
CHECK_DEADLOCK FALSE
INVARIANTS TypeOK ShowsTokenOwner OutcomeIsTrue
PROPERTIES LoadingEnds CallsSettle
