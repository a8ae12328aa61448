SPECIFICATION FairSpec
CONSTANTS
  None = None
  Plans = {pro}
  MaxSubs = 2
  Calls = {c1, c2}
  MaxEvents = 5
  MaxCustomers = 2
  MaxHandlers = 2
  FaultKinds = {"throw", "call"}
  MaxFaults = 1
CHECK_DEADLOCK FALSE
INVARIANTS TypeOK Converges PaymentRecorded
PROPERTY EventsAcknowledged
