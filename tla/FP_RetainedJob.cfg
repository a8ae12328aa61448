SPECIFICATION FairSpec
CONSTANTS
  f1 = f1
  None = None
  Files <- MCFiles
  FileOf <- MCFileOf
  Attempts = {a1}
  Workers = {w1, w2}
  Callers = {c1}
  MaxRetries = 1
  MaxDispatchAttempts = 3
  MaxGen = 5
  AccurateLeases = TRUE
  Requests = {"upload"}
  InSubject = {}
  FaultKinds = {"throw"}
  MaxFaults = 1
CHECK_DEADLOCK FALSE
PROPERTY AttemptTerminates
