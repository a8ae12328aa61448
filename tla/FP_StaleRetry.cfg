SPECIFICATION Spec
CONSTANTS
  f1 = f1
  None = None
  Files <- MCFiles
  FileOf <- MCFileOf
  Attempts = {a1}
  Workers = {w1, w2}
  Callers = {c1}
  MaxRetries = 2
  MaxDispatchAttempts = 2
  MaxGen = 2
  AccurateLeases = FALSE
  Requests = {"upload"}
  InSubject = {}
  FaultKinds = {"stall"}
  MaxFaults = 1
CHECK_DEADLOCK FALSE
PROPERTY StaleWorkerIsHarmless
