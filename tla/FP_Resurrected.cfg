SPECIFICATION Spec
CONSTANTS
  f1 = f1
  None = None
  Files <- MCFiles
  FileOf <- MCFileOf
  Attempts = {a1}
  Workers = {w1, w2}
  Callers = {c1, c2}
  MaxRetries = 1
  MaxDispatchAttempts = 2
  MaxGen = 2
  AccurateLeases = FALSE
  Requests = {"upload"}
  InSubject = {}
  FaultKinds = {}
  MaxFaults = 0
CHECK_DEADLOCK FALSE
PROPERTY TerminalIsFinal
