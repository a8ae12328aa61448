SPECIFICATION Spec
CONSTANTS
  f1 = f1
  None = None
  Files <- MCFiles
  FileOf <- MCFileOf
  Attempts = {a1}
  Workers = {w1, w2}
  Callers = {c1, c2}
  MaxRetries = 2
  MaxDispatchAttempts = 3
  MaxGen = 3
  AccurateLeases = FALSE
  Requests = {"upload", "delete"}
  InSubject = {f1}
  FaultKinds = {"redis", "api", "crash", "ack", "throw", "worker", "stall"}
  MaxFaults = 2
SYMMETRY Symmetry
CHECK_DEADLOCK FALSE
INVARIANTS TypeOK FencingTokens PublicationConsistent
PROPERTIES NewestWorkerPublishes ImplementsFencedWork
