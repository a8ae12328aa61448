SPECIFICATION Spec
CONSTANTS
  f1 = f1
  None = None
  Files <- MCFiles
  FileOf <- MCFileOf
  Attempts = {a1, a2, a3}
  Workers = {w1, w2}
  Callers = {c1, c2}
  MaxRetries = 2
  MaxDispatchAttempts = 2
  MaxGen = 3
  AccurateLeases = TRUE
  Requests = {"upload", "reprocess"}
  InSubject = {}
  FaultKinds = {"api", "ack", "worker"}
  MaxFaults = 2
SYMMETRY Symmetry
CHECK_DEADLOCK FALSE
INVARIANTS OneActiveAttempt PublicationConsistent WaitingFileIsOwned
PROPERTY OldAttemptNeverFailsFile
