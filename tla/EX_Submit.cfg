SPECIFICATION CreationFairSpec
CONSTANTS
  None = None
  Exams = {e1, e2}
  Questions = {q1}
  Submitters = {r1, r2}
  MaxVersion = 3
  Overrides = TRUE
  FaultKinds = {"lease", "throw", "commit", "api", "generate"}
  MaxFaults = 2
  Asked = {2, 4}
  Limit = 3
  MaxMonth = 1
  MaxGenerated = 3
CHECK_DEADLOCK FALSE
INVARIANTS TypeOK OwnerIsLocked ScoreOfStoredAnswers RewardedOnce CreationTypeOK CapacityCoversExams
PROPERTIES ImplementsFencedWork ExamCompletes
