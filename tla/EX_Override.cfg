SPECIFICATION Spec
CONSTANTS
  None = None
  Exams = {e1}
  Questions = {q1}
  Submitters = {r1}
  MaxVersion = 1
  Overrides = TRUE
  FaultKinds = {}
  MaxFaults = 0
SYMMETRY Symmetry
CHECK_DEADLOCK FALSE
INVARIANT MarksFollowAnswers
