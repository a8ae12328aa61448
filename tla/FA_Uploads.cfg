SPECIFICATION Spec
CONSTANTS
  None = None
  Requests = {r1, r2, r3}
  Uploads = {u1}
  LastChunk = 1
  Files = {f0, f1, f2, f3}
  OldFiles = {f0}
  Limit = 2
  FaultKinds = {"resend", "refuse", "store", "commit", "lose", "billing"}
  MaxFaults = 2
SYMMETRY Symmetry
CHECK_DEADLOCK FALSE
INVARIANTS TypeOK FilesWereSent FileIsReadable WithinUploadLimit NothingIsLeft
