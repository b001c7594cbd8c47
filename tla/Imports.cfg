SPECIFICATION Spec
CONSTANTS
  Jobs = {1, 2}
  Workers = {w1, w2}
  Files = {"upload-1.xlsx", "data.xlsx"}
  Uploads = {"upload-1.xlsx"}
  fileOf <- MCFileOf
  Keys = {"k1", "k2"}
  Invalid = Invalid
  rows <- MCRows
  None = None
  maxAttempts <- MCMaxAttempts
  MaxTries = 2
  MaxFaults = 1
SYMMETRY Symmetry
INVARIANTS
  TypeOK
  SucceededIsStored
  LastRowPrevails
  SummariesAddUp
  LeftUploadsAreAccountedFor
CHECK_DEADLOCK FALSE
