SPECIFICATION Spec
CONSTANTS
  Jobs = {1}
  Workers = {w1}
  Files = {"upload-1.xlsx"}
  Uploads = {"upload-1.xlsx"}
  fileOf <- MCFileOf
  Keys = {"k1"}
  Invalid = Invalid
  rows <- MCRows
  None = None
  maxAttempts <- MCMaxAttempts
  MaxTries = 2
  MaxFaults = 1
INVARIANT UploadKeptForRetry
CHECK_DEADLOCK FALSE
