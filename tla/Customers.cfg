SPECIFICATION ObservedSpec
CONSTANTS
  Clients = {c1, c2}
  Ids = {i1, i2}
  Emails = {e1, e2}
  None = None
  MaxWrites = 2
  MaxImports = 1
SYMMETRY Symmetry
INVARIANTS
  TypeOK
  TagTellsWrites
PROPERTIES
  IfMatchLosesNoWrite
  ErrorsWereTrue
CHECK_DEADLOCK FALSE
