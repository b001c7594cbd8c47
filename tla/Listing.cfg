SPECIFICATION Spec
CONSTANTS
  Customers = {a, b, c}
  SortValues <- MCSortValues
  MAX_PAGE_SIZE = 2
  None = None
  MaxWrites = 2
SYMMETRY Symmetry
INVARIANTS
  TypeOK
  QuietWalkIsExact
  CreationsHideNothing
  MetaAgrees
CHECK_DEADLOCK FALSE
