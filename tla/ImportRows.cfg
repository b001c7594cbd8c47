SPECIFICATION Spec
CONSTANTS
  Null = Null
  Zones <- MCZones
  MaxRows = 2
INVARIANTS
  StoredDocsSatisfySchema
  LastRowOfAKeyIsStored
  PlainCellsKeepTheirValue
CHECK_DEADLOCK FALSE
