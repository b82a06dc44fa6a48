SPECIFICATION Spec
CONSTANTS
  w1 = w1
  WO <- OneWorkOrder
  Emergency <- NoEmergency
  InitStock = 1
  MaxQty = 2
  MaxStock = 2
  MaxLines = 2
  MaxReports = 2
  MaxLegacy = 1
CONSTRAINT OneRequestOrSingleUnits
CHECK_DEADLOCK FALSE
INVARIANTS
  TypeOK
  BooksBalance
  RefusedHoldsNothing
  NoOrphanPartBlocker
PROPERTIES
  AllocationIsBacked
  UnitsConserved
  ShortageFollowsTable
