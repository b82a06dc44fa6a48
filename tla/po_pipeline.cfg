SPECIFICATION PSpec
CONSTANTS
  w1 = w1
  w2 = w2
  WO <- OneWorkOrder
  Emergency <- NoEmergency
  InitStock = 0
  MaxQty = 1
  MaxStock = 1
  MaxLines = 1
  MaxReports = 1
  MaxLegacy = 0
  MaxOrders = 1
CHECK_DEADLOCK FALSE
INVARIANTS
  StatusMatchesBlockers
  NoOrphanShortageBlocker
