SPECIFICATION ShortSpec
CONSTANTS
  w1 = w1
  w2 = w2
  WO <- OneWorkOrder
  Emergency <- NoEmergency
  InitStock = 0
  MaxQty = 2
  MaxStock = 2
  MaxLines = 1
  MaxReports = 1
  MaxLegacy = 0
  MaxOrders = 2
CHECK_DEADLOCK FALSE

  
PROPERTIES
  ReceiptConserved
