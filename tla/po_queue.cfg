SPECIFICATION CompetingSpec
CONSTANTS
  w1 = w1
  w2 = w2
  WO <- TwoWorkOrders
  Emergency <- SecondIsEmergency
  InitStock = 0
  MaxQty = 1
  MaxStock = 1
  MaxLines = 2
  MaxReports = 2
  MaxLegacy = 0
  MaxOrders = 1
CHECK_DEADLOCK FALSE
PROPERTIES
  QueueRespected
