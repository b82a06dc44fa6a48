SPECIFICATION WSpec
CONSTANTS
  w1 = w1
  w2 = w2
  w3 = w3
  t1 = t1
  t2 = t2
  nobody = nobody
  WO <- TwoWorkOrders
  Emergency <- SecondIsEmergency
  Tech <- OneTechnician
  NoTech = nobody
  Stuck <- NothingStuck
  MaxRepairs = 0
  MaxCost = 0
CHECK_DEADLOCK FALSE
PROPERTIES
  SwitchPausesOthers
