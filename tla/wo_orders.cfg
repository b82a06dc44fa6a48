SPECIFICATION WSpec
CONSTANTS
  w1 = w1
  w2 = w2
  w3 = w3
  t1 = t1
  t2 = t2
  nobody = nobody
  WO <- ThreeWorkOrders
  Emergency <- ThirdIsEmergency
  Tech <- TwoTechnicians
  NoTech = nobody
  Stuck <- StuckChain
  MaxRepairs = 2
  MaxCost = 2
CHECK_DEADLOCK FALSE
SYMMETRY
  Technicians
CONSTRAINT OrdersOrRepairs
INVARIANTS
  StatusDerived
  ClocksSound
  NoOrphanVendorBlocker
PROPERTIES
  DependentsFreed
  ClosedIsFrozen
  ClosedRepairIsPosted
