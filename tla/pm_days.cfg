SPECIFICATION FairSpec
CONSTANTS
  p1 = p1
  t1 = t1
  nobody = nobody
  Plan <- OnePlan
  Every <- Daily
  EndsAt <- EndsLate
  Tech <- OneTechnician
  NoTech = nobody
  MaxDay = 1
  MaxNow = 1
  MaxSaves = 1
  MaxReturns = 1
CHECK_DEADLOCK FALSE
CONSTRAINT TwoOccurrences
INVARIANTS
  PreventiveInv
PROPERTIES
  ReviewQueueKeeps
  NoDrift
  DueIsGenerated
