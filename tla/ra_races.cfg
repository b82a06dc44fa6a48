SPECIFICATION RacesSpec
CONSTANTS
  x1 = x1
  x2 = x2
  i1 = i1
  i2 = i2
  l1 = l1
  l2 = l2
  w1 = w1
  w2 = w2
  none = none
  issued = issued
  repair = repair
  rag = rag
  extra = extra
  old = old
  older = older
  Worker <- TwoSessions
  Issue <- TwoIssues
  Retries = 2
  MaxRequests = 7
  Conn <- TwoSessions
  Line <- TwoLines
  Queue <- Waiting
  Asked <- Wanted
  OnHand = 2
  Ordered = 2
  MaxUnits = 2
  MaxOps = 4
  Session <- TwoSessions
  Wo <- TwoOrders
  NoWo = none
  Source <- Rows
  KindOf <- Kinds
  WoOf <- OrderOf
  Kept <- OldCategories
  Legacy <- OldCosts
  Typed <- TypedCosts
  OnComponent <- ComponentOrders
  Amount <- Prices
  MaxRuns = 4
CHECK_DEADLOCK FALSE
SYMMETRY Alike
INVARIANTS
  IssuesInv
  ClosedEndsDowntime
  ContentionInv
  
  OrderedOnce
  LedgerInv
  CostPagesFit
PROPERTIES
  NothingTakenBack
  ReopenedOnlyByOverlap
  SettledOnlyByOverlap
  OverbookedOnlyByOverlap
