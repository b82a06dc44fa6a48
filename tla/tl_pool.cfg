SPECIFICATION ToolsSpec
CONSTANTS
  m1 = m1
  m2 = m2
  o1 = o1
  User <- People
  Role <- Roles
  Initial = 2
  MaxAssignments = 3
  AssignmentsShown = 1
  DamageShown = 1
CHECK_DEADLOCK FALSE
SYMMETRY
  Managers
INVARIANTS
  ToolsInv
  PagesFit
PROPERTIES
  ImplementsPool
