SPECIFICATION NoticesSpec
CONSTANTS
    m = m
    p = p
    t = t
    b1 = b1
    p1 = p1
    w1 = w1
    cron = cron
    web = web
    User = {m, p, t}
    NoUser = NoUser
    RoleOf <- Roles
    Superuser = {}
    Case <- OneCase
    OrderOf <- WorkOrderOf
    Assignee <- Technician
    Creator <- Boss
    Requester <- Technician
    Approver <- Boss
    Plan = {p1}
    None = None
    Process = {cron, web}
    Hours = 1
    Window = 1
    MaxNow = 4
    DueTimes = {0, 3, 7}
    MaxActs = 2
    MaxFails = 1
SYMMETRY Workers
CHECK_DEADLOCK FALSE
INVARIANTS
  NoticesInv
  SummariesSent
PROPERTIES
  EveryoneHears
  OverdueTold
