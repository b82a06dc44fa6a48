-------------------------------- MODULE Tools ---------------------------------
(***************************************************************************)
(* The reusable-tool pool: inventory/services_tools.py, the rows of        *)
(* models_tools.py and the requests of maintenance/views_tools.py, for one *)
(* part at the default site.                                               *)
(*                                                                         *)
(* A request reads its row first (get_object_or_404) and calls a service   *)
(* after; the service locks the row, reads it again and does everything in *)
(* one transaction.  The two halves are two actions, so the row may change *)
(* between them.  ToolDamageService.report has no caller and is left out.  *)
(***************************************************************************)
EXTENDS Integers, Sequences, FiniteSets

CONSTANTS
    User,            \* the accounts
    Role,            \* their role
    Initial,         \* quantity_available of the part at first
    MaxAssignments,  \* bound: rows of ToolAssignment
    AssignmentsShown, \* checkouts the dashboard lists: 25
    DamageShown      \* damage reports it lists: 10

ASSUME ToolsAssumption ==
    /\ Role \in [User -> {"operator", "technician", "supervisor", "manager",
                          "super_admin", "procurement"}]
    /\ {Initial, MaxAssignments, AssignmentsShown, DamageShown} \subseteq Nat
    /\ {"pool", "broken", "gone"} \cap User = {}

VARIABLES
    stock,   \* Inventory.quantity_available
    tool,    \* the ReusableToolInstance rows, by tool_number
    asg,     \* the ToolAssignment rows
    rep,     \* the ToolDamageReport rows
    page     \* per user, the request between its read and its transaction

tvars == <<stock, tool, asg, rep, page>>

Lead == {u \in User : Role[u] \in {"manager", "supervisor", "super_admin"}}
Manager == {u \in User : Role[u] \in {"manager", "super_admin"}}

\* active: is_active; status: Status.
ToolRow == [status: {"available", "in_use", "out_of_service"}, active: BOOLEAN]

\* open: return_at is null.
AssignmentRow == [tool: Nat, operator: User, open: BOOLEAN]

ReportRow == [tool: Nat, status: {"open", "repaired", "written_off"}]

Page == [view: {"none", "assign", "return", "resolve"}, id: Nat]
NoPage == [view |-> "none", id |-> 0]

Open == {a \in DOMAIN asg : asg[a].open}
OpenReports == {r \in DOMAIN rep : rep[r].status = "open"}

ToolsInit ==
    /\ stock = Initial
    /\ tool = <<>>
    /\ asg = <<>>
    /\ rep = <<>>
    /\ page = [u \in User |-> NoPage]

-------------------------------------------------------------------------------
(***************************************************************************)
(* Issue to the pool.  The Inventory row is locked before the quantity is  *)
(* compared and before the highest tool_number is read.                    *)
(***************************************************************************)
\* Mutant: the units appear in the pool and stay in the books of the store.
IssueTwice(q) ==
    /\ q <= stock
    /\ tool' = tool \o [k \in 1..q |-> [status |-> "available", active |-> TRUE]]
    /\ UNCHANGED <<stock, asg, rep, page>>

IssueToPool(q) ==
    /\ q <= stock
    /\ stock' = stock - q
    /\ tool' = tool \o [k \in 1..q |-> [status |-> "available", active |-> TRUE]]
    /\ UNCHANGED <<asg, rep, page>>

\* ToolIssueForm asks for a whole unit at least, whatever the page showed.
IssueQuantity == 1..Initial

ToolsIssue(u) ==
    /\ u \in Manager
    /\ \E q \in IssueQuantity : IssueToPool(q)

-------------------------------------------------------------------------------
(***************************************************************************)
(* The reads.                                                              *)
(***************************************************************************)
Reads(u, view, id) ==
    /\ page[u] = NoPage
    /\ page' = [page EXCEPT ![u] = [view |-> view, id |-> id]]
    /\ UNCHANGED <<stock, tool, asg, rep>>

OpenAssign(u, t) == tool[t].active /\ Reads(u, "assign", t)

OpenReturn(u, a) ==
    /\ asg[a].open
    /\ asg[a].operator = u \/ u \in Lead
    /\ Reads(u, "return", a)

OpenResolve(u, r) ==
    /\ u \in Manager
    /\ rep[r].status = "open"
    /\ Reads(u, "resolve", r)

Submits(u, view) == page[u].view = view /\ page' = [page EXCEPT ![u] = NoPage]

\* The service raised ValueError: the transaction rolls back and the form is
\* shown again.
Refused == UNCHANGED <<stock, tool, asg, rep>>

-------------------------------------------------------------------------------
(***************************************************************************)
(* ToolAssignmentService.                                                  *)
(***************************************************************************)
CanAssign(t) ==
    /\ tool[t].active
    /\ tool[t].status = "available"
    /\ ~ \E a \in Open : asg[a].tool = t

\* Anyone may take a tool; only a lead may hand it to somebody else.
Assignees(u) == IF u \in Lead THEN User ELSE {u}

\* Mutant: the row read with the page is trusted.
AssignStale(u, o) ==
    LET t == page[u].id
    IN  /\ Submits(u, "assign")
        /\ o \in Assignees(u)
        /\ Len(asg) < MaxAssignments
        /\ asg' = Append(asg, [tool |-> t, operator |-> o, open |-> TRUE])
        /\ tool' = [tool EXCEPT ![t].status = "in_use"]
        /\ UNCHANGED <<stock, rep>>

Assign(u, o) ==
    LET t == page[u].id
    IN  /\ Submits(u, "assign")
        /\ o \in Assignees(u)
        /\ \/ /\ CanAssign(t)
              /\ Len(asg) < MaxAssignments
              /\ asg' = Append(asg, [tool |-> t, operator |-> o, open |-> TRUE])
              /\ tool' = [tool EXCEPT ![t].status = "in_use"]
              /\ UNCHANGED <<stock, rep>>
           \/ ~ CanAssign(t) /\ Refused

Return(u, damaged) ==
    LET a == page[u].id
        t == asg[a].tool
    IN  /\ Submits(u, "return")
        /\ \/ /\ asg[a].open
              /\ asg' = [asg EXCEPT ![a].open = FALSE]
              /\ tool' = [tool EXCEPT ![t].status =
                            IF damaged THEN "out_of_service" ELSE "available"]
              /\ rep' = IF damaged
                        THEN Append(rep, [tool |-> t, status |-> "open"])
                        ELSE rep
              /\ UNCHANGED stock
           \/ ~ asg[a].open /\ Refused

-------------------------------------------------------------------------------
(***************************************************************************)
(* ToolDamageService.  Two managers may have the same report before them.  *)
(***************************************************************************)
Repair(u) ==
    LET r == page[u].id
        t == rep[r].tool
    IN  /\ Submits(u, "resolve")
        /\ \/ /\ rep[r].status = "open"
              /\ rep' = [rep EXCEPT ![r].status = "repaired"]
              /\ tool' = IF tool[t].status = "out_of_service"
                         THEN [tool EXCEPT ![t].status = "available"]
                         ELSE tool
              /\ UNCHANGED <<stock, asg>>
           \/ rep[r].status # "open" /\ Refused

\* Mutant: a report repaired since the page was read is written off, with the
\* tool somebody may have taken by then.
WriteOffStale(u) ==
    LET r == page[u].id
        t == rep[r].tool
    IN  /\ Submits(u, "resolve")
        /\ rep' = [rep EXCEPT ![r].status = "written_off"]
        /\ tool' = [tool EXCEPT ![t] = [status |-> "out_of_service", active |-> FALSE]]
        /\ UNCHANGED <<stock, asg>>

WriteOff(u) ==
    LET r == page[u].id
        t == rep[r].tool
    IN  /\ Submits(u, "resolve")
        /\ \/ /\ rep[r].status = "open"
              /\ rep' = [rep EXCEPT ![r].status = "written_off"]
              /\ tool' = [tool EXCEPT ![t] =
                            [status |-> "out_of_service", active |-> FALSE]]
              /\ UNCHANGED <<stock, asg>>
           \/ rep[r].status # "open" /\ Refused

ToolsNext ==
    \E u \in User :
      \/ ToolsIssue(u)
      \/ \E t \in DOMAIN tool : OpenAssign(u, t)
      \/ \E a \in DOMAIN asg : OpenReturn(u, a)
      \/ \E r \in DOMAIN rep : OpenResolve(u, r)
      \/ \E o \in User : Assign(u, o)
      \/ \E damaged \in BOOLEAN : Return(u, damaged)
      \/ Repair(u)
      \/ WriteOff(u)

ToolsSpec == ToolsInit /\ [][ToolsNext]_tvars

-------------------------------------------------------------------------------
(***************************************************************************)
(* What the pages show.                                                    *)
(***************************************************************************)
ActiveTools == {t \in DOMAIN tool : tool[t].active}
WithStatus(s) == {t \in ActiveTools : tool[t].status = s}
HeldBy(u) == {asg[a].tool : a \in {b \in Open : asg[b].operator = u}}

\* tools_list without a status filter.
ToolsList(u) ==
    CASE u \in Lead -> ActiveTools
      [] Role[u] = "procurement" -> {}
      [] OTHER -> WithStatus("available") \cup (HeldBy(u) \cap ActiveTools)

\* tools_instance_detail: whoever ever held a tool may open its page.
MayOpen(u, t) ==
    \/ u \in Lead
    \/ Role[u] # "procurement" /\ \E a \in DOMAIN asg : asg[a].tool = t /\ asg[a].operator = u

\* The dashboard's cards: tools by status.
Counts == [s \in {"available", "in_use", "out_of_service"} |-> Cardinality(WithStatus(s))]

\* Its lists, cut to a length: the oldest open checkouts (rows are created in
\* the order of checkout_at) and the latest open damage reports.
Checkouts == {a \in Open : asg[a].tool \in ActiveTools}
Before(a) == {b \in Checkouts : b < a}
OpenAssignments == {a \in Checkouts : Cardinality(Before(a)) < AssignmentsShown}
After(r) == {q \in OpenReports : q > r}
OpenDamage == {r \in OpenReports : Cardinality(After(r)) < DamageShown}

Shorter(m, n) == IF m <= n THEN m ELSE n

-------------------------------------------------------------------------------
(***************************************************************************)
(* The properties.                                                         *)
(***************************************************************************)
\* Every row has its type, and the tools, assignments and reports that rows
\* and open pages refer to exist (get_object_or_404 and the foreign keys).
ToolsTypeOK ==
    /\ stock \in Nat
    /\ tool \in Seq(ToolRow)
    /\ asg \in Seq(AssignmentRow)
    /\ rep \in Seq(ReportRow)
    /\ page \in [User -> Page]
    /\ \A a \in DOMAIN asg : asg[a].tool \in DOMAIN tool
    /\ \A r \in DOMAIN rep : rep[r].tool \in DOMAIN tool
    /\ \A u \in User :
         /\ page[u].view = "assign" => page[u].id \in DOMAIN tool
         /\ page[u].view = "return" => page[u].id \in DOMAIN asg
         /\ page[u].view = "resolve" => page[u].id \in DOMAIN rep

\* A tool is IN_USE exactly while one assignment of it is open, whoever else
\* had its page before them (assign and return_tool read the row again under
\* the lock).
HeldIffInUse ==
    /\ \A t \in DOMAIN tool :
         tool[t].status = "in_use" <=> \E a \in Open : asg[a].tool = t
    /\ \A a, b \in Open : asg[a].tool = asg[b].tool => a = b

\* A tool is OUT_OF_SERVICE exactly while a damage report of it is open or it
\* was written off, and never has two open reports: resolving one report
\* settles the tool.
BrokenIffReported ==
    /\ \A t \in DOMAIN tool :
         tool[t].status = "out_of_service"
           <=> ~ tool[t].active \/ \E r \in OpenReports : rep[r].tool = t
    /\ \A t \in DOMAIN tool :
         ~ tool[t].active => ~ \E r \in OpenReports : rep[r].tool = t
    /\ \A q, r \in OpenReports : rep[q].tool = rep[r].tool => q = r

\* The three together: wherever a tool is, the three tables say the same, for
\* every order in which stale pages reach the services.
ToolsInv == ToolsTypeOK /\ HeldIffInUse /\ BrokenIffReported

\* The dashboard's cards agree with the numbers over its lists, which are the
\* lengths of the lists as they were cut (tools_dashboard.html:51, 139): as many
\* checkouts as tools in use and as many reports as tools out of service, or a
\* full list.
DashboardAddsUp ==
    /\ Cardinality(OpenAssignments) = Shorter(Counts["in_use"], AssignmentsShown)
    /\ Cardinality(OpenDamage) = Shorter(Counts["out_of_service"], DamageShown)

\* Whoever holds a tool finds it in the list they return it from and may open
\* its page, however it was taken, damaged, repaired or fought over before.
HolderSeesTool ==
    \A a \in Open : Role[asg[a].operator] # "procurement"
                      => /\ asg[a].tool \in ToolsList(asg[a].operator)
                         /\ MayOpen(asg[a].operator, asg[a].tool)

\* What the pages derive from the tables in different ways fits together.
PagesFit == DashboardAddsUp /\ HolderSeesTool

-------------------------------------------------------------------------------
(***************************************************************************)
(* The pool this implements.                                               *)
(***************************************************************************)
\* ReusableToolInstance.current_holder.
Holder(t) == asg[CHOOSE a \in Open : asg[a].tool = t].operator

PlaceOf(t) ==
    CASE ~ tool[t].active -> "gone"
      [] tool[t].active /\ tool[t].status = "available" -> "pool"
      [] tool[t].active /\ tool[t].status = "out_of_service" -> "broken"
      [] tool[t].active /\ tool[t].status = "in_use" -> Holder(t)

Pool == INSTANCE ToolPool WITH store <- stock, place <- [t \in DOMAIN tool |-> PlaceOf(t)]

\* The tables implement the pool: every unit issued is in one place at a time
\* and only ever moves along the edges of ToolPool, so nothing written off
\* comes back, nothing broken is handed out and nothing is taken from a holder
\* by a second checkout.
ImplementsPool == Pool!PoolSpec
===============================================================================
