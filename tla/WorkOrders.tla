------------------------------ MODULE WorkOrders ------------------------------
(***************************************************************************)
(* The life of breakdown and emergency work orders: who works on what, what*)
(* pauses it, and the vendor repairs it waits for.  maintenance/services.py*)
(* and the views that call it, with the OPERATIONAL and VENDOR_REPAIR      *)
(* blockers of services_blocker.py, the operational status derived in      *)
(* services_wo_status.py and the ledger entry of a closed repair.          *)
(*                                                                         *)
(* PART and SHORTAGE blockers appear as one flag per work order; modules   *)
(* PartPipeline and Procurement say what sets it.  Preventive work orders  *)
(* have handlers of their own and are not in this module.                  *)
(***************************************************************************)
EXTENDS Naturals, Sequences, FiniteSets

CONSTANTS
    WO,          \* the work orders
    Emergency,   \* those with is_emergency set
    Tech,        \* the technicians
    NoTech,      \* assigned_technician is null
    Stuck,       \* <<paused, source>> pairs an earlier version may have left
    MaxRepairs,  \* bound: rows of ExternalRepairRequest and ExternalRepairOrder
    MaxCost      \* bound: the largest actual_cost

ASSUME WorkOrdersAssumption ==
    /\ Emergency \subseteq WO
    /\ Stuck \subseteq WO \X WO
    /\ NoTech \notin Tech
    /\ {"none", "own"} \cap WO = {}
    /\ {MaxRepairs, MaxCost} \subseteq Nat

VARIABLES
    wo,      \* the WorkOrder rows
    pause,   \* per work order, its OPEN OPERATIONAL blocker: "none", "own" or
             \* the source_work_order that auto-paused it
    parts,   \* per work order, whether a PART or SHORTAGE blocker is OPEN
    repair   \* the repairs: request, repair order, VENDOR_REPAIR blocker and
             \* what the ledger holds for the order

wvars == <<wo, pause, parts, repair>>

LifecycleStatus == {"absent", "assigned", "in_progress", "pending_review", "closed"}
OperationalStatus == {"active", "paused", "pending_parts", "waiting_vendor"}

\* labour: labor_started_at and labor_stopped_at; downtime: the Downtime row.
WORow == [lifecycle: LifecycleStatus, status: OperationalStatus,
          tech: Tech \cup {NoTech}, labour: {"none", "running", "stopped"},
          downtime: {"none", "open", "ended"}]

EROStatus == {"draft", "sent", "returned", "closed", "rejected"}

\* related: the repair order approve_external_repair_request attached to this
\* row's blocker (0 for none), which need not be this row's own.
RepairRow == [wo: WO, request: {"none", "pending", "approved", "rejected"},
              ero: EROStatus \cup {"none"}, cost: Nat, posted: Nat,
              blocker: {"none", "open", "resolved"}, related: Nat]

Repairs == DOMAIN repair

Db == [wo |-> wo, pause |-> pause, parts |-> parts, repair |-> repair]

Write(d) ==
    /\ wo' = d.wo
    /\ pause' = d.pause
    /\ parts' = d.parts
    /\ repair' = d.repair

-------------------------------------------------------------------------------
(***************************************************************************)
(* The operational status.                                                 *)
(***************************************************************************)
WaitsForVendor(d, w) ==
    \E r \in DOMAIN d.repair : d.repair[r].wo = w /\ d.repair[r].blocker = "open"

DerivedStatus(d, w) ==
    IF d.parts[w] THEN "pending_parts"
    ELSE IF WaitsForVendor(d, w) THEN "waiting_vendor"
    ELSE IF d.pause[w] # "none" THEN "paused"
    ELSE IF d.wo[w].lifecycle = "in_progress" THEN "active" ELSE "paused"

\* Mutant: a closed work order still follows its blockers.
RecomputedAlways(d, S) ==
    [d EXCEPT !.wo = [w \in WO |->
        IF w \in S THEN [d.wo[w] EXCEPT !.status = DerivedStatus(d, w)] ELSE d.wo[w]]]

Recomputed(d, S) ==
    [d EXCEPT !.wo = [w \in WO |->
        IF w \in S /\ d.wo[w].lifecycle # "closed"
        THEN [d.wo[w] EXCEPT !.status = DerivedStatus(d, w)]
        ELSE d.wo[w]]]

-------------------------------------------------------------------------------
(***************************************************************************)
(* Lifecycle transitions and the release of auto-paused work orders.       *)
(***************************************************************************)
ValidTransitions ==
    [absent         |-> {},
     assigned       |-> {"in_progress", "pending_review"},
     in_progress    |-> {"pending_review", "assigned"},
     pending_review |-> {"closed", "in_progress", "assigned"},
     closed         |-> {}]

CanTransition(w, to) ==
    wo[w].lifecycle = to \/ to \in ValidTransitions[wo[w].lifecycle]

SourceStillBlocks(row) == row.lifecycle = "in_progress" /\ row.status = "active"

\* Mutant: only work orders still in progress are released.
ReleasedInProgress(d, w) ==
    LET freed == {o \in WO : d.pause[o] = w /\ d.wo[o].lifecycle = "in_progress"}
    IN  Recomputed([d EXCEPT !.pause = [o \in WO |->
                      IF o \in freed THEN "none" ELSE d.pause[o]]], freed)

\* Mutant: the released work orders are left looking paused.
ReleasedQuietly(d, w) ==
    [d EXCEPT !.pause = [o \in WO |-> IF d.pause[o] = w THEN "none" ELSE d.pause[o]]]

\* release_dependent_blockers, once the source was found not to block.
Released(d, w) ==
    LET freed == {o \in WO : d.pause[o] = w}
    IN  Recomputed([d EXCEPT !.pause = [o \in WO |->
                      IF o \in freed THEN "none" ELSE d.pause[o]]], freed)

\* transition_work_order.  recompute works on a row of its own, so the row the
\* release looks at has the new lifecycle and the old operational status.
Transition(d, w, to) ==
    LET moved    == Recomputed([d EXCEPT !.wo[w].lifecycle = to], {w})
        inMemory == [d.wo[w] EXCEPT !.lifecycle = to]
    IN  IF d.wo[w].lifecycle = to THEN d
        ELSE IF SourceStillBlocks(inMemory) THEN moved ELSE Released(moved, w)

\* The one OPEN OPERATIONAL blocker a work order can have.
OpenPause(d, S, source) ==
    [d EXCEPT !.pause = [o \in WO |->
        IF o \in S /\ d.pause[o] = "none" THEN source ELSE d.pause[o]]]

StopLabour(d, S) ==
    [d EXCEPT !.wo = [o \in WO |->
        IF o \in S THEN [d.wo[o] EXCEPT !.labour = "stopped"] ELSE d.wo[o]]]

InProgressOf(t, w) ==
    {o \in WO \ {w} : wo[o].tech = t /\ wo[o].lifecycle = "in_progress"}

PauseOthers(d, t, w) ==
    LET others == InProgressOf(t, w)
    IN  Recomputed(OpenPause(StopLabour(d, others), others, w), others)

-------------------------------------------------------------------------------
(***************************************************************************)
(* Initial states: nothing but what an earlier version left paused.        *)
(***************************************************************************)
Absent == [lifecycle |-> "absent", status |-> "paused", tech |-> NoTech,
           labour |-> "none", downtime |-> "none"]

Left(t, stuck, w) ==
    IF \E p \in stuck : p[1] = w
    THEN [lifecycle |-> "in_progress", status |-> "paused", tech |-> t,
          labour |-> "stopped", downtime |-> "open"]
    ELSE IF \E p \in stuck : p[2] = w
    THEN [lifecycle |-> "in_progress", status |-> "active", tech |-> t,
          labour |-> "running", downtime |-> "open"]
    ELSE Absent

WInit ==
    \E t \in Tech, stuck \in SUBSET Stuck :
        /\ wo = [w \in WO |-> Left(t, stuck, w)]
        /\ pause = [w \in WO |-> IF \E p \in stuck : p[1] = w
                                 THEN (CHOOSE p \in stuck : p[1] = w)[2] ELSE "none"]
        /\ parts = [w \in WO |-> FALSE]
        /\ repair = <<>>

-------------------------------------------------------------------------------
(***************************************************************************)
(* Managers and technicians.                                               *)
(***************************************************************************)
\* work_order_create_from_issue, emergency_work_order_create.
CreateWorkOrder(w) ==
    /\ wo[w].lifecycle = "absent"
    /\ Write([Db EXCEPT !.wo[w].lifecycle = "assigned"])

\* The technician is saved before the transition is tried, outside a
\* transaction: on a closed work order the view fails and the change stays.
Assign(w, t) ==
    LET assigned == [Db EXCEPT !.wo[w].tech = t]
    IN  /\ wo[w].lifecycle # "absent"
        /\ wo[w].lifecycle = "assigned" \/ wo[w].status = "paused"
        /\ Write(IF CanTransition(w, "assigned")
                 THEN Transition(assigned, w, "assigned")
                 ELSE assigned)

\* has_active_emergency
EmergencyInProgress(t, w) == InProgressOf(t, w) \cap Emergency # {}

\* The checks of the work_order_start view; confirm_switch is the user's.
MayStart(w) ==
    /\ wo[w].tech # NoTech
    /\ \/ wo[w].lifecycle \in {"assigned", "in_progress"}
       \/ wo[w].status \in {"paused", "pending_parts", "waiting_vendor"}
    /\ w \in Emergency \/ ~EmergencyInProgress(wo[w].tech, w)

\* The Downtime row is created on the first start only.
ClockStarted(d, w) ==
    [d EXCEPT !.wo[w].downtime = IF @ = "none" THEN "open" ELSE @]

\* technician_start_work.  A work order already in progress is left alone.
Start(w) ==
    LET started == ClockStarted(Db, w)
        paused  == PauseOthers(started, wo[w].tech, w)
        running == Transition([paused EXCEPT !.wo[w].labour = "running"], w, "in_progress")
        resumed == Recomputed([running EXCEPT !.pause[w] = "none"], {w})
    IN  /\ MayStart(w)
        /\ CanTransition(w, "in_progress")
        /\ Write(IF wo[w].lifecycle = "in_progress" THEN started ELSE resumed)

\* work_order_pause; significant: the reason is other or emergency, or there is
\* a note.
Pause(w, significant) ==
    LET stopped == StopLabour(Db, {w})
    IN  /\ wo[w].lifecycle = "in_progress"
        /\ wo[w].tech # NoTech
        /\ Write(Recomputed(IF significant THEN OpenPause(stopped, {w}, "own") ELSE stopped, {w}))

\* technician_mark_pending_parts, technician_mark_waiting_vendor.
MarkWaiting(w) ==
    /\ wo[w].lifecycle = "in_progress"
    /\ wo[w].tech # NoTech
    /\ Write(Recomputed(StopLabour(Db, {w}), {w}))

SubmitForReview(w) ==
    /\ wo[w].lifecycle = "in_progress"
    /\ wo[w].tech # NoTech
    /\ Write(Transition(StopLabour(Db, {w}), w, "pending_review"))

\* Mutant: closing leaves the Downtime row open.
ApproveWithoutClock(w) ==
    /\ wo[w].lifecycle = "pending_review"
    /\ Write(Transition(Db, w, "closed"))

ApproveWork(w) ==
    LET ended == [Db EXCEPT !.wo[w].downtime = IF @ = "open" THEN "ended" ELSE @]
    IN  /\ wo[w].lifecycle = "pending_review"
        /\ Write(Transition(ended, w, "closed"))

RejectWork(w) ==
    /\ wo[w].lifecycle = "pending_review"
    /\ Write(Transition([Db EXCEPT !.wo[w].labour = "running"], w, "in_progress"))

\* A PART or SHORTAGE blocker is opened, or the last one ends.
PartsBlocker(w) ==
    /\ wo[w].lifecycle # "absent"
    /\ Write(Recomputed([Db EXCEPT !.parts[w] = ~@], {w}))

\* The sources repair_paused_blockers finds not to block any more.
StaleSources == {w \in WO : ~SourceStillBlocks(wo[w])}

\* repair_paused_blockers
RepairPausedBlockers ==
    LET freed == {o \in WO : pause[o] \in StaleSources}
    IN  /\ freed # {}
        /\ Write(Recomputed([Db EXCEPT !.pause = [o \in WO |->
                     IF o \in freed THEN "none" ELSE pause[o]]], freed))

-------------------------------------------------------------------------------
(***************************************************************************)
(* External repair.                                                        *)
(***************************************************************************)
NewRepair(w, request, ero, blocker) ==
    [wo |-> w, request |-> request, ero |-> ero, cost |-> 0, posted |-> 0,
     blocker |-> blocker, related |-> 0]

\* No look at the lifecycle: the technician may ask at any time.
RequestRepair(w) ==
    /\ Len(repair) < MaxRepairs
    /\ wo[w].tech # NoTech
    /\ Write(Recomputed([Db EXCEPT !.repair = Append(@, NewRepair(w, "pending", "none", "open"))],
                        {w}))

\* A manager's own repair order: no request and no blocker.
CreateRepair(w) ==
    /\ Len(repair) < MaxRepairs
    /\ wo[w].lifecycle \notin {"absent", "closed"}
    /\ repair' = Append(repair, NewRepair(w, "none", "draft", "none"))
    /\ UNCHANGED <<wo, pause, parts>>

OpenBlockersOf(w) == {r \in Repairs : repair[r].wo = w /\ repair[r].blocker = "open"}

\* approve_external_repair_request attaches the new order to the first OPEN
\* VENDOR_REPAIR blocker of the work order, whichever request that one is for.
ApproveRepair(r) ==
    LET blockers == OpenBlockersOf(repair[r].wo)
    IN  /\ repair[r].request = "pending"
        /\ repair' = [q \in Repairs |->
                LET row == IF q = r
                           THEN [repair[q] EXCEPT !.request = "approved", !.ero = "draft"]
                           ELSE repair[q]
                IN  IF q \in blockers /\ \A b \in blockers : q <= b
                    THEN [row EXCEPT !.related = r] ELSE row]
        /\ UNCHANGED <<wo, pause, parts>>

\* reject_external_repair_request: the blocker is not told.
RejectRepair(r) ==
    /\ repair[r].request = "pending"
    /\ repair' = [repair EXCEPT ![r].request = "rejected"]
    /\ UNCHANGED <<wo, pause, parts>>

Resolved(b) == IF b = "open" THEN "resolved" ELSE b

\* Mutant: every posting is a new charge.
PostedAgain(row) ==
    IF row.cost > 0 THEN [row EXCEPT !.posted = @ + row.cost] ELSE row

\* post_vendor_repair: _post books the difference to what is already there.
Posted(row) == IF row.cost > 0 THEN [row EXCEPT !.posted = row.cost] ELSE row

\* Mutant: only a return ends the vendor wait.
SavedOnReturn(row, status, c) ==
    LET new == [row EXCEPT !.ero = status, !.cost = c]
    IN  IF status = row.ero THEN new
        ELSE IF status = "returned" THEN [new EXCEPT !.blocker = Resolved(@)]
        ELSE IF status = "closed" THEN Posted(new)
        ELSE new

\* ExternalRepairOrder.save: only a change of status is an event.
Saved(row, status, c) ==
    LET new == [row EXCEPT !.ero = status, !.cost = c]
    IN  IF status = row.ero THEN new
        ELSE IF status = "returned" THEN [new EXCEPT !.blocker = Resolved(@)]
        ELSE IF status = "closed" THEN Posted([new EXCEPT !.blocker = Resolved(@)])
        ELSE new

SaveRepair(r, status, c) ==
    LET saved == [Db EXCEPT !.repair[r] = Saved(@, status, c)]
    IN  Write(IF status # repair[r].ero /\ status \in {"returned", "closed"}
              THEN Recomputed(saved, {repair[r].wo}) ELSE saved)

\* repair_officer: the form writes status and cost from any state to any other.
OfficerSaves(r, status, c) == repair[r].ero # "none" /\ SaveRepair(r, status, c)

\* repair_mark_returned
MarkReturned(r) == repair[r].ero = "sent" /\ SaveRepair(r, "returned", repair[r].cost)

\* repair_manager_accept
AcceptRepair(r, c) == repair[r].ero = "returned" /\ SaveRepair(r, "closed", c)

\* The order reconcile_orphan_vendor_blockers takes a blocker to wait for.
OrderOf(r) == IF repair[r].related # 0 THEN repair[r].related ELSE r

\* reconcile_orphan_vendor_blockers
ReconcileVendorBlockers ==
    LET orphans == {r \in Repairs : /\ repair[r].blocker = "open"
                                    /\ repair[OrderOf(r)].ero \in {"returned", "closed"}}
        billed  == {OrderOf(r) : r \in orphans}
    IN  /\ orphans # {}
        /\ Write(Recomputed(
             [Db EXCEPT !.repair = [q \in Repairs |->
                LET row == IF q \in billed /\ repair[q].posted = 0
                           THEN Posted(repair[q]) ELSE repair[q]
                IN  IF q \in orphans THEN [row EXCEPT !.blocker = "resolved"] ELSE row]],
             {repair[r].wo : r \in orphans}))

-------------------------------------------------------------------------------
Working ==
    \/ \E w \in WO : CreateWorkOrder(w) \/ Start(w) \/ SubmitForReview(w)
    \/ \E w \in WO, t \in Tech : Assign(w, t)
    \/ \E w \in WO, significant \in BOOLEAN : Pause(w, significant)
    \/ \E w \in WO : MarkWaiting(w) \/ ApproveWork(w) \/ RejectWork(w)
    \/ \E w \in WO : PartsBlocker(w)
    \/ RepairPausedBlockers

Repairing ==
    \/ \E w \in WO : RequestRepair(w) \/ CreateRepair(w)
    \/ \E r \in Repairs : ApproveRepair(r) \/ RejectRepair(r) \/ MarkReturned(r)
    \/ \E r \in Repairs, status \in EROStatus, c \in 0..MaxCost : OfficerSaves(r, status, c)
    \/ \E r \in Repairs, c \in 0..MaxCost : AcceptRepair(r, c)
    \/ ReconcileVendorBlockers

WNext == Working \/ Repairing

WSpec == WInit /\ [][WNext]_wvars

-------------------------------------------------------------------------------
(***************************************************************************)
(* Properties.                                                             *)
(***************************************************************************)
\* Rows keep their types.
WTypeOK ==
    /\ wo \in [WO -> WORow]
    /\ pause \in [WO -> WO \cup {"none", "own"}]
    /\ parts \in [WO -> BOOLEAN]
    /\ repair \in Seq(RepairRow)

\* operational_status, a stored value, is the one the open blockers and the
\* lifecycle imply, whichever handler wrote last; on a closed work order it is
\* frozen.
StatusDerived ==
    \A w \in WO : wo[w].lifecycle \notin {"absent", "closed"} =>
        wo[w].status = DerivedStatus(Db, w)

\* The downtime clock runs from the first start until the manager closes,
\* through pauses, reassignments and rejected reviews, and the labour timer is
\* stopped while a work order is reviewed and after.
ClocksSound ==
    \A w \in WO :
        /\ wo[w].lifecycle \in {"in_progress", "pending_review"} => wo[w].downtime = "open"
        /\ wo[w].lifecycle = "closed" <=> wo[w].downtime = "ended"
        /\ wo[w].lifecycle \in {"pending_review", "closed"} => wo[w].labour = "stopped"

\* A work order never waits for a vendor whose repair is back or closed,
\* although the officer's form moves the status from anywhere to anywhere.
NoOrphanVendorBlocker ==
    \A r \in Repairs : repair[r].blocker = "open" => repair[r].ero \notin {"returned", "closed"}

\* Closing a repair with a cost leaves exactly that cost in the ledger, also
\* when it was closed, reopened and priced differently before.
ClosedRepairIsPosted ==
    [][\A r \in Repairs :
         /\ repair[r].ero # "closed"
         /\ repair'[r].ero = "closed"
         /\ repair'[r].cost > 0
         => repair'[r].posted = repair'[r].cost]_wvars

\* Nothing stays auto-paused by a work order that leaves IN_PROGRESS.
DependentsFreed ==
    [][\A w \in WO : wo[w].lifecycle = "in_progress" /\ wo'[w].lifecycle # "in_progress" =>
         \A o \in WO : pause'[o] # w]_wvars

\* A closed work order keeps its lifecycle, status and clocks, whatever its
\* blockers, repairs and technician do.
ClosedIsFrozen ==
    [][\A w \in WO : wo[w].lifecycle = "closed" =>
         wo'[w] = [wo[w] EXCEPT !.tech = wo'[w].tech]]_wvars
===============================================================================
