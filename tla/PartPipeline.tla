----------------------------- MODULE PartPipeline -----------------------------
(***************************************************************************)
(* The spare-part request pipeline of one part at the default site:        *)
(* inventory/services.py and inventory/services_allocation.py, with the    *)
(* PART and SHORTAGE work-order blockers of maintenance/services_blocker.py*)
(* and the operational status of maintenance/services_wo_status.py that    *)
(* every blocker change recomputes.                                        *)
(*                                                                         *)
(* Each action is one request handler: its service runs in one             *)
(* transaction.atomic() block, so it happens completely or, when it raises,*)
(* not at all.  A handler that refuses or rolls back leaves the state      *)
(* alone and is simply not enabled here.                                   *)
(*                                                                         *)
(* Tables are sequences in creation order.  Quantities are whole units.    *)
(***************************************************************************)
EXTENDS Totals, Sequences

CONSTANTS
    WO,          \* the work orders
    Emergency,   \* those with is_emergency set
    InitStock,   \* Inventory.quantity_available at the start
    MaxQty,      \* bound: the largest quantity a form is submitted with
    MaxStock,    \* bound: no stock-in takes the stock above this
    MaxLines,    \* bound: rows of PartIssueLine
    MaxReports,  \* bound: rows of PartShortageReport
    MaxLegacy    \* bound: legacy reservation a work order may start with

ASSUME ConstantsAssumption ==
    /\ Emergency \subseteq WO
    /\ IsFiniteSet(WO)
    /\ {InitStock, MaxQty, MaxStock, MaxLines, MaxReports, MaxLegacy} \subseteq Nat

VARIABLES
    available,   \* Inventory.quantity_available
    legacy,      \* per work order: ACTIVE reservations without a source_line
    line,        \* the PartIssueLine rows, each with its PART blocker
    report,      \* the PartShortageReport rows, each with its decision,
                 \* its auto-created purchase request and SHORTAGE blocker
    lifecycle,   \* WorkOrder.lifecycle_status
    opStatus     \* WorkOrder.operational_status

vars == <<available, legacy, line, report, lifecycle, opStatus>>

Qty == 1..MaxQty

LineStatus == {"pending", "approved", "allocated", "issued", "rejected"}
ActiveStatus == {"pending", "approved", "allocated"}
ReportStatus == {"pending", "approved", "rejected", "in_fulfillment",
                 "fulfilled", "blocked", "closed"}
BlockerStatus == {"none", "open", "resolved", "cancelled"}
Lifecycle == {"assigned", "in_progress", "pending_review", "closed"}
OpStatus == {"active", "paused", "pending_parts"}
PRStatus == {"none", "pending", "converted_to_po", "partially_fulfilled",
             "fulfilled", "cancelled"}

LineRow ==
    [wo: WO, status: LineStatus, quantity: Nat, requested: Nat, approved: Nat,
     allocated: Nat, issued: Nat, shortage: Nat, reserved: Nat,
     report: Nat, blocker: BlockerStatus]

ReportRow ==
    [wo: WO, status: ReportStatus, requested: Nat, qtyIssued: Nat,
     decision: {"none", "approve", "reject"}, issue: Nat, procure: Nat,
     refused: Nat, pr: PRStatus, prQty: Nat, po: Nat, blocker: BlockerStatus]

Lines == DOMAIN line
Reports == DOMAIN report

-------------------------------------------------------------------------------
(***************************************************************************)
(* Stock arithmetic.  reserved is the quantity of the line's one ACTIVE    *)
(* InventoryReservation, 0 when it has none.                               *)
(***************************************************************************)
\* compute_quantity_reserved: the sum over the ACTIVE reservation rows.
ReservedIn(lines, leg) ==
    Total([l \in DOMAIN lines |-> lines[l].reserved]) + Total(leg)

QuantityReserved == ReservedIn(line, legacy)

Usable == available - QuantityReserved

\* Mutant: the stock on hand counts as free, whatever is reserved.
FreeIgnoringReservations == AtLeastZero(available)

FreeStock == AtLeastZero(Usable)

\* What allocate_one gives a line when free units are free.
Grant(x, free) ==
    IF /\ x.status \in ActiveStatus
       /\ x.approved > 0
       /\ x.approved > x.allocated
    THEN MinOf(x.approved - x.allocated, free)
    ELSE 0

\* The second ACTIVE reservation of a line breaks
\* uniq_active_reservation_per_line: allocate_one raises IntegrityError.
CanAllocate(x, free) == Grant(x, free) = 0 \/ x.reserved = 0

AllocateOne(x, free) ==
    LET give == Grant(x, free)
        total == x.allocated + give
    IN  IF give = 0
        THEN x
        ELSE [x EXCEPT !.allocated = total,
                       !.reserved = @ + give,
                       !.status = IF total >= x.approved THEN "allocated"
                                  ELSE IF @ = "pending" THEN "approved" ELSE @]

-------------------------------------------------------------------------------
(***************************************************************************)
(* Blockers and the operational status derived from them.                  *)
(***************************************************************************)
Resolved(b) == IF b = "open" THEN "resolved" ELSE b
Cancelled(b) == IF b = "open" THEN "cancelled" ELSE b

AwaitsParts(w, lines, reports) ==
    \/ \E l \in DOMAIN lines : lines[l].wo = w /\ lines[l].blocker = "open"
    \/ \E r \in DOMAIN reports : reports[r].wo = w /\ reports[r].blocker = "open"

DerivedStatus(w, life, lines, reports) ==
    IF AwaitsParts(w, lines, reports) THEN "pending_parts"
    ELSE IF life[w] = "in_progress" THEN "active" ELSE "paused"

\* recompute_operational_status(w) at the end of a step: reads the new rows.
Recomputed(w) ==
    IF lifecycle'[w] = "closed" THEN opStatus
    ELSE [opStatus EXCEPT ![w] = DerivedStatus(w, lifecycle', line', report')]

Recompute(w) == opStatus' = Recomputed(w)

-------------------------------------------------------------------------------
Init ==
    /\ available = InitStock
    /\ legacy \in [WO -> 0..MaxLegacy]
    /\ line = <<>>
    /\ report = <<>>
    /\ lifecycle = [w \in WO |-> "assigned"]
    /\ opStatus = [w \in WO |-> "paused"]

-------------------------------------------------------------------------------
(***************************************************************************)
(* Movements of stock that do not go through a request.                    *)
(***************************************************************************)
StockIn(q) ==
    /\ available + q <= MaxStock
    /\ available' = available + q
    /\ UNCHANGED <<legacy, line, report, lifecycle, opStatus>>

\* A count overwrites the on-hand quantity, whatever is reserved.
PartAdjust(q) ==
    /\ q # available
    /\ available' = q
    /\ UNCHANGED <<legacy, line, report, lifecycle, opStatus>>

\* Mutant: no stock check.
ConsumableUseUnchecked(q) ==
    /\ available' = available - q
    /\ UNCHANGED <<legacy, line, report, lifecycle, opStatus>>

\* consumable_use and issue_consumable look at the on-hand stock only.
ConsumableUse(q) ==
    /\ q <= available
    /\ available' = available - q
    /\ UNCHANGED <<legacy, line, report, lifecycle, opStatus>>

-------------------------------------------------------------------------------
(***************************************************************************)
(* Requests.                                                               *)
(***************************************************************************)
LinesOf(w) == {l \in Lines : line[l].wo = w}

ActiveLinesOf(w) == {l \in LinesOf(w) : line[l].status \in ActiveStatus}
PendingReportsOf(w) ==
    {r \in Reports : report[r].wo = w /\ report[r].status = "pending"}

NewLine(w, q) ==
    [wo |-> w, status |-> "pending", quantity |-> q, requested |-> q,
     approved |-> 0, allocated |-> 0, issued |-> 0, shortage |-> 0,
     reserved |-> 0, report |-> 0, blocker |-> "none"]

NewReport(w, q) ==
    [wo |-> w, status |-> "pending", requested |-> q, qtyIssued |-> 0,
     decision |-> "none", issue |-> 0, procure |-> 0, refused |-> 0,
     pr |-> "none", prQty |-> 0, po |-> 0, blocker |-> "none"]

\* The manager issues straight to the work order.  The row is APPROVED, and
\* its PART_ISSUED event finds no blocker keyed to the new row.
DirectIssue(w, q) ==
    LET take == MinOf(q, Usable)
    IN  /\ lifecycle[w] # "closed"
        /\ LinesOf(w) = {}
        /\ Usable > 0
        /\ Len(line) < MaxLines
        /\ available' = available - take
        /\ line' = Append(line, [NewLine(w, take) EXCEPT
                                   !.status = "approved",
                                   !.approved = take, !.issued = take])
        /\ UNCHANGED <<legacy, report, lifecycle, opStatus>>

\* A request on an emergency work order that stock can cover is saved
\* APPROVED and then issued through _deduct_and_record_issue, whose second
\* APPROVED row breaks unique_active_pil_per_wo_part: it always rolls back.
EmergencyRollback(w, q) == w \in Emergency /\ Usable >= q

RequestPart(w, q) ==
    LET short == IF Usable >= q THEN 0 ELSE q - Usable
        row == [NewLine(w, q) EXCEPT !.shortage = short, !.blocker = "open"]
    IN  /\ lifecycle[w] # "closed"
        /\ ActiveLinesOf(w) = {}
        /\ ~EmergencyRollback(w, q)
        /\ Len(line) < MaxLines
        /\ IF short = 0
           THEN /\ line' = Append(line, row)
                /\ UNCHANGED report
           ELSE /\ PendingReportsOf(w) = {}  \* unique_pending_shortage_per_source_part
                /\ Len(report) < MaxReports
                /\ report' = Append(report, NewReport(w, q))
                /\ line' = Append(line, [row EXCEPT !.report = Len(report) + 1])
        /\ UNCHANGED <<available, legacy, lifecycle>>
        /\ Recompute(w)

\* The technician resubmits a refused line: a bare new row, no blocker, no
\* report, and no look at the work order's lifecycle.
ReReview(l, q) ==
    LET w == line[l].wo
    IN  /\ line[l].status = "rejected"
        /\ Usable >= q \/ available <= 0
        /\ ActiveLinesOf(w) = {}   \* unique_active_pil_per_wo_part
        /\ Len(line) < MaxLines
        /\ line' = Append(line, NewLine(w, q))
        /\ UNCHANGED <<available, legacy, report, lifecycle, opStatus>>

\* get_or_create on the PENDING report of the work order; the PENDING line,
\* when there is one, is linked if it has no report yet.
LinkReport(l, r) ==
    line' = IF line[l].report = 0 THEN [line EXCEPT ![l].report = r] ELSE line

RaiseShortage(w) ==
    LET waiting == {l \in LinesOf(w) : line[l].status = "pending"}
    IN  /\ \/ \E r \in PendingReportsOf(w) :
                \/ \E l \in waiting :
                     /\ report' = [report EXCEPT ![r].requested = line[l].quantity,
                                                 ![r].qtyIssued = line[l].issued]
                     /\ LinkReport(l, r)
                \/ /\ waiting = {}
                   /\ report' = [report EXCEPT ![r].qtyIssued = 0]
                   /\ UNCHANGED line
           \/ /\ PendingReportsOf(w) = {}
              /\ Len(report) < MaxReports
              /\ \E l \in waiting :
                   /\ report' = Append(report, NewReport(w, line[l].quantity))
                   /\ LinkReport(l, Len(report) + 1)
        /\ UNCHANGED <<available, legacy, lifecycle, opStatus>>

-------------------------------------------------------------------------------
(***************************************************************************)
(* The manager's decisions on a line.                                      *)
(***************************************************************************)
ApprovePart(l) ==
    LET x == line[l]
        granted == [x EXCEPT !.status = "approved", !.approved = x.quantity,
                             !.shortage = AtLeastZero(x.requested - x.quantity)]
    IN  /\ x.status = "pending"
        /\ line' = [line EXCEPT ![l] = AllocateOne(granted, FreeStock)]
        /\ UNCHANGED <<available, legacy, report, lifecycle>>
        /\ Recompute(x.wo)

\* Mutant: the PART_REJECTED event is not sent.
RejectedLineSilent(x) == [x EXCEPT !.status = "rejected"]

RejectedLine(x) == [x EXCEPT !.status = "rejected", !.blocker = Cancelled(@)]

RejectPart(l) ==
    /\ line[l].status = "pending"
    /\ line' = [line EXCEPT ![l] = RejectedLine(@)]
    /\ UNCHANGED <<available, legacy, report, lifecycle>>
    /\ Recompute(line[l].wo)

EditPartQty(l, q) ==
    LET x == line[l]
    IN  /\ x.status = "pending"
        /\ line' = [line EXCEPT ![l] =
                      [x EXCEPT !.quantity = q,
                                !.shortage = AtLeastZero(x.requested - q)]]
        /\ UNCHANGED <<available, legacy, report, lifecycle, opStatus>>

\* Mutant: the line's reservation stays ACTIVE.
CancelledLineKeepsStock(x) ==
    [RejectedLine(x) EXCEPT !.approved = 0, !.issued = 0]

\* allocated_qty keeps its value: only the reservation rows are cancelled.
CancelledLine(x) == [RejectedLine(x) EXCEPT !.approved = 0, !.issued = 0, !.reserved = 0]

CancelApproved(l) ==
    LET x == line[l]
    IN  /\ x.status \in {"approved", "allocated"}
        /\ x.issued = 0
        /\ line' = [line EXCEPT ![l] = CancelledLine(x)]
        /\ legacy' = [legacy EXCEPT ![x.wo] = 0]
        /\ UNCHANGED <<available, report, lifecycle>>
        /\ Recompute(x.wo)

-------------------------------------------------------------------------------
(***************************************************************************)
(* The manager's decisions on a shortage report.                           *)
(***************************************************************************)
ValidShortageTransitions ==
    [s \in ReportStatus |->
        CASE s = "pending"        -> {"approved", "rejected"}
          [] s = "approved"       -> {"in_fulfillment", "blocked", "closed"}
          [] s = "in_fulfillment" -> {"fulfilled", "blocked", "closed"}
          [] s = "fulfilled"      -> {"closed"}
          [] s = "blocked"        -> {"in_fulfillment", "closed"}
          [] OTHER                -> {}]

\* report.issue_lines.first(): the newest line linked to the report.
IsRelatedLine(l, r) ==
    /\ line[l].report = r
    /\ \A m \in Lines : line[m].report = r => m <= l

HasRelatedLine(r) == \E l \in Lines : line[l].report = r

\* Mutant: what is to be procured is booked as refused too.
RefusedAndProcured(p, issue, procure) == p.requested - issue

\* rejected_qty, which the decision's clean() ties to the other two.
Refused(p, issue, procure) == p.requested - issue - procure

\* The line part of an approve decision: approved_qty first, so that
\* allocate_one sees the gap; a line still PENDING afterwards is approved.
AllocatedFor(x, issue) ==
    IF issue > 0 THEN AllocateOne([x EXCEPT !.approved = issue], FreeStock) ELSE x

DecideLine(x, issue, procure) ==
    LET given == AllocatedFor(x, issue)
    IN  IF given.status = "pending"
        THEN [given EXCEPT !.status = "approved", !.approved = issue,
                           !.shortage = procure]
        ELSE given

\* auto_create_pr_for_shortage, with the SHORTAGE blocker it opens.
WithRequest(p, procure) ==
    IF procure > 0
    THEN [p EXCEPT !.pr = "pending", !.prQty = procure, !.blocker = "open"]
    ELSE p

ApproveShortage(r, issue, procure) ==
    LET p == report[r]
        decided == [p EXCEPT !.status = "approved", !.decision = "approve",
                             !.issue = issue, !.procure = procure,
                             !.refused = Refused(p, issue, procure)]
    IN  /\ p.status = "pending" /\ p.decision = "none"
        /\ issue + procure > 0
        /\ issue + procure <= p.requested
        /\ report' = [report EXCEPT ![r] = WithRequest(decided, procure)]
        /\ UNCHANGED <<available, legacy, lifecycle>>
        /\ \/ /\ ~HasRelatedLine(r)
              /\ UNCHANGED line
              /\ opStatus' = IF procure > 0 THEN Recomputed(p.wo) ELSE opStatus
           \/ \E l \in Lines :
                /\ IsRelatedLine(l, r)
                /\ issue > 0 => CanAllocate([line[l] EXCEPT !.approved = issue], FreeStock)
                /\ line' = [line EXCEPT ![l] = DecideLine(@, issue, procure)]
                /\ opStatus' = IF procure > 0 \/ AllocatedFor(line[l], issue).status = "pending"
                               THEN Recomputed(p.wo) ELSE opStatus

\* The line itself stays PENDING; without a related line nothing is cancelled.
RejectShortage(r) ==
    LET p == report[r]
    IN  /\ p.status = "pending" /\ p.decision = "none"
        /\ report' = [report EXCEPT ![r] = [p EXCEPT !.status = "rejected",
                                                     !.decision = "reject",
                                                     !.refused = p.requested]]
        /\ \/ /\ ~HasRelatedLine(r)
              /\ UNCHANGED line
           \/ \E l \in Lines :
                /\ IsRelatedLine(l, r)
                /\ line' = [line EXCEPT ![l].blocker = Cancelled(@)]
        /\ UNCHANGED <<available, legacy, lifecycle>>
        /\ Recompute(p.wo)

IsDecisionLocked(r) ==
    report[r].status \in {"in_fulfillment", "fulfilled", "blocked", "closed", "rejected"}

\* Raising the issue quantity allocates; lowering it releases legacy rows of
\* the work order only, and all of it or nothing.
EditShortage(r, issue, procure) ==
    LET p == report[r]
        less == p.issue - issue
    IN  /\ ~IsDecisionLocked(r) /\ p.decision # "none"
        /\ issue + procure > 0
        /\ issue + procure <= p.requested
        /\ <<issue, procure>> # <<p.issue, p.procure>>
        /\ report' = [report EXCEPT ![r] =
                        [p EXCEPT !.issue = issue, !.procure = procure,
                                  !.refused = Refused(p, issue, procure),
                                  !.prQty = IF p.pr # "none" THEN procure ELSE @]]
        /\ \/ /\ ~HasRelatedLine(r) \/ less = 0
              /\ UNCHANGED line
           \/ \E l \in Lines :
                LET x == [line[l] EXCEPT !.approved = issue]
                IN  /\ IsRelatedLine(l, r)
                    /\ less # 0
                    /\ less < 0 => CanAllocate(x, FreeStock)
                    /\ line' = [line EXCEPT ![l] =
                                  IF less < 0 THEN AllocateOne(x, FreeStock) ELSE x]
        /\ legacy' = IF less > 0 /\ legacy[p.wo] >= less
                     THEN [legacy EXCEPT ![p.wo] = @ - less]
                     ELSE legacy
        /\ UNCHANGED <<available, lifecycle, opStatus>>

\* transition_shortage_status(r, CLOSED): reservations of the linked lines and
\* of the work order are cancelled, a PENDING request too, the blocker resolved.
CloseShortage(r) ==
    LET p == report[r]
    IN  /\ "closed" \in ValidShortageTransitions[p.status]
        /\ report' = [report EXCEPT ![r] =
                        [p EXCEPT !.status = "closed",
                                  !.pr = IF @ = "pending" THEN "cancelled" ELSE @,
                                  !.blocker = Resolved(@)]]
        /\ line' = [l \in Lines |-> IF line[l].report = r
                                    THEN [line[l] EXCEPT !.reserved = 0]
                                    ELSE line[l]]
        /\ legacy' = [legacy EXCEPT ![p.wo] = 0]
        /\ UNCHANGED <<available, lifecycle>>
        /\ opStatus' = IF p.blocker = "open" THEN Recomputed(p.wo) ELSE opStatus

BlockShortage(r) ==
    /\ "blocked" \in ValidShortageTransitions[report[r].status]
    /\ report' = [report EXCEPT ![r].status = "blocked"]
    /\ UNCHANGED <<available, legacy, line, lifecycle, opStatus>>

CanBeFulfilled(p) ==
    /\ p.status = "in_fulfillment"
    /\ p.decision = "approve"
    /\ p.qtyIssued >= p.issue

\* Mutant: the SHORTAGE blocker is forgotten.
FulfilledSilent(p) == [p EXCEPT !.status = "fulfilled"]

Fulfilled(p) == [p EXCEPT !.status = "fulfilled", !.blocker = Resolved(@)]

MarkFulfilled(r) ==
    LET p == report[r]
    IN  /\ CanBeFulfilled(p)
        /\ report' = [report EXCEPT ![r] = Fulfilled(p)]
        /\ UNCHANGED <<available, legacy, line, lifecycle>>
        /\ opStatus' = IF p.blocker = "open" THEN Recomputed(p.wo) ELSE opStatus

-------------------------------------------------------------------------------
(***************************************************************************)
(* The warehouse.  Physical stock is checked, other lines' reservations    *)
(* are not, and the quantity is not capped by what the line still needs.   *)
(***************************************************************************)
\* Mutant: the transition table is not consulted.
IssuedAgainstAny(p, q, first) ==
    [p EXCEPT !.qtyIssued = @ + q, !.status = IF first THEN "in_fulfillment" ELSE @]

\* The shortage side: the first issue starts the fulfilment of a report whose
\* transition table allows it; any other transition raises and is swallowed.
IssuedAgainst(p, q, first) ==
    [p EXCEPT !.qtyIssued = @ + q,
              !.status = IF first /\ "in_fulfillment" \in ValidShortageTransitions[@]
                         THEN "in_fulfillment" ELSE @]

\* The rows an issue reads and writes.
Db == [available |-> available, legacy |-> legacy, line |-> line, report |-> report]

CanIssue(db, l, q) ==
    /\ db.line[l].status \in ActiveStatus
    /\ q <= db.available

\* Mutant: issued_qty is overwritten, not added to.
IssuedLineOverwritten(x, q, own) ==
    [x EXCEPT !.status = "issued", !.issued = q, !.reserved = @ - own,
              !.blocker = Resolved(@)]

IssuedLine(x, q, own) ==
    [x EXCEPT !.status = "issued", !.issued = @ + q, !.reserved = @ - own,
              !.blocker = Resolved(@)]

\* The line's own reservation is consumed first, then legacy ones of its
\* work order; the line is ISSUED whatever the quantity was.
IssueFrom(db, l, q) ==
    LET x == db.line[l]
        own == MinOf(x.reserved, q)
        fromLegacy == MinOf(db.legacy[x.wo], q - own)
    IN  [available |-> db.available - q,
         legacy |-> [db.legacy EXCEPT ![x.wo] = @ - fromLegacy],
         line |-> [db.line EXCEPT ![l] = IssuedLine(x, q, own)],
         report |-> IF x.report \in DOMAIN db.report
                    THEN [db.report EXCEPT ![x.report] = IssuedAgainst(@, q, x.issued = 0)]
                    ELSE db.report]

ExecuteIssue(l, q) ==
    LET after == IssueFrom(Db, l, q)
    IN  /\ CanIssue(Db, l, q)
        /\ available' = after.available
        /\ legacy' = after.legacy
        /\ line' = after.line
        /\ report' = after.report
        /\ UNCHANGED lifecycle
        /\ Recompute(line[l].wo)

WarehouseIssue(l, q) == line[l].approved > 0 /\ ExecuteIssue(l, q)

\* manage.py repair_part_lines: each line and each report is a transaction.
RepairLine(l) ==
    /\ line[l].status = "approved"
    /\ line[l].shortage > 0
    /\ line[l].issued = 0
    /\ ExecuteIssue(l, line[l].quantity)

\* The command looks for psr.purchase_request, which no model defines, so a
\* PENDING purchase request does not stop it.
RepairReport(r) ==
    LET p == report[r]
        started == [p EXCEPT !.status = "in_fulfillment"]
    IN  /\ p.status = "approved"
        /\ report' = [report EXCEPT ![r] =
                        [started EXCEPT !.blocker = IF p.qtyIssued >= p.issue
                                                    THEN Resolved(@) ELSE @]]
        /\ UNCHANGED <<available, legacy, line, lifecycle>>
        /\ Recompute(p.wo)

\* manage.py reconcile_legacy_reservations cancels the legacy rows.
ReconcileLegacy(w) ==
    /\ legacy[w] > 0
    /\ legacy' = [legacy EXCEPT ![w] = 0]
    /\ UNCHANGED <<available, line, report, lifecycle, opStatus>>

-------------------------------------------------------------------------------
(***************************************************************************)
(* The work order's lifecycle, as far as parts depend on it.               *)
(***************************************************************************)
ValidLifecycleTransitions ==
    [s \in Lifecycle |->
        CASE s = "assigned"       -> {"in_progress", "pending_review"}
          [] s = "in_progress"    -> {"pending_review", "assigned"}
          [] s = "pending_review" -> {"closed", "in_progress", "assigned"}
          [] OTHER                -> {}]

\* release_stale_reservations_for_wo: a line with unmet demand keeps its own.
ReleaseStale(x, w) ==
    IF x.wo = w /\ x.issued >= x.approved THEN [x EXCEPT !.reserved = 0] ELSE x

TransitionWorkOrder(w, to) ==
    /\ to \in ValidLifecycleTransitions[lifecycle[w]]
    /\ lifecycle' = [lifecycle EXCEPT ![w] = to]
    /\ IF to = "closed"
       THEN /\ line' = [l \in Lines |-> ReleaseStale(line[l], w)]
            /\ legacy' = [legacy EXCEPT ![w] = 0]
       ELSE UNCHANGED <<line, legacy>>
    /\ UNCHANGED <<available, report>>
    /\ Recompute(w)

-------------------------------------------------------------------------------
Stock == \/ \E q \in Qty : StockIn(q) \/ ConsumableUse(q)
         \/ \E q \in 0..MaxStock : PartAdjust(q)

Technician ==
    \E w \in WO :
        \/ RaiseShortage(w)
        \/ \E q \in Qty : RequestPart(w, q) \/ DirectIssue(w, q)
        \/ \E l \in Lines, q \in Qty : line[l].wo = w /\ ReReview(l, q)

LineDecision ==
    \E l \in Lines :
        \/ ApprovePart(l) \/ RejectPart(l) \/ CancelApproved(l)
        \/ \E q \in Qty : EditPartQty(l, q)

ShortageDecision ==
    \E r \in Reports :
        \/ RejectShortage(r) \/ CloseShortage(r) \/ BlockShortage(r) \/ MarkFulfilled(r)
        \/ \E i, p \in 0..MaxQty : ApproveShortage(r, i, p) \/ EditShortage(r, i, p)

Warehouse ==
    \/ \E l \in Lines : RepairLine(l) \/ \E q \in Qty : WarehouseIssue(l, q)
    \/ \E r \in Reports : RepairReport(r)
    \/ \E w \in WO : ReconcileLegacy(w)

WorkOrders == \E w \in WO, s \in Lifecycle : TransitionWorkOrder(w, s)

Next == Stock \/ Technician \/ LineDecision \/ ShortageDecision \/ Warehouse \/ WorkOrders

Spec == Init /\ [][Next]_vars

-------------------------------------------------------------------------------
(***************************************************************************)
(* Properties.                                                             *)
(***************************************************************************)
\* The rows keep their columns' types; on-hand stock never goes negative.
TypeOK ==
    /\ available \in Nat
    /\ legacy \in [WO -> Nat]
    /\ line \in Seq(LineRow)
    /\ report \in Seq(ReportRow)
    /\ lifecycle \in [WO -> Lifecycle]
    /\ opStatus \in [WO -> OpStatus]

\* A line that was refused or cancelled holds no stock back: no path leaves
\* an ACTIVE reservation behind a REJECTED line (reject_part_request releases
\* nothing, so it must only ever meet lines without one).
RefusedHoldsNothing ==
    \A l \in Lines : line[l].status \in {"pending", "rejected"} => line[l].reserved = 0

\* An OPEN PART blocker always waits for a line somebody can still move: a
\* work order is never stuck on pending_parts because of a finished line.
NoOrphanPartBlocker ==
    \A l \in Lines : line[l].blocker = "open" => line[l].status \in ActiveStatus

\* An OPEN SHORTAGE blocker always waits for a report that is still being
\* procured or fulfilled, never for a closed, fulfilled or refused one.
NoOrphanShortageBlocker ==
    \A r \in Reports : report[r].blocker = "open" =>
        report[r].status \in {"approved", "in_fulfillment", "blocked"}

\* The operational status on screen is the one the open blockers imply, in
\* every state and not only after a recompute, until the work order closes.
StatusMatchesBlockers ==
    \A w \in WO : lifecycle[w] # "closed" =>
        opStatus[w] = DerivedStatus(w, lifecycle, line, report)

\* A line's reservation never exceeds what allocation granted it.
ReservedWasAllocated == \A l \in Lines : line[l].reserved <= line[l].allocated

\* The three quantities of a recorded decision add up to the report's
\* requested quantity, although raising the shortage again rewrites it.
BooksBalance ==
    \A r \in Reports :
        LET p == report[r]
        IN  p.decision # "none" => p.issue + p.procure + p.refused = p.requested

\* Allocation only hands out stock that nobody holds: whenever the reserved
\* total grows it stays within the stock on hand.
AllocationIsBacked ==
    [][QuantityReserved' > QuantityReserved => QuantityReserved' <= available']_vars

\* Requests, decisions, issues and repairs neither create nor lose units: what
\* leaves the shelf in such a step is on the lines, whatever path issued it.
UnitsIssued(lines) == Total([l \in DOMAIN lines |-> lines[l].issued])

UnitsConserved ==
    [][<<line, report>>' # <<line, report>> =>
         available' + UnitsIssued(line') = available + UnitsIssued(line)]_vars

\* Every status change of a shortage report is an edge of the transition
\* table, also those made by decisions, the warehouse and the repair command
\* that do not go through transition_shortage_status.
ShortageFollowsTable ==
    [][\A r \in Reports :
         report'[r].status = report[r].status
         \/ report'[r].status \in ValidShortageTransitions[report[r].status]]_vars

===============================================================================
