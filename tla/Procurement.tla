------------------------------ MODULE Procurement ------------------------------
(***************************************************************************)
(* Purchase requests and purchase orders (procurement/views.py), composed  *)
(* with the part pipeline they feed.  The requests are those a shortage    *)
(* decision creates: one per report, kept in its row (pr, prQty, po).      *)
(* Those an officer writes by hand for a work order without a report,      *)
(* whose lines a receipt issues to as well, are left out.  An order has    *)
(* one item, for the modelled part.  A unit is the least quantity, 0.001.  *)
(*                                                                         *)
(* purchase_order_receive is the long handler: stock in, reallocation to   *)
(* the waiting lines in priority order, order and request status, issue to *)
(* the linked work orders, and the shortage reports, in one transaction.   *)
(***************************************************************************)
EXTENDS PartPipeline

CONSTANT MaxOrders   \* bound: rows of PurchaseOrder

ASSUME MaxOrdersAssumption == MaxOrders \in Nat

VARIABLE po          \* the PurchaseOrder rows with their item

pvars == <<available, legacy, line, report, lifecycle, opStatus, po>>

POStatus == {"draft", "sent", "partial", "received", "closed_short", "cancelled"}

PORow == [status: POStatus, ordered: Nat, received: Nat, damaged: Nat,
          backordered: Nat]

Orders == DOMAIN po

IsLocked(o) == po[o].status \in {"received", "closed_short", "cancelled"}

NewOrder(q) == [status |-> "draft", ordered |-> q, received |-> 0,
                damaged |-> 0, backordered |-> 0]

LinkedTo(o) == {r \in Reports : report[r].po = o}

PInit == Init /\ po = <<>>

-------------------------------------------------------------------------------
(***************************************************************************)
(* Orders.                                                                 *)
(***************************************************************************)
\* A new order of q units plus the selected PENDING requests, merged into one
\* line.  Its form may set any status at once: that is EditOrder's step.
CreateOrder(q, S) ==
    /\ \A r \in S : report[r].pr = "pending"
    /\ q > 0 \/ S # {}
    /\ Len(po) < MaxOrders
    /\ po' = Append(po, NewOrder(q + Total([r \in S |-> report[r].prQty])))
    /\ report' = [r \in Reports |->
                    IF r \in S THEN [report[r] EXCEPT !.pr = "converted_to_po",
                                                      !.po = Len(po) + 1]
                    ELSE report[r]]
    /\ UNCHANGED <<available, legacy, line, lifecycle, opStatus>>

\* From one request, whatever its status: an earlier order loses the request.
CreateOrderFromRequest(r) ==
    /\ report[r].pr # "none"
    /\ Len(po) < MaxOrders
    /\ po' = Append(po, NewOrder(report[r].prQty))
    /\ report' = [report EXCEPT ![r].pr = "converted_to_po", ![r].po = Len(po) + 1]
    /\ UNCHANGED <<available, legacy, line, lifecycle, opStatus>>

\* PurchaseOrderService.reorder: a finished order is cloned, without its requests.
Reorder(o) ==
    /\ IsLocked(o)
    /\ Len(po) < MaxOrders
    /\ po' = Append(po, NewOrder(po[o].ordered))
    /\ UNCHANGED vars

\* The order form writes any status as long as the order is not locked.
EditOrder(o, s) ==
    /\ ~IsLocked(o)
    /\ po' = [po EXCEPT ![o].status = s]
    /\ UNCHANGED vars

\* The officer form writes the request's status and tells nobody.
OfficerEdit(r, s) ==
    /\ report[r].pr # "none"
    /\ report' = [report EXCEPT ![r].pr = s]
    /\ UNCHANGED <<available, legacy, line, lifecycle, opStatus, po>>

\* The work orders whose blockers a step resolved are recomputed.
RecomputeAll(W) ==
    opStatus' = [w \in WO |-> IF w \in W THEN Recomputed(w)[w] ELSE opStatus[w]]

Released(S) == {report[r].wo : r \in {q \in S : report[q].blocker = "open"}}

\* Mutant: the operational status is left to a later step.
ReleaseQuietly(told) == UNCHANGED opStatus

\* The SHORTAGE blockers the requests' reports held open are gone.
ReleaseAll(told) == RecomputeAll(Released(told))

CloseShort(o) ==
    LET told == {r \in LinkedTo(o) : report[r].pr \in {"pending", "partially_fulfilled"}}
    IN  /\ po[o].status \in {"partial", "sent"}
        /\ po' = [po EXCEPT ![o].status = "closed_short", ![o].backordered = 0]
        /\ report' = [r \in Reports |->
                        IF r \in told
                        THEN [report[r] EXCEPT !.pr = "partially_fulfilled",
                                               !.blocker = Resolved(@)]
                        ELSE report[r]]
        /\ UNCHANGED <<available, legacy, line, lifecycle>>
        /\ ReleaseAll(told)

CancelOrder(o) ==
    LET told == {r \in LinkedTo(o) : report[r].pr \notin {"fulfilled", "cancelled"}}
    IN  /\ po[o].status \in {"draft", "sent"}
        /\ po' = [po EXCEPT ![o].status = "cancelled"]
        /\ report' = [r \in Reports |->
                        IF r \in told
                        THEN [report[r] EXCEPT !.pr = "pending", !.blocker = Resolved(@)]
                        ELSE report[r]]
        /\ UNCHANGED <<available, legacy, line, lifecycle>>
        /\ ReleaseAll(told)

-------------------------------------------------------------------------------
(***************************************************************************)
(* Receiving.                                                              *)
(***************************************************************************)
FreeIn(db) == AtLeastZero(db.available - ReservedIn(db.line, db.legacy))

\* A line that already holds a reservation raises and is passed over.
AllocateNext(db, l) ==
    IF CanAllocate(db.line[l], FreeIn(db))
    THEN [db EXCEPT !.line[l] = AllocateOne(@, FreeIn(db))]
    ELSE db

\* The open lines of the work orders in W take their turn in creation order.
InTurn(db, W) ==
    LET served[l \in 0..Len(line)] ==
          IF l = 0 THEN db
          ELSE IF line[l].status \in ActiveStatus /\ line[l].wo \in W
               THEN AllocateNext(served[l - 1], l)
               ELSE served[l - 1]
    IN  served[Len(line)]

\* Mutant: first come, first served.
ReallocateByAge(db) == InTurn(db, WO)

\* reallocate_for_part: emergency work orders first, then creation order.
Reallocate(db) == InTurn(InTurn(db, Emergency), WO \ Emergency)

\* auto_fulfill_wo_lines_from_po for one linked request: its work order's open
\* line gets what it still lacks, up to all the order has ever received.
OpenLinesOf(db, w) ==
    {l \in DOMAIN db.line : db.line[l].wo = w
                            /\ db.line[l].status \in {"approved", "allocated"}
                            /\ db.line[l].approved > db.line[l].issued}

\* _try_auto_fulfill_shortage.
TryFulfil(db, r) ==
    IF r \in DOMAIN db.report /\ CanBeFulfilled(db.report[r])
    THEN [db EXCEPT !.report[r] = Fulfilled(@)] ELSE db

AutoFulfil(db, w, received) ==
    IF received = 0 \/ OpenLinesOf(db, w) = {} THEN db
    ELSE LET l == CHOOSE m \in OpenLinesOf(db, w) : \A n \in OpenLinesOf(db, w) : m <= n
             q == MinOf(received, db.line[l].approved - db.line[l].issued)
         IN  IF CanIssue(db, l, q)
             THEN TryFulfil(IssueFrom(db, l, q), db.line[l].report)
             ELSE db

\* An in_fulfillment report of a linked request becomes FULFILLED.
FinishReport(p, status) ==
    LET told == [p EXCEPT !.pr = status]
    IN  IF p.status = "in_fulfillment" THEN Fulfilled(told) ELSE told

Booking(good, damaged) == [good |-> good, damaged |-> damaged]

\* Mutant: whatever arrives is booked.
Uncapped(row, good, damaged) == {Booking(good, damaged)}

\* Decimal.quantize: the units nearest to n/d.  Halfway, either of the two, as
\* the ratio before it was cut to 28 digits.
Nearest(n, d) == {k \in 0..n : 2 * k * d <= 2 * n + d /\ 2 * n <= 2 * k * d + d}

\* More than the remaining quantity is scaled down, unless nothing remained:
\* good and damaged units each by the same ratio, each rounded for itself.
Capped(row, good, damaged) ==
    LET arrived == good + damaged
        remaining == row.ordered - row.received
    IN  IF arrived > remaining /\ remaining > 0
        THEN {Booking(g, d) : g \in Nearest(good * remaining, arrived),
                              d \in Nearest(damaged * remaining, arrived)}
        ELSE {Booking(good, damaged)}

\* Mutant: damaged units go to the shelf too.
StockedWithDamaged(good, damaged) == [Db EXCEPT !.available = @ + good + damaged]

\* Good units are stocked in, damaged ones quarantined.
Stocked(good, damaged) == [Db EXCEPT !.available = @ + good]

\* One auto-issue per linked request, newest first.
IssueLinked(db, o, total) ==
    LET after[k \in 0..Len(report)] ==
          LET r == Len(report) + 1 - k
          IN  IF k = 0 THEN db
              ELSE IF r \in LinkedTo(o) THEN AutoFulfil(after[k - 1], report[r].wo, total)
                   ELSE after[k - 1]
    IN  after[Len(report)]

\* Stock in, reallocation, then the issues.
Received(o, good, damaged, total) ==
    LET stocked == Stocked(good, damaged)
    IN  IssueLinked(IF good + damaged > 0 THEN Reallocate(stocked) ELSE stocked, o, total)

\* The handler once it knows what to book; touched: something was typed for
\* the item.
Book(o, booked, touched) ==
    LET row == po[o]
        total == row.received + booked.good + booked.damaged
        complete == total >= row.ordered
        after == Received(o, booked.good, booked.damaged, total)
        prStatus == IF complete THEN "fulfilled" ELSE "partially_fulfilled"
    IN  /\ available + booked.good <= MaxStock
        /\ po' = [po EXCEPT ![o] =
                    [row EXCEPT !.received = total,
                                !.damaged = @ + booked.damaged,
                                !.backordered = IF touched
                                                THEN AtLeastZero(row.ordered - total)
                                                ELSE @,
                                !.status = IF complete THEN "received" ELSE "partial"]]
        /\ available' = after.available
        /\ legacy' = after.legacy
        /\ line' = after.line
        /\ report' = [r \in Reports |-> IF report[r].po = o
                                        THEN FinishReport(after.report[r], prStatus)
                                        ELSE after.report[r]]
        /\ UNCHANGED lifecycle
        /\ RecomputeAll({line[l].wo : l \in {m \in Lines : line'[m].issued # line[m].issued}}
                        \cup {report[r].wo : r \in {q \in Reports :
                                 report'[q].blocker # report[q].blocker}})

\* rejected units are counted nowhere else, but an item with some is touched.
Receive(o, good, damaged, rejected) ==
    /\ ~IsLocked(o)
    /\ \E booked \in Capped(po[o], good, damaged) :
         Book(o, booked, good + damaged + rejected > 0)

-------------------------------------------------------------------------------
Ordering ==
    \/ \E q \in 0..MaxQty, S \in SUBSET Reports : CreateOrder(q, S)
    \/ \E r \in Reports : \/ CreateOrderFromRequest(r)
                          \/ \E s \in PRStatus \ {"none"} : OfficerEdit(r, s)
    \/ \E o \in Orders : \/ Reorder(o) \/ CloseShort(o) \/ CancelOrder(o)
                         \/ \E s \in POStatus : EditOrder(o, s)

Receiving ==
    \E o \in Orders, good, damaged \in 0..MaxQty, rejected \in 0..1 :
        Receive(o, good, damaged, rejected)

PNext == (Next /\ UNCHANGED po) \/ Ordering \/ Receiving

PSpec == PInit /\ [][PNext]_pvars

\* Two work orders that compete for what is received: requests, decisions and
\* the warehouse next to all of procurement, without counts, repairs,
\* re-reviews and the lifecycle.
Competing ==
    \/ \E w \in WO, q \in Qty : RequestPart(w, q)
    \/ \E l \in Lines : ApprovePart(l) \/ \E q \in Qty : WarehouseIssue(l, q)
    \/ \E r \in Reports, i, p \in 0..MaxQty : ApproveShortage(r, i, p)

CompetingNext == (Competing /\ UNCHANGED po) \/ Ordering \/ Receiving

CompetingSpec == PInit /\ [][CompetingNext]_pvars

\* A shortage procured by orders that are cloned, cut short, cancelled, edited
\* and received in parts; the officer and the warehouse stay out of it.
Short ==
    \/ \E w \in WO, q \in Qty : RequestPart(w, q)
    \/ \E r \in Reports, i, p \in 0..MaxQty : ApproveShortage(r, i, p)

Shortened ==
    \/ \E q \in 0..MaxQty, S \in SUBSET Reports : CreateOrder(q, S)
    \/ \E r \in Reports : CreateOrderFromRequest(r)
    \/ \E o \in Orders : \/ Reorder(o) \/ CloseShort(o) \/ CancelOrder(o)
                         \/ \E s \in POStatus : EditOrder(o, s)

ShortNext == (Short /\ UNCHANGED po) \/ Shortened \/ Receiving

ShortSpec == PInit /\ [][ShortNext]_pvars

-------------------------------------------------------------------------------
(***************************************************************************)
(* Properties.                                                             *)
(***************************************************************************)
\* No sequence of partial receipts books more than was ordered, but for the one
\* unit that rounding good and damaged quantities apart can add to the receipt
\* that completes the order; an order that can still be received has a
\* quantity open.
NeverOverReceived ==
    \A o \in Orders :
      po[o].ordered > 0 =>
        /\ po[o].received <= po[o].ordered + 1
        /\ po[o].received >= po[o].ordered => po[o].status = "received"

\* The pipeline's rows and the orders keep their types through receipts, edits
\* and closings, and no order is received beyond its quantity and that unit.
ProcurementInv == TypeOK /\ po \in Seq(PORow) /\ NeverOverReceived

\* A receipt is booked once: the good units are on the shelf or on the lines
\* the auto-issue served, however many requests the order serves.
GoodUnits(orders) ==
    Total([o \in DOMAIN orders |-> orders[o].received - orders[o].damaged])

ReceiptConserved ==
    [][po' # po =>
         available' + UnitsIssued(line') - GoodUnits(po')
           = available + UnitsIssued(line) - GoodUnits(po)]_pvars

\* Reallocation serves the queue in the order reallocate_for_part sorts it: a
\* line gains in a receipt only when every line ahead of it (emergency first,
\* then older) lacks nothing or already holds a reservation.
Ahead(m, l) ==
    \/ line[m].wo \in Emergency /\ line[l].wo \notin Emergency
    \/ (line[m].wo \in Emergency <=> line[l].wo \in Emergency) /\ m < l

QueueRespected ==
    [][po' # po =>
         \A l, m \in Lines :
            /\ line'[l].allocated > line[l].allocated
            /\ Ahead(m, l)
            /\ line[m].status \in ActiveStatus
            /\ line[m].reserved = 0
            => line'[m].allocated >= line[m].approved]_pvars
===============================================================================
