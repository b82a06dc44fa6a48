----------------------------- MODULE Contention -------------------------------
(***************************************************************************)
(* Requests that meet at the same part: approvals, cancellations and       *)
(* warehouse issues of its lines, emergency requests for it, receipts of a *)
(* purchase order item, and purchase orders made from the same purchase    *)
(* request; and those for another part of the same work order, of which    *)
(* only the rows that they share with these appear.                        *)
(*                                                                         *)
(* PartPipeline and Procurement take a handler as one step; here a handler *)
(* is a READ COMMITTED transaction with the row locks it takes, one after  *)
(* the other and held to the end.  It works on the copies the view read    *)
(* before the transaction; its writes appear when it commits.  A receipt   *)
(* is for stock (no work order waits for it) and all of it is good.  The   *)
(* lines are of different work orders (one has one active line of a part), *)
(* and the part has a price.                                               *)
(***************************************************************************)
EXTENDS Totals, Sequences

CONSTANTS
    Conn,      \* database connections
    Line,      \* the lines asking for the part
    Queue,     \* the lines as reallocation takes them
    Asked,     \* per line, the quantity asked for
    OnHand,    \* on-hand stock at the start
    Ordered,   \* units of the purchase order item
    MaxUnits,  \* bound: units of one issue or receipt
    MaxOps     \* bound: requests begun

ASSUME ContentionAssumption ==
    /\ IsFiniteSet(Line)
    /\ Asked \in [Line -> Nat \ {0}]
    /\ Queue \in Seq(Line)
    /\ \A i, j \in DOMAIN Queue : Queue[i] = Queue[j] => i = j   \* rows of one query
    /\ {OnHand, Ordered, MaxUnits, MaxOps} \subseteq Nat

VARIABLES
    stock,    \* Inventory.quantity_available
    line,     \* the PartIssueLine rows
    res,      \* per line, its ACTIVE InventoryReservation
    item,     \* received_qty of the PurchaseOrderItem
    pr,       \* the PurchaseRequest row
    tx,       \* the request each session is serving
    begun,    \* requests begun so far
    moved,    \* per line, units its StockMovement rows show
    arrived,  \* units stocked in
    raced     \* the rows written from a copy that had been overtaken

svars == <<stock, line, res, item, pr, tx, begun, moved, arrived, raced>>

LineStatus == {"pending", "approved", "allocated", "issued", "rejected"}
LineRow == [status: LineStatus, approved: Nat, allocated: Nat, issued: Nat]

\* id: which row it is; qty: 0 if it is not ACTIVE any more.
Reservation == [id: Nat, qty: Nat]

\* ordered: how often some purchase order took the request's units in; again:
\* how often it was ordered from its own page when that showed it as converted.
RequestRow == [status: {"pending", "converted"}, ordered: Nat, again: Nat]

\* What is locked: the Inventory row, the purchase order and its item, a line,
\* its reservation, its work order and that work order's cost card.
Resource == {"stock", "order", "item"} \X {"the"} \cup {"line", "res", "wo", "card"} \X Line
Stock == <<"stock", "the">>
Order == <<"order", "the">>
Item == <<"item", "the">>
Pr == <<"pr", "the">>

\* The pages that order a request; requests for another part of a line's work
\* order: a decision, an issue.
OrderPage == {"order", "again"}
Elsewhere == {"decide", "hand_out"}
Op == {"approve", "cancel", "issue", "urgent", "receive"} \cup OrderPage \cup Elsewhere

\* asked, qty: units typed in, and taken; saw, had, req: copies of the line, the
\* item and the request; on: the stock as read under its lock; id: the reservation
\* to release; rows: the lines to allocate to, todo: those left; grant: what the
\* next one gets; give: reservations inserted; books: what free stock was read from.
NewTx(op, l, q, s) ==
    [op |-> op, l |-> l, asked |-> q, qty |-> q, step |-> s, saw |-> line[l],
     had |-> item, req |-> pr, on |-> 0, id |-> 0, rows |-> line, todo |-> <<>>,
     grant |-> 0, give |-> [k \in Line |-> 0], books |-> {}, locks |-> {}]

TxTypeOK(t) ==
    /\ t.op \in Op
    /\ t.step \in {"invoice", "read", "saved", "release", "write", "take", "update", "insert",
                   "status", "commit"}
    /\ t.locks \subseteq Resource
    /\ {t.qty, t.on, t.grant} \subseteq Nat
    /\ t.give \in [Line -> Nat]

ContentionInit ==
    /\ stock = OnHand
    /\ line = [l \in Line |-> [status |-> "pending", approved |-> 0, allocated |-> 0, issued |-> 0]]
    /\ res = [l \in Line |-> [id |-> 0, qty |-> 0]]
    /\ item = 0
    /\ pr = [status |-> "pending", ordered |-> 0, again |-> 0]
    /\ tx = [x \in Conn |-> {}]
    /\ begun = 0
    /\ moved = [l \in Line |-> 0]
    /\ arrived = 0
    /\ raced = {}

-------------------------------------------------------------------------------
(***************************************************************************)
(* The views.                                                              *)
(***************************************************************************)
rowvars == <<stock, line, res, item, pr, moved, arrived, raced>>

\* Mutant: a line may be approved whatever became of it.
ApprovableAny(l) == TRUE

Approvable(l) == line[l].status = "pending"

Cancellable(l) == line[l].status \in {"approved", "allocated"} /\ line[l].issued = 0

\* Mutant: a request is ordered whatever its status.
OrderableAny == TRUE

Orderable == pr.status = "pending"

\* The status checks, made on the copies; ordering a request from its own page
\* has none.
MayBegin(op, l) ==
    \/ op = "approve" /\ Approvable(l)
    \/ op = "cancel" /\ Cancellable(l)
    \/ op = "issue" /\ line[l].status \in {"pending", "approved", "allocated"} /\ line[l].approved > 0
    \/ op = "receive" /\ item < Ordered
    \/ op = "order" /\ Orderable
    \/ op \in {"again", "urgent"} \cup Elsewhere

\* A receipt may have an invoice reference typed in.
FirstStep(op) ==
    IF op = "receive" THEN {"invoice", "read"}
    ELSE IF op \in Elsewhere THEN {"status"} ELSE {"read"}

Begin(x, op, l, q) ==
    /\ begun < MaxOps
    /\ tx[x] = {}
    /\ MayBegin(op, l)
    /\ op \notin {"issue", "receive"} => q = 1
    /\ op \in {"receive"} \cup OrderPage => l = Queue[1]
    /\ \E s \in FirstStep(op) : tx' = [tx EXCEPT ![x] = {NewTx(op, l, q, s)}]
    /\ begun' = begun + 1
    /\ UNCHANGED rowvars

-------------------------------------------------------------------------------
(***************************************************************************)
(* Locks.                                                                  *)
(***************************************************************************)
\* select_for_update, UPDATE and the unique index wait for whoever wrote the row.
Unlocked(x, r) == \A y \in Conn \ {x} : \A u \in tx[y] : r \notin u.locks

\* Mutant: a receipt reads the Inventory row without a lock.
StockLockOfIssue(t) == IF t.op = "issue" THEN {Stock} ELSE {}

StockLock(t) == {Stock}

\* Mutant: an approval locks the stock after the line.
LateLockOfStock(t) == IF t.op = "approve" THEN {Stock} ELSE {}

\* Free stock is read without a lock.
LateLock(t) == {}

\* At the end an issue posts its cost and then recomputes the work order's status,
\* the others recompute it and then refresh the card.
CardFirst == {"issue", "hand_out"}
JobRow(t) == {<<"wo", t.l>>}
CardRow(t) == {<<"card", t.l>>}

\* The row lock the next step of a transaction takes.  An issue looks for ACTIVE
\* reservations, a cancellation for the row it found before.
Needs(t) ==
    CASE t.step = "invoice" -> {Order}
      [] t.step = "read" /\ t.op = "approve" -> {<<"line", t.l>>}
      [] t.step = "read" /\ t.op = "issue" -> StockLock(t)
      [] t.step = "read" /\ t.op = "urgent" -> JobRow(t)
      [] t.step = "read" /\ t.op = "receive" -> {Item}
      [] t.step = "saved" /\ t.op \in {"receive", "urgent"} -> StockLock(t)
      [] t.step = "release" /\ t.op = "issue" /\ res[t.l].qty > 0 -> {<<"res", t.l>>}
      [] t.step = "release" /\ t.op = "cancel" /\ t.id # 0 -> {<<"res", t.l>>}
      [] t.step = "write" -> {<<"line", t.l>>}
      [] t.step = "take" /\ t.todo # <<>> -> LateLock(t)
      [] t.step = "update" -> {<<"line", Head(t.todo)>>}
      [] t.step = "insert" -> {<<"res", Head(t.todo)>>}
      [] t.step = "take" /\ t.todo = <<>> -> IF t.op = "receive" THEN {Order} ELSE JobRow(t)
      [] t.step = "status" -> IF t.op \in CardFirst THEN CardRow(t) ELSE JobRow(t)
      [] t.step = "commit" -> IF t.op \in CardFirst THEN JobRow(t) ELSE CardRow(t)
      [] OTHER -> {}

Waits(x, y) == \E t \in tx[x], u \in tx[y] : Needs(t) \cap u.locks # {}
Deadlocked(x) == \E y \in Conn \ {x} : Waits(x, y) /\ Waits(y, x)

Ready(x, t) == \A r \in Needs(t) : Unlocked(x, r)

\* A step of x's transaction t to u that waits for its locks and commits nothing.
Step(x, t, u) ==
    /\ t \in tx[x]
    /\ Ready(x, t)
    /\ tx' = [tx EXCEPT ![x] = {[u EXCEPT !.locks = @ \cup Needs(t)]}]
    /\ UNCHANGED <<rowvars, begun>>

-------------------------------------------------------------------------------
(***************************************************************************)
(* Allocation, in an approval and in a receipt.                            *)
(***************************************************************************)
Reserved == Total([l \in Line |-> res[l].qty])
OwnStock(t) == IF t.op = "receive" THEN t.on + t.qty ELSE stock

\* Mutant: free stock is read without the reservations.
FreeStockGross(t) == OwnStock(t)

\* free_stock_for_part: what others have committed and the session's own rows.
FreeStock(t) ==
    LET free == OwnStock(t) - Reserved - Total(t.give)
    IN  IF free > 0 THEN free ELSE 0

Grant(t, l) ==
    LET gap  == t.rows[l].approved - t.rows[l].allocated
        free == FreeStock(t)
    IN  IF t.rows[l].status \in {"pending", "approved", "allocated"} /\ gap > 0
        THEN (IF gap < free THEN gap ELSE free)
        ELSE 0

\* approve_part_request: the line is locked, the locked row thrown away and the
\* copy of the view approved and allocated to.
LockLine(x, t) ==
    /\ t.op = "approve"
    /\ t.step = "read"
    /\ Step(x, t, [t EXCEPT !.step = "take", !.todo = <<t.l>>,
                            !.rows = [@ EXCEPT ![t.l] = [t.saw EXCEPT !.approved = Asked[t.l],
                                                                      !.status = "approved"]]])

\* The head of allocate_one, for the next line.
Take(x, t) ==
    /\ t.step = "take"
    /\ t.todo # <<>>
    /\ LET g == Grant(t, Head(t.todo))
           u == [t EXCEPT !.books = IF @ = {} THEN {<<stock, res>>} ELSE @]
       IN  Step(x, t, IF g = 0 THEN [u EXCEPT !.todo = Tail(@)]
                      ELSE [u EXCEPT !.step = "update", !.grant = g])

\* The line is saved.
Update(x, t) == t.step = "update" /\ Step(x, t, [t EXCEPT !.step = "insert"])

\* uniq_active_reservation_per_line
Clashes(t) == res[Head(t.todo)].qty > 0

Insert(x, t) ==
    /\ t.step = "insert"
    /\ ~ Clashes(t)
    /\ Step(x, t, [t EXCEPT !.step = "take", !.todo = Tail(@), !.grant = 0,
                            !.give = [@ EXCEPT ![Head(t.todo)] = t.grant]])

\* The savepoint is rolled back and the error swallowed: a receipt goes on with the
\* next line, an approval without recomputing the work order's status.
Skipped(t) ==
    [t EXCEPT !.step = IF t.op = "receive" THEN "take" ELSE "commit", !.todo = Tail(@), !.grant = 0,
              !.locks = IF t.op = "receive" THEN @ \ {<<"line", Head(t.todo)>>} ELSE @]

\* The index refuses the row, or the database picks the allocation as the victim
\* of a deadlock.
InsertFails(x, t) ==
    /\ t \in tx[x]
    /\ t.step = "insert"
    /\ \/ Clashes(t) /\ Ready(x, t)
       \/ Deadlocked(x)
    /\ tx' = [tx EXCEPT ![x] = {Skipped(t)}]
    /\ UNCHANGED <<rowvars, begun>>

\* The columns allocate_one saves.
Allocated(t, l) ==
    LET row == t.rows[l]
        sum == row.allocated + t.give[l]
    IN  [line[l] EXCEPT !.allocated = sum,
                        !.status = IF sum >= row.approved THEN "allocated"
                                   ELSE IF row.status = "pending" THEN "approved"
                                   ELSE row.status]

Gives(t) == {l \in Line : t.give[l] > 0}

Inserted(t) ==
    [l \in Line |-> IF l \in Gives(t)
                    THEN [id |-> res[l].id + 1, qty |-> res[l].qty + t.give[l]] ELSE res[l]]

\* The last row is written and everything appears.  The last step of an issue, which
\* ends the line's blocker, is a savepoint: picked as the victim of a deadlock it is
\* rolled back, and the issue goes on without it.
Commits(x, t) ==
    /\ t \in tx[x]
    /\ Ready(x, t) \/ (t.op = "issue" /\ Deadlocked(x))
    /\ tx' = [tx EXCEPT ![x] = {}]
    /\ UNCHANGED <<begun, pr>>

\* recompute_operational_status locks the work order, or the cost card is saved.
Recompute(x, t) ==
    /\ \/ t.step = "status"
       \/ t.op = "approve" /\ t.step = "take" /\ t.todo = <<>>
    /\ Step(x, t, [t EXCEPT !.step = "commit"])

CommitElsewhere(x, t) ==
    /\ t.op \in Elsewhere
    /\ t.step = "commit"
    /\ Commits(x, t)
    /\ UNCHANGED <<stock, line, res, item, moved, arrived, raced>>

LineRaced(l, saw) == IF saw # line[l] THEN {<<"line", l>>} ELSE {}

CommitApproval(x, t) ==
    LET row == IF t.l \in Gives(t) THEN Allocated(t, t.l)
               ELSE [line[t.l] EXCEPT !.status = "approved"]
    IN  /\ t.op = "approve"
        /\ t.step = "commit"
        /\ Commits(x, t)
        /\ line' = [line EXCEPT ![t.l] = [row EXCEPT !.approved = Asked[t.l]]]
        /\ res' = Inserted(t)
        /\ raced' = raced \cup LineRaced(t.l, t.saw)
        /\ UNCHANGED <<stock, item, moved, arrived>>

-------------------------------------------------------------------------------
(***************************************************************************)
(* Warehouse issue and cancellation.                                       *)
(***************************************************************************)
InStock(t) == stock >= t.qty

\* execute_warehouse_issue: the stock is locked, then checked.
LockStock(x, t) ==
    /\ t.op = "issue"
    /\ t.step = "read"
    /\ InStock(t)
    /\ Step(x, t, [t EXCEPT !.step = "release", !.on = stock])

\* cancel_approved_part_request: the ids are read before the rows are locked.
FindReservation(x, t) ==
    /\ t.op = "cancel"
    /\ t.step = "read"
    /\ Step(x, t, [t EXCEPT !.step = "release",
                            !.id = IF res[t.l].qty > 0 THEN res[t.l].id ELSE 0])

Release(x, t) ==
    /\ t.step = "release"
    /\ Step(x, t, [t EXCEPT !.step = "write",
                            !.id = IF t.op = "cancel" THEN @
                                   ELSE IF res[t.l].qty > 0 THEN res[t.l].id ELSE 0])

WriteLine(x, t) == t.step = "write" /\ Step(x, t, [t EXCEPT !.step = "status"])

\* request_part_on_wo: an emergency's part is issued at once if none of it is asked
\* for and there is stock.  It locks the stock to issue, and fails (EmergencyRollback).
LockJob(x, t) ==
    /\ t.op = "urgent"
    /\ t.step = "read"
    /\ line[t.l].status \in {"issued", "rejected"}
    /\ t.qty + Reserved <= stock
    /\ Step(x, t, [t EXCEPT !.step = "saved"])

Released(t, n) ==
    IF t.id = 0 \/ res[t.l].id # t.id THEN res
    ELSE [res EXCEPT ![t.l].qty = IF n < @ THEN @ - n ELSE 0]

CommitIssue(x, t) ==
    /\ t.op = "issue"
    /\ t.step = "commit"
    /\ Commits(x, t)
    /\ stock' = t.on - t.qty
    /\ res' = Released(t, t.qty)
    /\ line' = [line EXCEPT ![t.l].issued = t.saw.issued + t.qty, ![t.l].status = "issued"]
    /\ moved' = [moved EXCEPT ![t.l] = @ + t.qty]
    /\ raced' = raced \cup LineRaced(t.l, t.saw)
    /\ UNCHANGED <<item, arrived>>

CommitCancel(x, t) ==
    /\ t.op = "cancel"
    /\ t.step = "commit"
    /\ Commits(x, t)
    /\ res' = Released(t, res[t.l].qty)
    /\ line' = [line EXCEPT ![t.l].status = "rejected", ![t.l].approved = 0, ![t.l].issued = 0]
    /\ raced' = raced \cup LineRaced(t.l, t.saw)
    /\ UNCHANGED <<stock, item, moved, arrived>>

-------------------------------------------------------------------------------
(***************************************************************************)
(* Receiving.                                                              *)
(***************************************************************************)
\* The units taken in: capped at what is left of the item, by the copy.
Arrives(t) ==
    LET left == Ordered - t.had
    IN  IF t.qty > left /\ left > 0 THEN left ELSE t.qty

\* purchase_order_receive: the invoice reference is saved before the items, the
\* order's status after them.
SaveInvoice(x, t) == t.step = "invoice" /\ Step(x, t, [t EXCEPT !.step = "read"])

SaveItem(x, t) ==
    /\ t.op = "receive"
    /\ t.step = "read"
    /\ Step(x, t, [t EXCEPT !.step = "saved", !.qty = Arrives(t)])

\* stock_in, then the query of reallocate_for_part.
StockIn(x, t) ==
    /\ t.op = "receive"
    /\ t.step = "saved"
    /\ Step(x, t, [t EXCEPT !.step = "take", !.on = stock, !.todo = Queue, !.rows = line])

Received(t) == t.had + t.qty

CommitReceipt(x, t) ==
    /\ t.op = "receive"
    /\ t.step = "take"
    /\ t.todo = <<>>
    /\ Commits(x, t)
    /\ item' = Received(t)
    /\ stock' = t.on + t.qty
    /\ arrived' = arrived + t.qty
    /\ line' = [l \in Line |-> IF l \in Gives(t) THEN Allocated(t, l) ELSE line[l]]
    /\ res' = Inserted(t)
    /\ raced' = raced \cup (UNION {LineRaced(l, t.rows[l]) : l \in Gives(t)})
                     \cup (IF t.had # item THEN {Item} ELSE {})
    /\ UNCHANGED moved

-------------------------------------------------------------------------------
(***************************************************************************)
(* purchase_order_create and purchase_order_create_from_pr: every          *)
(* statement commits on its own.                                           *)
(***************************************************************************)
PrRaced(t) == IF t.req # pr THEN {Pr} ELSE {}

\* The order and its item are saved, with the request's units.
OrderItem(x, t) ==
    /\ t \in tx[x]
    /\ t.op \in OrderPage
    /\ t.step = "read"
    /\ pr' = [pr EXCEPT !.ordered = @ + 1,
                        !.again = IF t.op = "again" /\ t.req.status = "converted" THEN @ + 1 ELSE @]
    /\ tx' = [tx EXCEPT ![x] = {[t EXCEPT !.step = "saved", !.req = pr']}]
    /\ raced' = raced \cup PrRaced(t)
    /\ UNCHANGED <<stock, line, res, item, begun, moved, arrived>>

MarkRequest(x, t) ==
    /\ t \in tx[x]
    /\ t.op \in OrderPage
    /\ t.step = "saved"
    /\ pr' = [pr EXCEPT !.status = "converted"]
    /\ tx' = [tx EXCEPT ![x] = {}]
    /\ raced' = raced \cup PrRaced(t)
    /\ UNCHANGED <<stock, line, res, item, begun, moved, arrived>>

\* A refusal, an error or a crash: a transaction leaves nothing behind, a
\* purchase order half made stays.
Drop(x, t) ==
    /\ t \in tx[x]
    /\ tx' = [tx EXCEPT ![x] = {}]
    /\ raced' = raced \cup (IF t.op \in OrderPage /\ t.step = "saved" THEN {Pr} ELSE {})
    /\ UNCHANGED <<stock, line, res, item, pr, begun, moved, arrived>>

-------------------------------------------------------------------------------
ContentionNext ==
    \/ \E x \in Conn, op \in Op, l \in Line, q \in 1..MaxUnits : Begin(x, op, l, q)
    \/ \E x \in Conn : \E t \in tx[x] :
         \/ LockLine(x, t)
         \/ Take(x, t)
         \/ Update(x, t)
         \/ Insert(x, t)
         \/ InsertFails(x, t)
         \/ Recompute(x, t)
         \/ CommitElsewhere(x, t)
         \/ CommitApproval(x, t)
         \/ LockStock(x, t)
         \/ FindReservation(x, t)
         \/ Release(x, t)
         \/ WriteLine(x, t)
         \/ LockJob(x, t)
         \/ CommitIssue(x, t)
         \/ CommitCancel(x, t)
         \/ SaveInvoice(x, t)
         \/ SaveItem(x, t)
         \/ StockIn(x, t)
         \/ CommitReceipt(x, t)
         \/ OrderItem(x, t)
         \/ MarkRequest(x, t)
         \/ Drop(x, t)

ContentionSpec == ContentionInit /\ [][ContentionNext]_svars

-------------------------------------------------------------------------------
(***************************************************************************)
(* The properties.                                                         *)
(***************************************************************************)
\* Rows and transactions have their types; on-hand stock is never negative.
ContentionTypeOK ==
    /\ stock \in Nat
    /\ line \in [Line -> LineRow]
    /\ res \in [Line -> Reservation]
    /\ item \in Nat
    /\ pr \in RequestRow
    /\ \A x \in Conn : Cardinality(tx[x]) <= 1 /\ \A t \in tx[x] : TxTypeOK(t)
    /\ begun \in 0..MaxOps
    /\ moved \in [Line -> Nat]
    /\ arrived \in Nat
    /\ raced \subseteq Resource \cup {Pr}

\* On-hand stock is what was there and arrived less what the movements took,
\* whatever overlaps: the lock on the Inventory row covers reading and writing.
StockIsExact == stock = OnHand + arrived - Total(moved)

\* What a line shows as issued and an item as received is what moved, unless
\* two requests on that row overlapped; and it is never more than moved.
CountsFollowMovements ==
    /\ \A l \in Line : line[l].issued <= moved[l]
    /\ \A l \in Line : line[l].issued = moved[l] \/ <<"line", l>> \in raced
    /\ item <= arrived
    /\ item = arrived \/ Item \in raced

\* An issued or rejected line is taken up again only by a request that had read
\* it before: the lock approve_part_request takes does not prevent it.
SettledOnlyByOverlap ==
    [][\A l \in Line :
         line[l].status \in {"issued", "rejected"} /\ line'[l].status # line[l].status =>
           <<"line", l>> \in raced']_svars

\* A rejected line holds no stock, unless a request on it overlapped; and no
\* overlap reserves more for a line than was asked for.
ReservationsHeld ==
    \A l \in Line :
      /\ line[l].status = "rejected" /\ res[l].qty > 0 => <<"line", l>> \in raced
      /\ res[l].qty <= Asked[l]

\* Reservations come to exceed the stock only if the books changed between an
\* allocation's reading of free stock and its end: no lock covers the two.
OverbookedOnlyByOverlap ==
    [][Reserved' > Reserved /\ Reserved' > stock' =>
         \E x \in Conn : \E t \in tx[x] : tx'[x] = {} /\ t.books # {<<stock, res>>}]_svars

\* Two of these requests deadlock in four ways only: an allocation (the line, then
\* the reservation) and a cancellation or issue of that line (the other way round);
\* two receipts, of which one typed an invoice reference (the purchase order, then
\* the item); an issue (the cost card, then the work order) and a decision on
\* another part of that work order, or the reverse; and an issue (the stock, then
\* the work order) and an emergency request.
OnlyFourDeadlocks ==
    \A x, y \in Conn : x # y /\ Waits(x, y) /\ Waits(y, x) =>
      \E t \in tx[x] \cup tx[y], u \in tx[x] \cup tx[y] :
        \/ t.step = "insert" /\ u.step = "write" /\ Head(t.todo) = u.l
        \/ t.op = "receive" /\ t.step = "take" /\ u.op = "receive" /\ Order \in u.locks
        \/ /\ t.op \in CardFirst /\ t.step = "commit"
           /\ u.op \notin CardFirst /\ u.step = "commit" /\ t.l = u.l
        \/ t.op = "issue" /\ t.step = "commit" /\ u.op = "urgent" /\ t.l = u.l

\* A purchase request is ordered once and marked, and after that only by those who
\* order it again from its own page, unless two orders took it at the same time or
\* one was cut off before marking it.
OrderedOnce ==
    /\ pr.status = "converted" => pr.ordered > 0
    /\ pr.ordered > 0 =>
         \/ pr.ordered = 1 + pr.again /\ pr.status = "converted"
         \/ Pr \in raced
         \/ \E x \in Conn : \E t \in tx[x] : t.op \in OrderPage /\ t.step = "saved"

\* Stock is exact whatever overlaps, and the quantities shown on lines, items
\* and reservations follow the movements unless requests on that row overlapped.
ContentionInv == ContentionTypeOK /\ StockIsExact /\ CountsFollowMovements /\ ReservationsHeld
===============================================================================
