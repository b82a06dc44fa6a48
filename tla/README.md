# Spare-part and maintenance management: a TLA+ verification project

The repository is a Django application for maintenance management: issues and
the work orders made from them, the spare parts these need, the warehouse,
procurement, external repair, tools, preventive maintenance, the cost ledger and
the notices that tell people what waits for them.  This directory models its
state machines, checks them with TLC on small instances and proves, with TLAPS
and for every instance, every invariant and action property the passing runs
check; only the one liveness property is left to TLC.

## 1. The system

| Component | Code | State | Operations |
|---|---|---|---|
| Part requests, allocation, shortage, warehouse | `inventory/services.py`, `services_allocation.py`, `models.py`, two `manage.py` commands | `Inventory`, `PartIssueLine`, `InventoryReservation`, `PartShortageReport`, `PartShortageDecision` | request, re-review, raise shortage, approve, reject, edit, cancel, decide, edit decision, close, block, fulfil, issue, stock in, count, consume, repair, reconcile |
| Blockers and operational status | `maintenance/services_blocker.py`, `services_wo_status.py` | `WorkOrderBlocker`, `WorkOrder.operational_status` | open, resolve, cancel, react to events, recompute |
| Procurement | `procurement/views.py`, `services.py`, `models.py` | `PurchaseRequest`, `PurchaseOrder` and its items | request, officer edit, create, create from request, edit, receive, close short, cancel, reorder |
| Work-order lifecycle | `maintenance/services.py`, `views.py`, `repair_paused_blockers` | `lifecycle_status`, technician, labour and downtime clocks, OPERATIONAL blockers | create, assign, start, pause, wait, submit, approve, reject, archive, restore |
| External repair | `maintenance/services.py`, `views.py`, `models.py`, `reconcile_orphan_vendor_blockers` | repair requests and orders, VENDOR_REPAIR blocker, ledger entry | request, decide, edit, return, accept, reconcile |
| Issues | `maintenance/services.py`, `views.py`, `forms.py`, `models.py` | `MaintenanceIssue`, the number of the work order | report, validate, escalate, archive, convert |
| Tools | `inventory/services_tools.py`, `models_tools.py`, `maintenance/views_tools.py` | `ReusableToolInstance`, `ToolAssignment`, `ToolDamageReport` | issue to pool, check out, return, report damage, repair, write off |
| Preventive maintenance | `maintenance/preventive_engine/`, `views_preventive.py`, the older pages of `views.py`, `pm_daily_routine` | `PMSchedule`, `PMExecution`, its work order, `last_generate_run` | plan, pause, generate, run now, take, assign, start, submit, return, approve |
| Cost ledger | `maintenance/cost_ledger.py`, `cost_views.py`, three commands | `CostTransaction`, cached totals in `WorkOrderCost` | post, adjust, refresh, backfill, rebuild, check and fix, report |
| Notifications | `maintenance/services_notifications.py`, `notifications.py`, `preventive_engine/notification_service.py`, three commands | `Notification`, `morning_summary_sent_date` | blocker hook, direct notices, stage, overdue and morning jobs |
| Accounts, machines, presentation, uploads, deployment | `accounts/`, `mms/`, templates | users, assets, files | outside the model, except roles where a page or a notice depends on them |

How they meet: a handler in `views.py` calls a service, the service runs in one
`transaction.atomic()` block and calls other services from inside it.  A part
request opens a PART blocker; a shortage decision creates a purchase request
and opens a SHORTAGE blocker; receiving a purchase order stocks in, reallocates,
issues to the linked work orders, moves the shortage reports and resolves
blockers; every blocker change recomputes the work order's operational status
and notifies; an issue or a closed repair posts to the ledger, which refreshes
the work order's cost card.  Blocker events are plain calls, best effort: an
exception in one is logged and swallowed, so an event that is not sent leaves a
blocker nobody will close.

What is hard here: long legal sequences over four tables that must agree (a
quantity is stored on the line, the reservation, the report, the decision, the
request and the order); statuses written by several services, some of them
around the transition tables, and by two generations of pages; cached values
(`operational_status`, `quantity_reserved`, the cost card); handlers that read
a row with the page and write it back later; transactions that lock one row
and decide from another; jobs that die half way and are run again.
`PROJECT.json` lists each hazard at its line.

What makes each part correct:

* part pipeline: no unit is lost or created, allocation hands out only free
  stock, a refused line holds nothing, a decision's quantities add up;
* blockers: an open blocker waits for something that can still happen, and the
  operational status is the one the blockers imply;
* procurement: never more received than ordered, each good unit booked once,
  the waiting lines served in priority order;
* lifecycle: a work order is not left paused by one that is no longer worked
  on, the downtime clock runs from the first start to the closing, nothing moves
  after closing;
* external repair: no wait outlives its repair, a closed repair is booked once
  at its price;
* issues: an issue is CONVERTED exactly when it has its work order, a flag once
  set stays;
* tools: a unit is in one place at a time, and the three tables agree on it;
* preventive maintenance: what is due is generated, what is to be done today is
  on somebody's page, due dates do not drift;
* ledger: a source is posted once at its worth, the cards show the ledger;
* notices: nobody hears twice, nobody who is concerned is left out for good;
* under overlapping requests: stock stays exact, and whatever else can be lost
  is lost only by the overlaps the model names.

## 2. Modules

| Module | Models |
|---|---|
| `Totals` | sums over a table column, stated as cardinalities so that they can be proved about |
| `PartPipeline` | one part at the default site: stock, request lines, reservations, shortage reports with their decision, request and blocker, the work orders' lifecycle as far as closing releases reservations |
| `Procurement` | `PartPipeline` composed with purchase orders; receiving is one long action |
| `WorkOrders` | breakdown and emergency work orders, their OPERATIONAL and VENDOR_REPAIR blockers, clocks and external repairs with their ledger entry |
| `Issues` | issues and the lifecycle of their work orders, every page split into its read and its write |
| `Contention` | approval, cancellation, warehouse issue, emergency request, receipt and ordering for one part as transactions with row locks, and the rows they share with requests for other parts of the work order |
| `CostLedger` | the ledger, the cost cards and the reports, with overlapping transactions and the commands that run beside them statement by statement |
| `ToolPool`, `Tools` | what the tool pool promises, and its tables and pages, which implement it |
| `Preventive` | plans, occurrences and their work orders through both generations of pages, and the daily routine |
| `Notices` | who is told what and when, by requests and by jobs that may crash |
| `TotalsProofs`, `PartPipelineProofs`, `ProcurementProofs`, `WorkOrdersProofs`, `ToolsProofs`, `PreventiveProofs`, `ContentionProofs` | the lemmas on sums, and the theorems on the module each is named for |
| `RacesProofs` | the theorems on `Issues`, on `CostLedger` and on `Notices` |
| `MCPartPipeline`, `MCProcurement`, `MCWorkOrders`, `MCTools`, `MCPreventive`, `MCNotices`, `MCRaces` | instances for TLC; `MCWorkOrders` also states what a test and a docstring say that the code does not do |

A table is a sequence of records in creation order, or a function where the
rows that may exist are known (occurrences, issues).  In `PartPipeline` a line's
record carries its one ACTIVE reservation (`reserved`, 0 for none: the database
allows one per line) and the status of its PART blocker.  A report's record
carries its decision (`issue`, `procure`, `refused`), its auto-created purchase
request (`pr`, `prQty`, `po`) and its SHORTAGE blocker.  `legacy` holds
reservations without a line, which data from earlier versions may contain.

**Handlers as one step.**  In `PartPipeline`, `Procurement` and `WorkOrders` each
action is one handler with all the services it calls: as the code runs in one
transaction, it happens completely or not at all.  A handler that refuses or
rolls back is not enabled.  Two roll-backs are worth knowing: a request on an
emergency work order that stock can cover always fails (`EmergencyRollback`: the
second APPROVED row breaks `unique_active_pil_per_wo_part`), and a decision that
would allocate to a line that already holds a reservation fails
(`CanAllocate`).  `FreeStock` is what `free_stock_for_part` computes and `Usable`
the signed quantity the request handlers look at.

`Procurement` threads the four tables an issue writes through the steps of a
receipt as one record (`Db`), so the same `IssueFrom` is the warehouse's action
and the receipt's auto-issue.  Quantities count the least unit of their columns,
0.001: `Nearest` is the rounding of a receipt that is scaled down.  The requests
are those of shortage decisions; one that an officer writes by hand for a work
order, without a report, is not modelled (a receipt issues to that work order's
line as well).

`WorkOrders` threads its four tables the same way: `Transition`, `PauseOthers` and
`Recomputed` are functions from one value of `Db` to the next and a handler is their
composition, in the order of the code.  `pause[w]` is the one OPEN OPERATIONAL
blocker a work order can have, `parts[w]` stands for its PART and SHORTAGE
blockers, which `PartPipeline` models in full; the two modules share the rule that
derives the status and are not composed.  A repair's record carries the request,
the repair order, the blocker and what the ledger holds for the order.  Rows read
before a call and used after it are kept apart: `Transition` asks the row in
memory, with the new lifecycle and the old status, whether the work order still
blocks others.  Every start therefore frees what it has just paused (see
`wo_autopause`), and auto-paused work orders come only from data written before
that release existed: `Stuck` puts such pairs in the initial states, which
`repair_paused_blockers` and `DependentsFreed` are about.  Handlers that
refuse are not enabled, with one exception: assigning a closed work order fails
after the technician was saved, outside a transaction, and the change stays.
DRAFT and CANCELLED are written by no handler and are left out.

**Pages that are stale.**  In `Tools` a request is two actions, the page's read
and the service's transaction, which locks the row and looks again; `page[u]` is
what a user has open.  In `Issues` the view's copy is written back without looking
again, some columns of it or all; converting an issue is not a transaction, so
every statement that commits is a step, and any request may be cut off between
two.  `torn[i]` records which kinds of request have written the issue or its
work order from a copy that had been overtaken: the properties say that what
goes wrong goes wrong by those only.

**Transactions that overlap.**  `Contention` and `CostLedger` take PostgreSQL's READ
COMMITTED: a statement sees what others have committed, a row lock is held to
the end, and two that wait for each other are a deadlock, which the database ends
by failing one.  `tx[x]` holds the copies a view read before its transaction and
the locks it has; its writes appear when it commits.  `raced`, like `torn`,
records the rows written from a copy that had been overtaken, and `fit[w]` how the
cost card of a work order was last written.  These three variables are only
written and never guard an action.

In `Contention` the rows a transaction locks are the Inventory row, the purchase
order and its item, the line, its reservation, the work order and its cost card.  A
receipt writes the purchase order first if an invoice reference is typed in
(`SaveInvoice`) and last in any case; an issue saves the card and then recomputes the
work order, the decisions do it the other way round, and an emergency request locks
the work order before the stock (it then always fails, see above, but holds both
until it does).  Requests for another part of the same work order appear with those
two last rows only (`Elsewhere`).  `purchase_order_create` filters on PENDING
(`Orderable`); `purchase_order_create_from_pr` looks at nothing, so both pages are
there, `order` and `again`.

In `CostLedger` the commands are not transactions: `backfill_cost_ledger` and
`ledger_integrity_check` load the cards (`CopyCard`), look at the ledger
(`StartBackfill`, `CheckCard`) and then write one row or one field at a time
(`BackfillRow`, `FixField`), with requests in between, and may be broken off
(`EndCommand`).  `NewPeriod` lets the period of the reports begin after the rows there
are: the machine page takes rows by their date, whatever became of their order, and
the cost report takes whole cards of the orders that are closed and were last saved
in the period, at what lines and repairs say where there is no card.

**Days and jobs.**  `Preventive` counts days; an occurrence is named by plan, day
and slot (slot 0 the plan's due time, the last one the time of `next_due_at` when that
is another, those between a press on "run now"), which is its unique key in the
database.  Of a work order's blockers only what a recomputation makes of them is
kept: `BlockersChange` and every transition leave the order active or paused.  The older pages (`pm_spawn_wo`, `pm_wo_detail`,
`pm_review`, `work_order_submit`, `work_order_close`) and the engine write the same
rows by different rules, so both are actions.  `Notices` keeps the bag of
notices; an event's notices are one step that may fail part way, a job writes
one notice per step, interleaves with everything and may crash between any two.
What the code recognises a notice by (`dedup_key`, or the tag in its text) is
kept as `key`, `ref` and `due`; the keys fall into those of blocker events, of
other requests, of the stages and of the other loops (`EventKeys`, `RequestKeys`,
`StageKeys`, `LoopKeys`).

## 3. Runs

| Run | Instance | Shows |
|---|---|---|
| `pp_requests` | 1 work order; 1 line, 1 report, up to 2 units and 1 legacy unit, or 2 lines and 2 reports of single units | `TypeOK`, `BooksBalance`, `RefusedHoldsNothing`, `NoOrphanPartBlocker`, `AllocationIsBacked`, `UnitsConserved`, `ShortageFollowsTable` |
| `po_pipeline` | 1 work order, 1 line, 1 report, 1 order, all actions of both modules | `StatusMatchesBlockers`, `NoOrphanShortageBlocker` |
| `po_orders` | 2 orders of up to 2 units, received in parts | `ProcurementInv`, `ReceiptConserved` |
| `po_queue` | 2 work orders, the younger an emergency, 2 lines, 2 reports, 1 order | `QueueRespected` |
| `po_priority` | 2 work orders, the younger CRITICAL, 2 lines, 2 reports, 1 order | `PriorityRespected` is violated |
| `wo_orders` | 3 work orders, one an emergency, 2 technicians, up to 2 stuck pairs; or 1 work order, 2 repairs, costs 0 to 2 | `StatusDerived`, `ClocksSound`, `DependentsFreed`, `ClosedIsFrozen`, `NoOrphanVendorBlocker`, `ClosedRepairIsPosted` |
| `wo_autopause` | 2 work orders, 1 technician | `SwitchPausesOthers` is violated |
| `wo_reconcile` | 1 work order, 2 repairs without costs | `VendorWaitEndsWithRepair` is violated |
| `tl_pool` | 2 managers, an operator, 2 tools, 3 assignments, lists cut at 1 | `ToolsInv`, `PagesFit`, and `ImplementsPool`: the tables refine `ToolPool` |
| `pm_days` | a daily plan over 2 days, 1 technician, 1 "run now", 1 return, up to 2 occurrences | `PreventiveInv`, `ReviewQueueKeeps`, `NoDrift` and, under fairness, `DueIsGenerated` |
| `no_notices` | a manager, an officer, a technician, one work order, a plan, 2 processes | `NoticesInv`, `SummariesSent`, `EveryoneHears`, `OverdueTold` |
| `ra_races` | 2 sessions and: 2 issues, 7 requests; 2 lines and an order of 2, 4 requests; 2 work orders and 6 sources, 4 requests or commands | `IssuesInv`, `ClosedEndsDowntime`, `NothingTakenBack`, `ReopenedOnlyByOverlap`; `ContentionInv`, `SettledOnlyByOverlap`, `OverbookedOnlyByOverlap`, `OnlyFourDeadlocks`, `OrderedOnce`; `LedgerInv`, `CostPagesFit` |

The invariants called `...Inv` are conjunctions of a module's type invariant and
its named parts, each stated where it is defined: `ToolsInv` of `HeldIffInUse` and
`BrokenIffReported`; `PreventiveInv` of `ReturnedIsInHand` and `TodayIsListed`;
`NoticesInv` of `OncePerWindow` and `StageOnce`; `IssuesInv` of `ConvertedHasOrder`
and `ArchivedHasNoOrder`; `ContentionInv` of `StockIsExact`, `CountsFollowMovements`
and `ReservationsHeld`; `LedgerInv` of `BooksMatchSources`, `HistoryBookedOnce` and `FirstCardIsExact`;
`ProcurementInv` of `NeverOverReceived`.  `PagesFit` and `CostPagesFit` compare what
pages derive from the tables in different ways.

`ra_races` checks three specifications that share no variable as one: from the
common initial state a behaviour belongs to one of them, the guards on the
other two (`IssuesInit`, `ContentionInit`, `LedgerInit`) being their initial
predicates.  `po_orders` uses `ShortSpec` and `po_queue` `CompetingSpec`: they keep
the requests, approvals, decisions, issues and orders their property is about
and leave out counts, repairs, re-reviews and lifecycle steps, which
`po_pipeline` covers.

Bounds.  `MaxQty` 2 makes partial issues, split decisions and partial receipts
possible; two lines and two reports make a second request meet what the
first left (`OneRequestOrSingleUnits`, the constraint of `pp_requests`, takes the two
in turn, as together they are tens of millions of states); two work orders make
priority and foreign reservations matter.  Three work orders make a chain of pauses possible, two technicians reassignment
(they are interchangeable, so `wo_orders` uses their symmetry), two repairs on one
work order a blocker that stays when another one ends, and costs up to 2 a repair
closed again at another price.  `MaxStock` only stops stock-ins from growing
without end.  Two sessions are enough for every overlap the code can have on a
row, as each request meets at most the one that overtook it; seven requests on
two issues take one through conversion, start, submission and review with
another request overlapping, four on a part through approval, issue or
cancellation and a receipt, or into each of the four deadlocks (stock on hand is 2,
so that an emergency request finds some).  Four requests and commands on the
ledger (`MaxRuns`) take a card from before it through a backfill, another posting to
the same work order and a second run; prices are 0 and 2 (`Prices`), so that a repair
can be closed again without one, and a difference of one unit, which the check takes
for none, comes from a card that showed 1.  `Retries` is 2 where the code tries 5 times: two
collisions are possible with two issues, five are not.  `MaxDay` 1 gives two days,
so that an occurrence can be late and the next one generated, and `TwoOccurrences`
of `MCPreventive` stops at a pair of them, an occurrence resubmitted after a return
or opened at a time other than the plan's being followed alone; `MaxNow` of 4 hours
with a window of one hour and days of one hour lets windows end, midnight pass
and 48 hours go by, and the due times 0, 3 and 7 reach every stage.
Deadlock in TLC's sense is not checked: every instance really ends when its rows
or bounds are used up.  The deadlocks of the database are states of `Contention`.

Fairness.  Only `pm_days` assumes any: `WF(Tick)` and `WF(DailyRoutine(FALSE))`,
because time passes and cron runs `pm_daily_routine` every day.  Nobody has to
open a page.  Under it `DueIsGenerated` holds although cron may be late and a plan
saved after the day's run generates nothing that day.  Everywhere else a step is a
user's, and nothing in the code makes a manager decide or a warehouse issue, so
no liveness is claimed.

### Where the code does not do what it says

Three disagreements are kept as runs that expect a violation; `PROJECT.json` quotes
what the code does not do.

* `po_priority`: `services_allocation.py:4` and ADR 0007 rank the queue for a part by
  emergency, priority and age; `reallocate_for_part` sorts by emergency and age, so
  a CRITICAL work order waits behind an older NORMAL one.  `QueueRespected` states
  what the code does.
* `wo_autopause`: a test asserts that starting an emergency leaves the technician's
  other work order PAUSED; the start releases it again.
* `wo_reconcile`: `reconcile_orphan_vendor_blockers` says it resolves blockers whose
  repair order is RETURNED or CLOSED.  Two requests wait on one work order;
  approving the second attaches its order to the first open VENDOR_REPAIR
  blocker, the first request's; once that order is back, the command resolves the
  blocker of the request that nobody has decided yet, and the work order no
  longer waits for it.

The models show more of the kind:

* `inventory/services.py:2083` says an edit that lowers the quantity to issue
  releases some of the reservation; `release_reservation` looks only at reservations
  without a line, which allocation never makes, and its error is swallowed, so all
  of it stays (line 2149);
* `procurement/services.py:66` says the SHORTAGE blocker resolves when the request is
  fulfilled; `services_blocker.py:389` ignores the event unless the report is
  IN_FULFILLMENT with everything issued;
* `services_blocker.py:295` says a PART blocker is resolved iff `issued_qty >=
  approved_qty`; a line issued short is ISSUED and its blocker resolved;
* `inventory/models.py:396` calls `allocated_qty` the units reserved; closing a report
  cancels the reservation and leaves the quantity, so the line is never reserved for
  again;
* `inventory/services.py:2078` says an edit refuses to change the quantity to procure
  once the request exists; it changes both;
* `inventory/services.py:1039` says two managers approving the same line cannot both
  succeed; the locked row is thrown away and the earlier copy used, so they can;
* `procurement/views.py:936` says a report is FULFILLED when the order is received in
  full; any receipt does it;
* `procurement/views.py:1185` tells the SHORTAGE blocker that closing short ended the
  wait; requests still CONVERTED_TO_PO, all those of an order just sent, are skipped;
* `procurement/models.py:355` keeps `ordered = received + backordered` on close short,
  which zeroes `backordered`;
* `procurement/views.py:773` tells the user that a receipt above the remaining
  quantity was capped; good and damaged quantities are scaled and rounded to 0.001
  apart (line 778), so 5.000 ordered and 3 good with 45 damaged units received
  book 0.313 and 4.688, which is 5.001, and halves rounded down leave the order
  open for 0.001;
* `services_blocker.py:419` says cancelling a request tells its blocker; the officer's
  form does not;
* `repair_part_lines.py:176` says "Skip if the linked PR is still pending"; the
  attribute it reads does not exist, so no report is skipped;
* `maintenance/services.py:445` says resolving the pause after the transition covers
  the resume path; Start on a paused work order, which is still IN_PROGRESS,
  returns before it;
* `maintenance/services.py:387` wants the emergency guard before every transition of
  another work order to IN_PROGRESS; rejecting a review makes one without it;
* rejecting a repair request leaves its VENDOR_REPAIR blocker open;
* issues: `maintenance/models.py:298` says an emergency's priority is CRITICAL, but a
  validation replaces it; `maintenance/views.py:1190` says only a NEW or VALIDATED
  issue is escalated, but the status is not looked at, and an escalation after the
  conversion does not reach the work order; the assign page (`:1924`) decides on an
  unlocked copy, so an assignment that overlaps an approval reopens the closed order;
* procurement: `purchase_order_create_from_pr` orders a request already converted once
  more (`procurement/views.py:638`), and the receipt locks the purchase order before
  its items with an invoice reference and after them without (`:752`, `:882`), so that
  two receipts can deadlock; issue and decision lock work order and cost card in
  opposite orders as well (`inventory/services.py:1110`, `:2598`);
* tools: the numbers over the dashboard's lists of checkouts and of damage reports
  (`tools_dashboard.html:51`, `:139`) are the lengths of lists cut at 25 and 10, so
  beyond these they differ from the cards next to them;
* preventive maintenance: the start page (`maintenance/views.py:1975`) and the assign
  page (`:1927`) ask a paused order for nothing more, and an order waiting for review
  is paused, so a start takes a submitted occurrence out of the review queue and
  an assignment leaves it, or a returned one, ASSIGNED; closing the work order through the general page leaves the
  occurrence SUBMITTED; an occurrence of an earlier day that was returned is on no
  page; the minimum of photos is asked for by the new pages only;
* ledger: a posting overtaken between reading and writing the sums leaves a stale
  card until the next one; the first posting to a work order with a card from
  before the ledger wipes the old cost before the backfill has read it; a backfill broken off between
  two categories never books the others, as the next run passes over an order with
  rows (`backfill_cost_ledger.py:36`), and the next posting takes them off the card,
  which the comment above that line believes in sync; `ledger_integrity_check --fix` run
  before the backfill sets every card from before the ledger to zero, and leaves a
  difference of 0.01 in place; a repair closed again at a price of zero or none keeps
  what it was booked at (`cost_ledger.py:65`); the cost report adds the order of a
  component to the component and to the machine (`maintenance/views.py:4452`), and an
  order without a card at all its lines and repairs, whatever their status; the
  comment at `inventory/services.py:579` promises a posting for consumables a
  supervisor issues, whose movements carry neither price nor work order and post
  nothing;
* notices: a crash between the recipients of one stage leaves the later ones
  untold for good, as the rerun sees the stage as sent; a stage is announced on
  its exact day only, so a missed day loses it; two jobs in the overdue loop at
  once tell twice; the overdue alerts meant for 14:00 are reached by no command.

## 4. Proofs

Each theorem is stated in a module named for the one it is about; `RacesProofs` is
about three, `Issues`, `CostLedger` and `Notices`.  A theorem
about a run's property has that property's formula in its statement, so the run
shows on a small instance what the theorem says of every one.

| Theorem | Property | Inductive invariant |
|---|---|---|
| `TypeCorrect`, `RefusedHoldNothing`, `PartBlockersHaveLines`, `ShortageBlockersHaveReports`, `DecisionsBalance`, `ReservationsWereAllocated` | `TypeOK`, `RefusedHoldsNothing`, `NoOrphanPartBlocker`, `NoOrphanShortageBlocker`, `BooksBalance`, `ReservedWasAllocated` | `IInv` |
| `StatusIsCurrent` | `StatusMatchesBlockers` | `StatusIInv` |
| `ReportsFollowTable`, `AllocationsAreBacked`, `UnitsAreConserved` | `ShortageFollowsTable`, `AllocationIsBacked`, `UnitsConserved` | `IInv` |
| `OrdersNeverOverReceived`, `StatusIsCurrentThroughReceipts`, `ReceiptsLeaveNoOrphans`, `ReceiptsAreBookedOnce`, `ReceiptsRespectQueue` | `ProcurementInv`, `StatusMatchesBlockers`, `NoOrphanShortageBlocker`, `ReceiptConserved`, `QueueRespected` | `PIInv` |
| `StatusIsDerived`, `ClocksAreSound`, `NoVendorOrphans` | `StatusDerived`, `ClocksSound`, `NoOrphanVendorBlocker` | `WInv` |
| `ClosedStaysFrozen`, `DependentsAreFreed`, `ClosedRepairsArePosted` | `ClosedIsFrozen`, `DependentsFreed`, `ClosedRepairIsPosted` | `WInv` |
| `ToolsInvariance`, `PagesAgree`, `PoolImplemented` | `ToolsInv`, `PagesFit`, `ImplementsPool` | `ToolsInv` |
| `NothingOutOfSight`, `ReviewsAreKept`, `DueDatesDoNotDrift` | `PreventiveInv`, `ReviewQueueKeeps`, `NoDrift` | `PreventiveIInv` |
| `ConversionsSound`, `DowntimeEnds`, `OnlyValidationTakesBack`, `OnlyOverlapReopens` | `IssuesInv`, `ClosedEndsDowntime`, `NothingTakenBack`, `ReopenedOnlyByOverlap` | `IssuesIInv` |
| `LedgerIsRight`, `PagesShowTheLedger` | `LedgerInv`, `CostPagesFit` | `LedgerIInv` |
| `NobodyToldTwice`, `MorningsAreComplete`, `EventsAreHeard`, `OverduePlansAreTold` | `NoticesInv`, `SummariesSent`, `EveryoneHears`, `OverdueTold` | `NoticesIInv` |
| `StockSurvivesRaces`, `OrdersAreTakenOnce`, `OnlyFourCycles`, `SettledLinesStay`, `OverbookingNeedsOverlap` | `ContentionInv`, `OrderedOnce`, `OnlyFourDeadlocks`, `SettledOnlyByOverlap`, `OverbookedOnlyByOverlap` | `ContentionIInv` |

### The part pipeline

`ConstantsAssumption`: `WO` is finite, `Emergency` is a subset of it, the bounds
are natural numbers.

None of the invariants is inductive alone.  Refusing a PENDING line releases
nothing, so it needs that PENDING lines hold no reservation, which needs that
`allocate_one` moves a line out of PENDING whenever it grants something.  A
report's quantities balance although raising the shortage again rewrites
`requested`, because that happens to PENDING reports only and those have no
decision.  `IInv` collects these facts per row: `GoodLine` and `GoodReport` are
the type of a row together with `LineSound` and `ReportSound`, so the table
lemmas (`UpdateRow`, `MapRows`, `AddRow`) reduce each action to a lemma about the
one or two rows it writes.  `NextInv` has one step lemma per action.

The action properties and the status take a second pass over the same handlers.
`HandlerSound` is what one of them guarantees to the tables: `Advances` (a report
moves along the table), `LinksKept` (a row keeps its work order and a line its
report), `Backed`, `Conserved` and `StatusFollows` (the status of every work order
whose blockers the step writes is recomputed, and nobody else's moves).  The last
gives `StatusMatchesBlockers` once `StatusIInv` adds that links point to rows.
`Backed` and `Conserved` are about sums over tables that grow.  `Totals` states
such a sum as the cardinality of the set of units the rows hold, so that
`TotalsProofs` can say without induction what replacing, adding and splitting
rows does to it (`TotalUpdate`, `TotalAdd`, `TotalSplit`), from the library's facts
about finite sets.

### Procurement

`MaxOrdersAssumption`: the bound is a natural number.

`NeverOverReceived` is not inductive: a receipt is scaled down to what remains only
if something remains, so an order that is complete and still open would take any
quantity.  `OrderSound` therefore says that an open order with a quantity lacks
some of it, and that damaged units are among the received ones.  The one unit
above the order is the arithmetic of two shares that are each rounded to the
nearest unit (`SharesOfAll`).  `PIInv` joins this
to the pipeline's `IInv`, its links and its status; every handler of the pipeline
preserves it by `NextSound`, and orders by `OrderingKeeps`, which is about steps that
relabel reports and recompute any number of work orders (`StatusRecomputed`).

A receipt walks through two tables, the queue of lines (`InTurn`, twice) and the
linked requests (`IssueLinked`).  Both walks are recursive functions over the rows;
`ServedExists` and `FilledExists` show that they exist and `RowByRow` that what
holds at the first row and is carried over each holds at the last (the least
row where it fails has one before it).  `Carries` is what every row of both walks
carries: links stay, a blocker moves only with issued units, and units go from
the shelf to lines.  That gives the invariant and, with the sum over the orders
(`OrderUpdated`, `OrderAdded`), `ReceiptConserved`.  For `QueueRespected`,
`QueueKept` says of the first rows of a pass that a line that waited has all it was
approved for, or nothing was left for those behind it; `TwoPasses` puts the
emergency pass before the other, and the issues that follow grant nothing
(`SameGrants`).  `CompetingSpec` and `ShortSpec`, the narrowed specifications of two
runs, imply `PSpec` (`NarrowerSpecs`).

`ShortageFollowsTable` is a property of the pipeline by itself: one receipt may
take a report over two edges of the table.

### Work orders and repairs

`WorkOrdersAssumption`: no work order is called "none" or "own", the missing
technician is no technician, the bounds are natural numbers.

`StatusDerived` is not inductive alone: creating a work order does not recompute
its status, which is right only because nothing can have opened a blocker on it
before, and that in turn rests on a repair being asked for by an assigned
technician; and a transition from PENDING_REVIEW relies on the downtime row being
open.  As a handler changes the tables in several steps and recomputes at the end
of each, the lemmas speak of intermediate databases: `Good(d, S)` is the invariant
except for the status of the work orders in `S`.  `ChangeGood` and `RepairsGood` say
what a write may disturb, `RecomputedGood` that recomputing `S` restores the
invariant, and `TransitionGood`, `PausedGood` and `FreedGood` follow; each action is
then a chain of these.  The action properties take the same chains again: `...Mild`
says that a link of the chain ends no work and moves no clock of a closed work
order, `TransitionMoves` what the one that changes the lifecycle does, and
`RepairsWritten`, `SavedBills` what a repair's save hook books.

### Tools

`ToolsAssumption`: roles are roles, the bounds and the lengths of lists natural
numbers.

`ToolsInv` is inductive as it stands, but none of its parts is: a return puts the
tool back and closes the assignment, so that no second open assignment may name
it; and a damaged return opens a report on a tool that was in use, so that no
report on it may be open already.  The typing says that the rows users have open
exist: that is all a stale page can rely on, everything else is looked at again
under the lock.  `WriteRow`, `NewRow` and `NewRows` say what a write does to a
table; `IssueStep`, `AssignStep`, `ReturnStep` and `ResolveStep` take one service
each, repair and write-off being two cases of the last.  `PoolImplemented` proves
the refinement of `ToolPool`: the initial states map to its initial states, a
service's transaction to the pool's operation and reading a page to a stutter.
The mapping reads who holds a tool off the open assignments, so every step rests
on there being at most one.  `PagesAgree` counts: tools in use are as many as open
checkouts because the rows name different tools (`OneEach`), and a list cut at a
length is as long as its rows or that length (`Numbered`, `CutAt`).

### Preventive maintenance

`PreventiveAssumption`: periods are positive, the missing technician is no
technician, the bounds are natural numbers.

`PreventiveIInv` has `SoundRow` for every occurrence: one without a row has no work
order, an owner implies a work order, a returned one is in hand; and active
plans were saved.  The second is what `tech_my` needs and no handler checks: each
of the two generations of pages keeps it in its own way.  What the work order's
own pages do to a row is two lemmas: a recomputation and a transition change
nothing of the occurrence but the status of its order (`RecomputedRow`,
`TransitionedRow`).

### Issues

`IssuesAssumption`: the bounds are natural numbers; a conversion tries at least once.

A view's copy is written back later, so the invariant says of every request under
way what its copy can be (`SoundRequest`): it passed the view's checks when it was
read, its rows still exist, and its work order still has the number.  `Numbered`
says that the numbers of work orders are unique and have a highest: the next
number is one above it, and sets of numbers are not assumed finite.

### The cost ledger

`CostLedgerAssumption`: finite sets of work orders and sources, every source of a
known kind, with a category an entry of it keeps; what cards showed before the
ledger and what a manager types are natural numbers, as are amounts and the bound.

`SoundTxn` says what a transaction has in hand: from the lock on nobody else moves
its source's balance, so that the difference it posts stays the right one, and
sums that were read and not overtaken are still the sums.  `LockedByOne` is what
keeps two sessions from disturbing each other there; `BalanceHasRows` and
`OnlyHistory` say what an empty ledger means for a card from before it: as long as a
work order has no row, its card shows what it showed then, or zero.  `SoundCmd` says
the same of the copy a command works on, which requests may overtake at any time: a
backfill's categories still to come have no balance and stand at their legacy
amount (`SoundBackfill`), so each is booked once, and the fields a check has passed are
near the sums it read (`SoundCheck`).  For the reports, `InPeriod` leaves the rows of
the reported orders of those the machine page takes, and `OneMoreOrder` adds an order
to both sides: a smallest set on which they differed could lose one of its orders.
`SumUnion`, `SumOne` and `SumNone` relate the page that sums rows to the one that sums
categories.

### Overlapping requests for one part

`ContentionAssumption`: `Line` is finite, the queue of an allocation has no
duplicates (it is the result of one query), every line asks for at least one unit,
the bounds are natural numbers.

`ContentionIInv` has, for every transaction under way, a local part (`Protocol`,
`Giving`, `Locking`: which lock it holds at which of its steps and what it has
still to do) and a global one (its copy of the line is current, earlier, or the
line is in `raced`; what it grants is backed as long as the books it read are);
and between two transactions that no lock is held twice (`Apart`).  A step is then
shown to keep the sessions that do not take it from `Changed(x)`: rows and
reservations only move on, unless they are in `raced`, and what is reserved grows
only where a lock is held.  `StepKeeps` does this for steps that commit nothing, `CommitKeeps` for the others,
`RequestKeeps` for ordering.  `EndInv` adds, for the steps that end a
transaction, which of the purchase order, the work order and the cost card it
holds by then (`Ending`).  The deadlock theorem goes over what each step may wait
for (`Wants`) against what the other may hold: readers hold nothing
(`ReadersHoldNothing`), and the pairs that remain are the four of `Cycle`, split by
which of the two has got to its end (`EarlyCycle`, `LateCycle`).

### Notices

`NoticesAssumption`: roles are roles, whoever is looked up is a user or nobody, an
hour is at least one unit of time, due times and the bounds are natural numbers.

`OncePerWindow` and `StageOnce` need no other part where a request sends, as the rows
are read and written in one step (`Posted` says what posting a set of drafts does
to the bag).  A job decides and sends in different steps, and what it decided
must still be true when it sends.  `SoundJob` says so of each job under way:
`SoundDrafts`, that the drafts in hand are of the kind of its step, and those of a
stage one announcement that none of its recipients has had; `SoundOverdue`, that
each plan the overdue loop found is still to come, is being announced or was
within 48 hours; `SoundSummary`, that every manager without today's summary is
about to get it, so that a batch that was overtaken by midnight promises nothing
(its `day` is no longer today, and dates never go back).  `OneSync` adds that one job
announces stages at a time: with two, each would hold drafts the other sends.

The parts of `SoundJob` take the rows, the clock and who is active as parameters.
`JobKept` is therefore a lemma about constants: a job stays sound when rows are
added, time passes and people leave, unless the new rows are of a stage it is
announcing.  `SendKeeps`, `TakeKeeps`, `LoopKeeps` and `ManagersDoneKeeps` are about the job
that moves, `EventPosted`, `PlainPosted` and `StagePosted` about the rows.

### Model-checked only

Liveness (`DueIsGenerated`) is out of the prover's reach: it rests on fairness and
so on ENABLED.  The properties of the two runs that expect a violation do not
hold, and nothing is proved of them.

## 5. Not modelled

Prices outside the ledger, several sites and several parts (a
handler touches one part; the tables of different parts do not meet), stock-only
purchase requests, orders with several items, audit and movement rows, texts and
links, permissions where a page's role only decides who may take an action, the
emergency post-review flag, assignment history, repair orders without a work
order, attachments, checklists and photos of preventive work beyond whether a
submission is accepted, month arithmetic (a period is a number of days),
machines and components (a tree of assets no modelled handler changes),
translation, rendering, uploads, settings.  Functions without a caller
(`ToolDamageService.report`, `mark_done`, `reassign`, `mark_overdue`,
`notify_stale_issue`, `notify_part_received`, `notify_vendor_return`) are left out.
Cron is taken not to overlap itself; it does overlap the pages.

`Contention` covers the overlaps of approval, cancellation, issue, receipt and
ordering; overlaps of the other pipeline handlers (decisions, counts, repairs)
follow the same pattern and are taken as single steps.  Its deadlocks are of two
transactions: longer cycles, the share locks of foreign keys and the rows of
blockers are not among its resources.  The two reads of `free_stock_for_part` are
one step.  Management commands run one at a
time; the ledger has no rows filed on a machine without a work order, which no
caller posts.  The row `reconcile_orphan_vendor_blockers` books for a repair is a step of
`WorkOrders`; that the command looks for an entry and inserts one without the
repair's lock (line 135), so that it could book a repair just being closed twice, is
not in `CostLedger`.

## 6. Plan

What is left is pipeline handlers other than approval, cancellation, issue and
receipt (decisions, counts, repairs) in `Contention`, with the theorems extended to
them.
