------------------------------- MODULE Issues ---------------------------------
(***************************************************************************)
(* Maintenance issues from the report to the closing of their work order,  *)
(* with pages that overlap.                                                *)
(*                                                                         *)
(* Every view reads the rows it works on when it begins, checks that copy, *)
(* and writes it back later without a lock: some handlers write a few      *)
(* columns, some the whole copy.  A request is one step that reads and one *)
(* that writes; converting an issue is not a transaction and has one step  *)
(* for every statement that commits.  Any request may be cut off between.  *)
(*                                                                         *)
(* Blockers, pauses and labour time are in WorkOrders, where a handler is  *)
(* one step.                                                               *)
(***************************************************************************)
EXTENDS Integers, FiniteSets, FiniteSetsExt

CONSTANTS
    Worker,      \* web workers
    Issue,       \* the issues that may be reported
    Retries,     \* WorkOrder.save: attempts at a free number
    MaxRequests  \* bound: requests begun

ASSUME IssuesAssumption ==
    /\ Retries \in Nat \ {0}
    /\ MaxRequests \in Nat

VARIABLES
    issue,     \* the MaintenanceIssue rows
    order,     \* per issue, the WorkOrder row created from it
    req,       \* the request each worker is serving
    requests,  \* requests begun so far
    torn       \* per issue, the kinds of request that wrote it, or its work order,
               \* from a copy that had been overtaken, and "cut" if a conversion
               \* was cut off after the work order was created

ivars == <<issue, order, req, requests, torn>>

Status == {"none", "new", "validated", "converted"}
Priority == {"none", "critical", "lower"}
IssueRow == [status: Status, priority: Priority, emergency: BOOLEAN, archived: BOOLEAN]

\* downtime: the Downtime row opened by the first start.
Lifecycle == {"none", "assigned", "in_progress", "pending_review", "closed"}
OrderRow == [lifecycle: Lifecycle, number: Nat, emergency: BOOLEAN, archived: BOOLEAN,
             downtime: {"none", "open", "ended"}]

IssueOp == {"validate", "escalate", "archive", "convert"}
OrderOp == {"assign", "start", "submit", "approve", "reject", "archive_order", "restore_order"}

\* saw, order: the copies the view works on; number, tries: WorkOrder.save.
Request == [op: IssueOp \cup OrderOp, at: Issue, step: {"read", "numbered", "created", "saved"},
            saw: IssueRow, order: OrderRow, number: Nat, tries: Nat]

NoIssue == [status |-> "none", priority |-> "none", emergency |-> FALSE, archived |-> FALSE]
NoOrder == [lifecycle |-> "none", number |-> 0, emergency |-> FALSE, archived |-> FALSE,
            downtime |-> "none"]

\* req[x] is the set of what x is serving: empty or one request.
IssuesInit ==
    /\ issue = [i \in Issue |-> NoIssue]
    /\ order = [i \in Issue |-> NoOrder]
    /\ req = [x \in Worker |-> {}]
    /\ requests = 0
    /\ torn = [i \in Issue |-> {}]

-------------------------------------------------------------------------------
(***************************************************************************)
(* What the views check on the rows they read.  The default manager hides  *)
(* archived rows.                                                          *)
(***************************************************************************)
Exists(i) == order[i].lifecycle # "none"
ShownIssue(i) == issue[i].status # "none" /\ ~ issue[i].archived
ShownOrder(i) == Exists(i) /\ ~ order[i].archived

Archivable(i) == ShownIssue(i) /\ issue[i].status # "converted"

\* Escalating does not look at the status.  A paused order may be assigned or
\* started in any state, and whether it is paused is not kept here: the
\* transition decides.
MayOpen(op, i) ==
    \/ op = "validate" /\ ShownIssue(i) /\ issue[i].status = "new"
    \/ op = "escalate" /\ ShownIssue(i) /\ ~ issue[i].emergency
    \/ op = "archive" /\ Archivable(i)
    \/ op = "convert" /\ ShownIssue(i) /\ issue[i].status = "validated" /\ ~ Exists(i)
    \/ op \in {"assign", "start"} /\ ShownOrder(i)
    \/ op = "submit" /\ ShownOrder(i) /\ order[i].lifecycle = "in_progress"
    \/ op \in {"approve", "reject"} /\ ShownOrder(i) /\ order[i].lifecycle = "pending_review"
    \/ op = "archive_order" /\ ShownOrder(i)
    \/ op = "restore_order" /\ Exists(i) /\ order[i].archived

\* issue_create
Report(i, e) ==
    /\ requests < MaxRequests
    /\ issue[i].status = "none"
    /\ issue' = [issue EXCEPT ![i] = [status |-> "new", emergency |-> e, archived |-> FALSE,
                                      priority |-> IF e THEN "critical" ELSE "none"]]
    /\ requests' = requests + 1
    /\ UNCHANGED <<order, req, torn>>

\* The first line of every view: get_object_or_404, then the checks.
Open(x, op, i) ==
    /\ requests < MaxRequests
    /\ req[x] = {}
    /\ MayOpen(op, i)
    /\ req' = [req EXCEPT ![x] = {[op |-> op, at |-> i, step |-> "read", saw |-> issue[i],
                                   order |-> order[i], number |-> 0, tries |-> 0]}]
    /\ requests' = requests + 1
    /\ UNCHANGED <<issue, order, torn>>

-------------------------------------------------------------------------------
(***************************************************************************)
(* Writing.                                                                *)
(***************************************************************************)
Done(x) == req' = [req EXCEPT ![x] = {}]

\* Whether a copy was overtaken.
IssueStale(r) == r.saw # issue[r.at]
OrderStale(r) == r.order # order[r.at]

Torn(r, stale) == [torn EXCEPT ![r.at] = IF stale THEN @ \cup {r.op} ELSE @]

\* Mutant: the form of the validation carries the emergency flag too.
ValidatedCalm(saw, p) ==
    [saw EXCEPT !.status = "validated", !.priority = p, !.emergency = FALSE]

\* validate_issue: the whole copy is saved.
Validated(saw, p) == [saw EXCEPT !.status = "validated", !.priority = p]

\* escalate_issue_to_emergency: two columns are saved.
Escalated(row) == [row EXCEPT !.emergency = TRUE, !.priority = "critical"]

WriteIssue(x, r, row) ==
    /\ r \in req[x]
    /\ r.step = "read"
    /\ issue' = [issue EXCEPT ![r.at] = row]
    /\ Done(x)
    /\ torn' = Torn(r, IssueStale(r) \/ OrderStale(r))
    /\ UNCHANGED <<order, requests>>

Validate(x, r, p) == r.op = "validate" /\ WriteIssue(x, r, Validated(r.saw, p))

Escalate(x, r) == r.op = "escalate" /\ WriteIssue(x, r, Escalated(issue[r.at]))

\* archive_maintenance_issue
Archive(x, r) ==
    r.op = "archive" /\ WriteIssue(x, r, [issue[r.at] EXCEPT !.archived = TRUE])

-------------------------------------------------------------------------------
(***************************************************************************)
(* work_order_create_from_issue.                                           *)
(***************************************************************************)
Numbers == {order[i].number : i \in Issue}
GoOn(x, r) == req' = [req EXCEPT ![x] = {r}]

\* WorkOrder.save: the highest number of all work orders, plus one.
NextNumber(r) == Max(Numbers) + 1

PickNumber(x, r) ==
    /\ r \in req[x]
    /\ r.op = "convert"
    /\ r.step = "read"
    /\ GoOn(x, [r EXCEPT !.step = "numbered", !.number = NextNumber(r)])
    /\ UNCHANGED <<issue, order, requests, torn>>

\* Two unique columns: the number and the issue.
Collides(r) == r.number \in Numbers \/ Exists(r.at)

NewOrder(r) ==
    [NoOrder EXCEPT !.lifecycle = "assigned", !.number = r.number,
                    !.emergency = r.saw.emergency]

CreateOrder(x, r) ==
    /\ r \in req[x]
    /\ r.step = "numbered"
    /\ ~ Collides(r)
    /\ order' = [order EXCEPT ![r.at] = NewOrder(r)]
    /\ GoOn(x, [r EXCEPT !.step = "created"])
    /\ torn' = Torn(r, IssueStale(r))
    /\ UNCHANGED <<issue, requests>>

\* An IntegrityError of either column is taken for a collision of numbers.
Retry(x, r) ==
    /\ r \in req[x]
    /\ r.step = "numbered"
    /\ Collides(r)
    /\ r.tries + 1 < Retries
    /\ GoOn(x, [r EXCEPT !.step = "read", !.tries = @ + 1])
    /\ UNCHANGED <<issue, order, requests, torn>>

\* RuntimeError: exhausted retries.
GiveUp(x, r) ==
    /\ r \in req[x]
    /\ r.step = "numbered"
    /\ Collides(r)
    /\ r.tries + 1 = Retries
    /\ Done(x)
    /\ UNCHANGED <<issue, order, requests, torn>>

\* Mutant: the copy is changed and not saved.
MarkedUnsaved(row) == row

Marked(row) == [row EXCEPT !.status = "converted"]

\* The attachments have been copied; the status column is saved.
MarkConverted(x, r) ==
    /\ r \in req[x]
    /\ r.step = "created"
    /\ issue' = [issue EXCEPT ![r.at] = Marked(@)]
    /\ Done(x)
    /\ torn' = Torn(r, IssueStale(r))
    /\ UNCHANGED <<order, requests>>

-------------------------------------------------------------------------------
(***************************************************************************)
(* Work orders.                                                            *)
(***************************************************************************)
\* VALID_LIFECYCLE_TRANSITIONS
Legal(from, to) ==
    \/ from = "assigned" /\ to \in {"in_progress", "pending_review"}
    \/ from = "in_progress" /\ to \in {"pending_review", "assigned"}
    \/ from = "pending_review" /\ to \in {"closed", "in_progress", "assigned"}

WriteOrder(x, r, row, stale) ==
    /\ r \in req[x]
    /\ order' = [order EXCEPT ![r.at] = row]
    /\ Done(x)
    /\ torn' = Torn(r, stale)
    /\ UNCHANGED <<issue, requests>>

\* work_order_assign: the technician, who is not kept here, is saved first; then
\* the copy decides whether the order has to become ASSIGNED again.
AssignTech(x, r) ==
    /\ r.op = "assign"
    /\ \/ /\ r.order.lifecycle = "assigned"
          /\ WriteOrder(x, r, order[r.at], FALSE)
       \/ /\ Legal(r.order.lifecycle, "assigned")
          /\ WriteOrder(x, r, [order[r.at] EXCEPT !.lifecycle = "assigned"], OrderStale(r))

ClockStarted(row) == [row EXCEPT !.downtime = IF @ = "none" THEN "open" ELSE @]

\* Mutant: the copy of the view is used instead of the locked row.
StartedFromUnlocked(r) == r.order

StartedFrom(r) == order[r.at]

\* technician_start_work: the row is read again under a lock.
Start(x, r) ==
    LET row == StartedFrom(r)
    IN  /\ r.op = "start"
        /\ row.lifecycle = "in_progress" \/ Legal(row.lifecycle, "in_progress")
        /\ WriteOrder(x, r, [ClockStarted(row) EXCEPT !.lifecycle = "in_progress"], FALSE)

\* work_order_submit: the completion form saves the whole copy; Downtime rows
\* are not part of it.
SaveForm(x, r) ==
    LET row == [r.order EXCEPT !.downtime = order[r.at].downtime]
    IN  /\ r \in req[x]
        /\ r.op = "submit"
        /\ r.step = "read"
        /\ order' = [order EXCEPT ![r.at] = row]
        /\ GoOn(x, [r EXCEPT !.step = "saved", !.order = row])
        /\ torn' = Torn(r, OrderStale(r))
        /\ UNCHANGED <<issue, requests>>

\* technician_submit_for_review, on the same copy; single columns are saved.
Submit(x, r) ==
    /\ r.step = "saved"
    /\ WriteOrder(x, r, [order[r.at] EXCEPT !.lifecycle = "pending_review"], OrderStale(r))

\* Mutant: an order rejected meanwhile keeps its Downtime row open.
EndedOf(r) == IF OrderStale(r) THEN order[r.at].downtime ELSE "ended"

\* The open Downtime row is looked up when the order is closed.
Ended(r) == IF order[r.at].downtime = "open" THEN "ended" ELSE order[r.at].downtime

\* manager_close_work_order, on the copy of the view; single columns are saved.
Approve(x, r) ==
    /\ r.op = "approve"
    /\ WriteOrder(x, r, [order[r.at] EXCEPT !.lifecycle = "closed", !.downtime = Ended(r)],
                  OrderStale(r))

Reject(x, r) ==
    /\ r.op = "reject"
    /\ WriteOrder(x, r, [order[r.at] EXCEPT !.lifecycle = "in_progress"], OrderStale(r))

\* archive_work_order, restore_work_order
ArchiveOrder(x, r) ==
    /\ r.op \in {"archive_order", "restore_order"}
    /\ WriteOrder(x, r, [order[r.at] EXCEPT !.archived = (r.op = "archive_order")],
                  OrderStale(r))

\* A request dies, or is refused on the way; what it committed stays.
CutOff(x, r) ==
    /\ r \in req[x]
    /\ Done(x)
    /\ torn' = [torn EXCEPT ![r.at] = IF r.step = "created" THEN @ \cup {"cut"} ELSE @]
    /\ UNCHANGED <<issue, order, requests>>

-------------------------------------------------------------------------------
IssuesNext ==
    \/ \E i \in Issue, e \in BOOLEAN : Report(i, e)
    \/ \E x \in Worker, i \in Issue, op \in IssueOp \cup OrderOp : Open(x, op, i)
    \/ \E x \in Worker : \E r \in req[x] :
         \/ \E p \in Priority \ {"none"} : Validate(x, r, p)
         \/ Escalate(x, r)
         \/ Archive(x, r)
         \/ PickNumber(x, r)
         \/ CreateOrder(x, r)
         \/ Retry(x, r)
         \/ GiveUp(x, r)
         \/ MarkConverted(x, r)
         \/ AssignTech(x, r)
         \/ Start(x, r)
         \/ SaveForm(x, r)
         \/ Submit(x, r)
         \/ Approve(x, r)
         \/ Reject(x, r)
         \/ ArchiveOrder(x, r)
         \/ CutOff(x, r)

IssuesSpec == IssuesInit /\ [][IssuesNext]_ivars

-------------------------------------------------------------------------------
(***************************************************************************)
(* The properties.                                                         *)
(***************************************************************************)
\* Rows and requests have their types, and no two work orders the same number.
IssuesTypeOK ==
    /\ issue \in [Issue -> IssueRow]
    /\ order \in [Issue -> OrderRow]
    /\ \A x \in Worker : req[x] \subseteq Request /\ Cardinality(req[x]) <= 1
    /\ requests \in 0..MaxRequests
    /\ torn \in [Issue -> SUBSET (IssueOp \cup OrderOp \cup {"cut"})]
    /\ \A i, j \in Issue : Exists(i) /\ Exists(j) /\ order[i].number = order[j].number => i = j

\* Emergencies and archivings are never taken back, except by a validation
\* that had read the issue before: issue.save() writes every column.
NothingTakenBack ==
    [][\A i \in Issue :
         \/ /\ issue[i].emergency => issue'[i].emergency
            /\ issue[i].archived => issue'[i].archived
         \/ "validate" \in torn'[i]]_ivars

\* The work order was created, the issue not marked yet.
Converting(i) == \E x \in Worker : \E r \in req[x] : r.at = i /\ r.step = "created"

\* An issue is CONVERTED exactly when its work order exists, whichever pages
\* overlap; the work order is there before, never after, and stays alone only
\* if the conversion was cut off or an older validation was saved over it.
ConvertedHasOrder ==
    \A i \in Issue :
      /\ issue[i].status = "converted" => Exists(i)
      /\ Exists(i) /\ issue[i].status # "converted" =>
           torn[i] \cap {"cut", "validate"} # {} \/ Converting(i)

\* An issue that has a work order is never archived, unless the two pages
\* overlapped or a conversion was cut off before the issue was marked.
ArchivedHasNoOrder ==
    \A i \in Issue :
      issue[i].archived /\ Exists(i) =>
        torn[i] \cap {"archive", "convert", "cut", "validate"} # {} \/ Converting(i)

\* The machine is not down any more once its work order is closed, although a
\* start, a submission, an assignment or another manager's decision may overlap
\* the closing.
ClosedEndsDowntime ==
    \A i \in Issue : order[i].lifecycle = "closed" => order[i].downtime # "open"

\* A closed work order is reopened only by a submission, a rejection or an
\* assignment that had read it before: their transition looks at the copy.  The
\* technician's start reads it again under a lock and never reopens it.
ReopenedOnlyByOverlap ==
    [][\A i \in Issue : order[i].lifecycle = "closed" /\ order'[i].lifecycle # "closed" =>
         torn'[i] \cap {"submit", "reject", "assign"} # {}]_ivars

\* An issue and its work order fit together, whichever pages overlapped, except
\* for the overlaps and the interruption named above; numbers are unique.
IssuesInv == IssuesTypeOK /\ ConvertedHasOrder /\ ArchivedHasNoOrder
===============================================================================
