------------------------------ MODULE Preventive ------------------------------
(***************************************************************************)
(* Preventive maintenance: plans (PMSchedule), their occurrences           *)
(* (PMExecution) and the work order of each.  Two generations of handlers  *)
(* work on the same rows: the engine of maintenance/preventive_engine with *)
(* views_preventive.py, and the older pages of views.py (pm_spawn_wo,      *)
(* pm_wo_detail, pm_review, work_order_submit, work_order_close) with      *)
(* services.py.                                                            *)
(*                                                                         *)
(* Time is a day number.  An occurrence is named by plan, day and slot:    *)
(* the plan's due_time, the moments mgr_plan_run_now was pressed, and the  *)
(* time of next_due_at, which may be another than due_time.  Templates,    *)
(* checklists and photos only decide whether a submission is accepted.     *)
(*                                                                         *)
(* Whether blockers of a work order are open is not kept: a handler that   *)
(* recomputes its operational status finds some or none.                   *)
(***************************************************************************)
EXTENDS Integers, FiniteSets

CONSTANTS
    Plan,      \* the PMSchedule rows
    Every,     \* per plan, its period in days
    EndsAt,    \* per plan, ends_at
    Tech,      \* the technicians
    NoTech,    \* assigned_technician is null
    MaxDay,    \* bound: the last day
    MaxNow,    \* bound: run-now occurrences of a plan
    MaxSaves,  \* bound: times the plan form is saved
    MaxReturns \* bound: rejection_count at which no occurrence is returned any more

ASSUME PreventiveAssumption ==
    /\ Every \in [Plan -> Nat \ {0}]
    /\ EndsAt \in [Plan -> Nat]
    /\ NoTech \notin Tech
    /\ {MaxDay, MaxNow, MaxSaves, MaxReturns} \subseteq Nat

VARIABLES
    day,       \* today
    plan,      \* the PMSchedule rows
    exe,       \* the PMExecution rows with their work orders
    lastRun,   \* the day of MaintenanceSettings.last_generate_run, -1 for null
    saves      \* how often the plan form was saved

mvars == <<day, plan, exe, lastRun, saves>>

Day == 0..MaxDay
Slot == 0..(MaxNow + 1)
AtDueTime == 0
AtNextDue == MaxNow + 1
Key == Plan \X Day \X Slot

\* due: the day of next_due_at; onTime: it is at due_time.
PlanRow == [exists: BOOLEAN, active: BOOLEAN, due: Nat, onTime: BOOLEAN]

Lifecycle == {"none", "assigned", "in_progress", "pending_review", "closed"}

\* wo: lifecycle_status of the work order, "none" without one; op: its
\* operational_status, "paused" also for PENDING_PARTS and WAITING_VENDOR and
\* until there is one; returns: its rejection_count.  MISSED is written by
\* mark_overdue, which nothing calls.
ExecutionRow == [status: {"absent", "submitted", "approved", "rejected"},
                 tech: Tech \cup {NoTech}, wo: Lifecycle, op: {"active", "paused"},
                 returns: Nat]

NoPlan == [exists |-> FALSE, active |-> FALSE, due |-> 0, onTime |-> FALSE]
NoExecution == [status |-> "absent", tech |-> NoTech, wo |-> "none", op |-> "paused",
                returns |-> 0]
NewExecution == [NoExecution EXCEPT !.status = "submitted"]

Executions == {k \in Key : exe[k].status # "absent"}
Of(p) == {k \in Executions : k[1] = p}
Today == {k \in Executions : k[2] = day}

PreventiveInit ==
    /\ day = 0
    /\ plan = [p \in Plan |-> NoPlan]
    /\ exe = [k \in Key |-> NoExecution]
    /\ lastRun = -1
    /\ saves = 0

MayReturn == \A k \in Key : exe[k].returns < MaxReturns

Set(k, row) == exe' = [exe EXCEPT ![k] = row]

-------------------------------------------------------------------------------
(***************************************************************************)
(* Generating occurrences.                                                 *)
(***************************************************************************)
Ended(p) == EndsAt[p] < day

\* Mutant: only plans due today, none that slipped past.
EligibleToday(pl) == {p \in Plan : pl[p].active /\ pl[p].due = day /\ ~ Ended(p)}

Eligible(pl) == {p \in Plan : pl[p].active /\ pl[p].due <= day /\ ~ Ended(p)}

\* get_or_create on (pm_schedule, scheduled_due_at).
WithOccurrences(pl) ==
    [k \in Key |-> IF /\ k[1] \in Eligible(pl) /\ k[2] = day /\ k[3] = AtDueTime
                      /\ exe[k].status = "absent"
                   THEN NewExecution ELSE exe[k]]

\* generate_today with the plans as saved: one transaction, skipped when it
\* ran today and is not forced.
GenerateToday(pl, force) ==
    IF ~ force /\ lastRun = day
    THEN UNCHANGED <<exe, lastRun>>
    ELSE exe' = WithOccurrences(pl) /\ lastRun' = day

Tick ==
    /\ day < MaxDay
    /\ day' = day + 1
    /\ UNCHANGED <<plan, exe, lastRun, saves>>

\* The 07:00 cron job.
DailyRoutine(force) ==
    /\ force \/ lastRun # day
    /\ GenerateToday(plan, force)
    /\ UNCHANGED <<day, plan, saves>>

\* mgr_today: a plan due today without an occurrence forces the generation.
StalePlans == {p \in Plan : /\ plan[p].active /\ plan[p].due = day
                            /\ ~ \E k \in Today : k[1] = p}

MgrToday ==
    /\ lastRun # day \/ StalePlans # {}
    /\ GenerateToday(plan, StalePlans # {})
    /\ UNCHANGED <<day, plan, saves>>

-------------------------------------------------------------------------------
(***************************************************************************)
(* Plans.  mgr_plan_archive writes fields PMSchedule does not have, raises *)
(* and changes nothing.                                                    *)
(***************************************************************************)
Saved(p, due, active, onTime) ==
    [plan EXCEPT ![p] = [exists |-> TRUE, active |-> active, due |-> due, onTime |-> onTime]]

\* pm_create saves and generates nothing.
PmCreate(p, due, active, onTime) ==
    /\ ~ plan[p].exists
    /\ plan' = Saved(p, due, active, onTime)
    /\ UNCHANGED <<day, exe, lastRun, saves>>

\* _plan_form, for a new plan or an old one.
PlanForm(p, due, active, onTime) ==
    /\ saves < MaxSaves
    /\ saves' = saves + 1
    /\ plan' = Saved(p, due, active, onTime)
    /\ IF active /\ due <= day
       THEN GenerateToday(Saved(p, due, active, onTime), FALSE)
       ELSE UNCHANGED <<exe, lastRun>>
    /\ UNCHANGED day

PlanPause(p) ==
    /\ plan[p].exists
    /\ plan' = [plan EXCEPT ![p].active = ~ @]
    /\ UNCHANGED <<day, exe, lastRun, saves>>

RunNowSlots(p) == {n \in 1..MaxNow : Cardinality({k \in Of(p) : k[3] \in 1..MaxNow}) < MaxNow}

RunNow(p, n) ==
    /\ plan[p].exists
    /\ n \in RunNowSlots(p)
    /\ ~ \E k \in Of(p) : exe[k].status = "submitted"
    /\ exe[<<p, day, n>>].status = "absent"
    /\ Set(<<p, day, n>>, NewExecution)
    /\ UNCHANGED <<day, plan, lastRun, saves>>

-------------------------------------------------------------------------------
(***************************************************************************)
(* Owners.                                                                 *)
(***************************************************************************)
\* Mutant: the owner is set and no work order opened.
AssignedBare(row, t) == [row EXCEPT !.tech = t]

\* assignment_service.assign.
Assigned(row, t) ==
    [row EXCEPT !.tech = t, !.wo = IF row.wo = "none" THEN "assigned" ELSE row.wo]

\* assignment_service.reassign, which needs somebody to pass the work to.
Reassigned(row, t) == [row EXCEPT !.tech = t]

AssignedOrRe(row, t) ==
    IF row.tech = NoTech THEN Assigned(row, t) ELSE Reassigned(row, t)

\* mgr_plan_assign: today's occurrences and later ones.
PlanTargets(p) == {k \in Of(p) : k[2] >= day /\ exe[k].status # "approved"}

PlanAssign(p, t) ==
    /\ exe' = [k \in Key |-> IF k \in PlanTargets(p) THEN AssignedOrRe(exe[k], t)
                             ELSE exe[k]]
    /\ UNCHANGED <<day, plan, lastRun, saves>>

\* The same with no technician chosen.  An owned occurrence raises there, and
\* what the loop did before it stays done.
PlanUnassign(p, done) ==
    /\ done \subseteq {k \in PlanTargets(p) : exe[k].tech = NoTech}
    /\ \/ \E k \in PlanTargets(p) : exe[k].tech # NoTech
       \/ done = PlanTargets(p)
    /\ exe' = [k \in Key |-> IF k \in done THEN Assigned(exe[k], NoTech) ELSE exe[k]]
    /\ UNCHANGED <<day, plan, lastRun, saves>>

-------------------------------------------------------------------------------
(***************************************************************************)
(* The engine: start, complete, approve, return.  It writes the lifecycle  *)
(* itself and recomputes nothing.                                          *)
(***************************************************************************)
\* Mutant: starting puts the work order in progress wherever it was.
StartedAgain(row) == [row EXCEPT !.wo = "in_progress"]

\* occurrence_service.start.
Started(row) ==
    [row EXCEPT !.wo = IF row.wo \in {"none", "assigned"} THEN "in_progress" ELSE row.wo]

Claimed(row, t) == IF row.tech = NoTech THEN Assigned(row, t) ELSE row

TechStart(k, t) ==
    /\ k \in Executions
    /\ Set(k, Started(Claimed(exe[k], t)))
    /\ UNCHANGED <<day, plan, lastRun, saves>>

\* tech_execute: opening the page starts the work when nothing was started.
Opened(row, t) == IF row.wo = "none" THEN Started(Claimed(row, t)) ELSE row

TechExecute(k, t) ==
    /\ k \in Executions
    /\ Set(k, Opened(exe[k], t))
    /\ UNCHANGED <<day, plan, lastRun, saves>>

\* occurrence_service.complete, the checklist and the photos accepted.
Completed(row) ==
    [row EXCEPT !.status = IF row.status = "rejected" THEN "submitted" ELSE row.status,
                !.returns = IF row.status = "rejected" THEN row.returns + 1 ELSE row.returns,
                !.wo = "pending_review"]

TechComplete(k, t) ==
    /\ k \in Executions
    /\ Set(k, Completed(Opened(exe[k], t)))
    /\ UNCHANGED <<day, plan, lastRun, saves>>

\* Mutant: the next due date is counted from the day of the approval.
NextDueFromToday(p) == day + Every[p]

\* next_due_at and compute_next_due_at: from the previous due date.
NextDue(p) == plan[p].due + Every[p]

Advance(p) == plan' = [plan EXCEPT ![p].due = NextDue(p)]

\* occurrence_service.approve: no status is asked for.
ReviewApprove(k) ==
    /\ k \in Executions
    /\ plan[k[1]].due <= MaxDay
    /\ Set(k, [exe[k] EXCEPT !.status = "approved",
                             !.wo = IF exe[k].wo = "none" THEN "none" ELSE "closed"])
    /\ Advance(k[1])
    /\ UNCHANGED <<day, lastRun, saves>>

\* occurrence_service.return_to_technician: raises without a work order.
Returned(row) ==
    [row EXCEPT !.status = "rejected", !.wo = "in_progress", !.returns = row.returns + 1]

ReviewReturn(k) ==
    /\ k \in Executions
    /\ exe[k].wo # "none"
    /\ MayReturn
    /\ Set(k, Returned(exe[k]))
    /\ UNCHANGED <<day, plan, lastRun, saves>>

-------------------------------------------------------------------------------
(***************************************************************************)
(* The older pages.                                                        *)
(***************************************************************************)
\* pm_spawn_wo, and pm_batch_spawn_wo for each plan it is given.  On an
\* occurrence already approved the execution cannot be created: the request
\* fails and leaves a work order without one.
SpawnWO(p) ==
    LET k == <<p, plan[p].due, IF plan[p].onTime THEN AtDueTime ELSE AtNextDue>>
    IN  /\ plan[p].active
        /\ plan[p].due <= MaxDay
        /\ exe[k].status = "absent"
        /\ Set(k, [NewExecution EXCEPT !.wo = "assigned"])
        /\ UNCHANGED <<day, plan, lastRun, saves>>

\* recompute_operational_status, with no blocker open and with one.
Unblocked(row) ==
    [row EXCEPT !.op = CASE row.wo = "closed" -> row.op
                         [] row.wo = "in_progress" -> "active"
                         [] OTHER -> "paused"]
Blocked(row) == [row EXCEPT !.op = IF row.wo = "closed" THEN @ ELSE "paused"]
Recomputed(row) == {Unblocked(row), Blocked(row)}

\* transition_work_order, and the edges it allows.
Transitioned(row, to) ==
    IF row.wo = to THEN {row} ELSE Recomputed([row EXCEPT !.wo = to])

Legal(from, to) ==
    \/ from = "assigned" /\ to \in {"in_progress", "pending_review"}
    \/ from = "in_progress" /\ to \in {"pending_review", "assigned"}
    \/ from = "pending_review" /\ to \in {"closed", "in_progress", "assigned"}

Becomes(k, rows) == \E row \in rows : Set(k, row)

\* The work order's own start button: a paused order is not asked for its
\* lifecycle, one in progress is left alone.
StartWork(k) ==
    /\ exe[k].wo = "assigned" \/ exe[k].op = "paused"
    /\ Legal(exe[k].wo, "in_progress")
    /\ Becomes(k, Transitioned(exe[k], "in_progress"))
    /\ UNCHANGED <<day, plan, lastRun, saves>>

\* work_order_assign: the same of a manager.  The execution keeps its own
\* technician.
AssignOrder(k) ==
    /\ exe[k].op = "paused"
    /\ Legal(exe[k].wo, "assigned")
    /\ Becomes(k, Transitioned(exe[k], "assigned"))
    /\ UNCHANGED <<day, plan, lastRun, saves>>

\* A handler outside this module opens or resolves blockers of the order: a
\* pause, a request for parts, a repair, the start of another order.
BlockersChange(k) ==
    /\ exe[k].wo # "none"
    /\ Becomes(k, Recomputed(exe[k]) \ {exe[k]})
    /\ UNCHANGED <<day, plan, lastRun, saves>>

Resubmitted(row) ==
    Transitioned([row EXCEPT !.status = IF @ = "rejected" THEN "submitted" ELSE @],
                 "pending_review")

\* pm_wo_detail.
PmWoDetail(k) ==
    /\ exe[k].wo \in {"assigned", "in_progress", "pending_review"}
    /\ Becomes(k, Resubmitted(exe[k]))
    /\ UNCHANGED <<day, plan, lastRun, saves>>

\* work_order_submit.
WorkOrderSubmit(k) ==
    /\ exe[k].wo \in {"assigned", "in_progress"}
    /\ Becomes(k, Resubmitted(exe[k]))
    /\ UNCHANGED <<day, plan, lastRun, saves>>

\* pm_review, approving.
PmReviewApprove(k) ==
    /\ exe[k].wo = "pending_review"
    /\ exe[k].status \in {"submitted", "rejected"}
    /\ plan[k[1]].due <= MaxDay
    /\ Becomes(k, Transitioned([exe[k] EXCEPT !.status = "approved"], "closed"))
    /\ Advance(k[1])
    /\ UNCHANGED <<day, lastRun, saves>>

\* manager_close_work_order, rejecting.
SentBack(row) == Transitioned([row EXCEPT !.returns = @ + 1], "in_progress")

\* pm_review, rejecting.
PmReviewReject(k) ==
    /\ exe[k].wo = "pending_review"
    /\ exe[k].status = "submitted"
    /\ MayReturn
    /\ Becomes(k, SentBack([exe[k] EXCEPT !.status = "rejected"]))
    /\ UNCHANGED <<day, plan, lastRun, saves>>

\* work_order_close knows nothing of the execution.
WorkOrderClose(k, approve) ==
    /\ exe[k].wo = "pending_review"
    /\ approve \/ MayReturn
    /\ Becomes(k, IF approve THEN Transitioned(exe[k], "closed") ELSE SentBack(exe[k]))
    /\ UNCHANGED <<day, plan, lastRun, saves>>

-------------------------------------------------------------------------------
Planning(p) ==
    \/ \E due \in Day, active, onTime \in BOOLEAN :
         PmCreate(p, due, active, onTime) \/ PlanForm(p, due, active, onTime)
    \/ PlanPause(p)
    \/ \E n \in 1..MaxNow : RunNow(p, n)
    \/ \E t \in Tech : PlanAssign(p, t)
    \/ \E done \in SUBSET PlanTargets(p) : PlanUnassign(p, done)
    \/ SpawnWO(p)

Working(k) ==
    \/ \E t \in Tech : TechStart(k, t) \/ TechExecute(k, t) \/ TechComplete(k, t)
    \/ StartWork(k)
    \/ AssignOrder(k)
    \/ BlockersChange(k)
    \/ PmWoDetail(k)
    \/ WorkOrderSubmit(k)

Reviewing(k) ==
    \/ ReviewApprove(k)
    \/ ReviewReturn(k)
    \/ PmReviewApprove(k)
    \/ PmReviewReject(k)
    \/ \E approve \in BOOLEAN : WorkOrderClose(k, approve)

PreventiveNext ==
    \/ Tick
    \/ \E force \in BOOLEAN : DailyRoutine(force)
    \/ MgrToday
    \/ \E p \in Plan : Planning(p)
    \/ \E k \in Key : Working(k) \/ Reviewing(k)

PreventiveSpec == PreventiveInit /\ [][PreventiveNext]_mvars

\* Days pass, and cron runs pm_daily_routine; nobody has to open a page.
FairSpec == PreventiveSpec /\ WF_mvars(Tick) /\ WF_mvars(DailyRoutine(FALSE))

-------------------------------------------------------------------------------
(***************************************************************************)
(* What the pages show.                                                    *)
(***************************************************************************)
InHand(k) == exe[k].wo \in {"assigned", "in_progress"}
Live(k) == plan[k[1]].active /\ exe[k].status \in {"submitted", "rejected"}

\* tech_my.
TodayMine(t) == {k \in Today : Live(k) /\ InHand(k) /\ exe[k].tech = t}
TodayPool == {k \in Today : Live(k) /\ exe[k].tech = NoTech
                            /\ (exe[k].wo = "none" \/ InHand(k))}

\* mgr_reviews, and the dashboard's waiting_review.
Reviews == {k \in Executions : exe[k].status = "submitted" /\ exe[k].wo = "pending_review"}

-------------------------------------------------------------------------------
(***************************************************************************)
(* The properties.                                                         *)
(***************************************************************************)
\* Every row has its type, and occurrences belong to plans that were saved.
PreventiveTypeOK ==
    /\ day \in Day
    /\ plan \in [Plan -> PlanRow]
    /\ exe \in [Key -> ExecutionRow]
    /\ lastRun \in Day \cup {-1}
    /\ saves \in 0..MaxSaves
    /\ \A k \in Executions : plan[k[1]].exists

\* An occurrence returned to the technician is in somebody's hands, whichever
\* of the two generations of pages returned it and whatever the work order's own
\* pages did since: it never waits for a review as REJECTED, where mgr_reviews
\* does not list it.
ReturnedIsInHand ==
    \A k \in Executions : exe[k].status = "rejected" => InHand(k)

\* Work to do today is on somebody's page: every live occurrence of today that
\* is not with the manager or closed is in its owner's list or in the pool
\* (tech_my joins the owner's list with the work order, so an owner without a
\* work order would hide it).
TodayIsListed ==
    \A k \in Today : Live(k) /\ exe[k].wo \notin {"pending_review", "closed"}
                       => k \in TodayPool \cup UNION {TodayMine(t) : t \in Tech}

\* What waits for a review leaves the queue by a manager's decision: it is
\* approved, closed or returned, and a return is counted.  Neither another start
\* or submission on the preventive pages nor generating the day again takes it
\* out.  The work order's own pages do (work_order_start, work_order_assign), but
\* only while the order is paused, and they put it back into somebody's hands.
ReviewQueueKeeps ==
    [][\A k \in Reviews :
         \/ k \in Reviews'
         \/ exe'[k].status = "approved"
         \/ exe'[k].wo = "closed"
         \/ exe'[k].returns > exe[k].returns
         \/ exe[k].op = "paused" /\ InHand(k)']_mvars

\* Due dates do not drift: however late an approval comes, and through
\* whichever page, the plan moves on by whole periods from its old due date;
\* only its form sets another.
NoDrift ==
    [][\A p \in Plan :
         plan[p].exists /\ saves' = saves /\ plan'[p].due # plan[p].due
           => plan'[p].due = plan[p].due + Every[p]]_mvars

\* A plan that is due gets its occurrence, although cron may miss days and a
\* form saved after the day's generation generates nothing: unless it is
\* paused, moved or has ended, an occurrence on or after the due date follows.
DueIsGenerated ==
    \A p \in Plan, d \in 0..(MaxDay - 1) :
      plan[p].active /\ plan[p].due = d /\ d <= day /\ day < MaxDay
        ~> \/ ~ plan[p].active
           \/ plan[p].due # d
           \/ EndsAt[p] < day
           \/ \E k \in Of(p) : k[2] >= d

\* Both together: through two generations of pages and days that pass, no work
\* of today, returned work included, is out of everybody's sight.
PreventiveInv == PreventiveTypeOK /\ ReturnedIsInHand /\ TodayIsListed
===============================================================================
