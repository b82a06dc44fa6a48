------------------------------- MODULE Notices --------------------------------
(***************************************************************************)
(* In-app notices: the hook on blocker events (services_notifications.py), *)
(* the notices sent directly by requests (notifications.py) and the jobs   *)
(* that cron and the pages run (sync_pm_notifications, pm_daily_routine).  *)
(*                                                                         *)
(* A request emits its notices in one step and may fail part way.  A job   *)
(* commits every notice by itself: it interleaves with everything else and *)
(* may crash between any two of them; the next run starts over and relies  *)
(* on the notices already there.  Texts, links and read_at, which nothing  *)
(* here asks for, are left out; what tells two notices apart (dedup_key,   *)
(* or the tag in the body) is kept as key, ref and due.                    *)
(***************************************************************************)
EXTENDS Integers, FiniteSets, Bags

CONSTANTS
    User,        \* the accounts
    NoUser,      \* a null reference to an account
    RoleOf,      \* per user, its role
    Superuser,   \* users with is_superuser
    Case,        \* blockers, with the work order and the request behind them
    OrderOf,     \* per case, its work order
    Assignee,    \* per case, assigned_technician of the work order
    Creator,     \* per case, created_by of the work order
    Requester,   \* per case, who requested the part or the repair
    Approver,    \* per case, created_by of the external repair order
    Plan,        \* PMSchedule rows
    None,        \* ref or due of a notice that has none
    Process,     \* processes that run jobs: cron and the web server
    Hours,       \* hours of a day
    Window,      \* _DEDUP_WINDOW, in hours
    MaxNow,      \* bound: the clock, in hours
    DueTimes,    \* bound: the values of next_due_at, in hours
    MaxActs,     \* bound: events, direct notices, edits and jobs started
    MaxFails     \* bound: requests that fail part way and jobs that crash

Role == {"operator", "technician", "supervisor", "manager", "procurement", "super_admin"}

ASSUME NoticesAssumption ==
    /\ RoleOf \in [User -> Role]
    /\ Superuser \subseteq User
    /\ NoUser \notin User
    /\ \A f \in {Assignee, Creator, Requester, Approver} : f \in [Case -> User \cup {NoUser}]
    /\ DOMAIN OrderOf = Case
    /\ Hours \in Nat \ {0}
    /\ DueTimes \subseteq Nat
    /\ {Window, MaxNow, MaxActs, MaxFails} \subseteq Nat

VARIABLES
    now,      \* the clock
    active,   \* users with is_active
    plan,     \* the PMSchedule rows and who their occurrence is assigned to
    notices,  \* the bag of Notification rows
    sentDay,  \* morning_summary_sent_date
    job,      \* what each worker is doing
    acts,     \* how many events and edits there were
    fails     \* how many failed

nvars == <<now, active, plan, notices, sentDay, job, acts, fails>>

Day(t) == t \div Hours
Today == Day(now)

PlanRow == [active: BOOLEAN, due: DueTimes, technician: User \cup {NoUser}]

\* What notices are about: blocker events, other requests, the stages of the
\* cascade and the other loops of the jobs.
EventKeys ==
    {"opened", "resolved", "cancelled", "resolved:approve", "cancelled:reject",
     "opened:shortage", "resolved:shortage", "opened:ero", "resolved:ero",
     "emergency_interrupted", "labor_resumed", "po_received_summary"}
RequestKeys ==
    {"issue_new", "issue_validated", "issue_emergency", "wo_emergency", "wo_review",
     "wo_assigned:you", "wo_assigned", "wo_created", "wo_started", "wo_paused", "wo_closed",
     "low_stock", "procurement", "part_shortage", "re_review", "wo_part_received",
     "wo_part_returned", "wo_part_rejected", "repair_requested", "repair_draft",
     "repair_sent", "repair_returned", "pm_returned", "pm_waiting_review", "pm_plan_paused"}
StageKeys == {"pm_upcoming_7d", "pm_upcoming_3d", "pm_upcoming_1d", "pm_due_today"}
LoopKeys == {"pm_overdue", "pm_morning_summary", "pm_manager_morning", "pm_unassigned"}

\* What is to be sent.
Draft == [key: EventKeys \cup RequestKeys \cup StageKeys \cup LoopKeys,
          ref: Case \cup Plan \cup {OrderOf[b] : b \in Case} \cup {None},
          due: {Day(t) : t \in DueTimes} \cup {None}, to: User]

\* day, at: the date and the time the job read when it began the step; todo:
\* the plans or technicians still to be looked at; send: notices of the one
\* being looked at that are not written yet; read: the plans as the query
\* behind the loop read them.
Step == {"none", "stages", "overdue", "technicians", "managers", "unassigned"}
Job == [step: Step, day: Nat, at: Nat, todo: SUBSET (Plan \cup User),
        send: SUBSET Draft, read: [Plan -> PlanRow]]

Blank == [p \in Plan |-> [active |-> FALSE, due |-> CHOOSE t \in DueTimes : TRUE,
                          technician |-> NoUser]]
Resting == [step |-> "none", day |-> 0, at |-> 0, todo |-> {}, send |-> {}, read |-> Blank]

NoticesInit ==
    /\ now = 0
    /\ active = User
    /\ plan \in [Plan -> [active: {TRUE}, due: DueTimes, technician: {NoUser}]]
    /\ notices = EmptyBag
    /\ sentDay = -1
    /\ job = [w \in Process |-> Resting]
    /\ acts = 0
    /\ fails = 0

-------------------------------------------------------------------------------
(***************************************************************************)
(* Who hears what.                                                         *)
(***************************************************************************)
ActiveIn(roles) == {u \in active : RoleOf[u] \in roles}
WithSuperusers(roles) == ActiveIn(roles) \cup (active \cap Superuser)

\* _managers_supervisors_supers, _managers_supers, _procurement_supers,
\* _technicians_active.
Staff == WithSuperusers({"manager", "supervisor", "super_admin"})
Managers == WithSuperusers({"manager", "super_admin"})
Supply == WithSuperusers({"procurement", "super_admin"})
Technicians == ActiveIn({"technician"})

\* Role filters that leave superusers out.
ManagersByRole == ActiveIn({"manager", "super_admin"})

\* Accounts a row refers to, deactivated or not; and those still active.
People(us) == us \ {NoUser}
StillActive(us) == us \cap active

WoPeople(b) == People({Assignee[b], Creator[b]})

\* The notices of one kind, one per recipient.
To(key, ref, users) == {[key |-> key, ref |-> ref, due |-> None, to |-> u] : u \in users}

\* The creators of services_notifications.py; key is the dedup_key without
\* its ids.
BlockerOpened(b) == To("opened", b, Staff \cup WoPeople(b))
BlockerResolved(b) == To("resolved", b, Staff \cup WoPeople(b))
BlockerCancelled(b) == To("cancelled", b, Staff \cup WoPeople(b))
PartApproved(b) == To("resolved:approve", b, Staff \cup People({Requester[b]}))
PartRejected(b) == To("cancelled:reject", b, Managers \cup People({Requester[b], Creator[b]}))
ShortageRaised(b) == To("opened:shortage", b, Staff)
ShortageFulfilled(b) == To("resolved:shortage", b, Staff \cup WoPeople(b))
EroCreated(b) == To("opened:ero", b, Staff \cup Supply \cup People({Requester[b]}))
EroAccepted(b) == To("resolved:ero", b, Staff \cup People({Requester[b]}))
EmergencyInterrupted(b) == To("emergency_interrupted", b, Staff \cup WoPeople(b))
LaborResumed(b) == To("labor_resumed", OrderOf[b], Staff \cup WoPeople(b))
PoReceivedSummary(b, actor) == To("po_received_summary", b, Staff \cup Supply \cup {actor})

\* _EVENT_DISPATCH, and the summary of a receipt, which is sent the same way.
EventNotices(b) ==
    {BlockerOpened(b), BlockerResolved(b), BlockerCancelled(b), PartApproved(b),
     PartRejected(b), ShortageRaised(b), ShortageFulfilled(b), EroCreated(b),
     EroAccepted(b), EmergencyInterrupted(b), LaborResumed(b)}
    \cup {PoReceivedSummary(b, a) : a \in Supply \cup Managers}

\* The notices of notifications.py and of the preventive engine's requests.
NewIssue(b) == To("issue_new", b, Staff)
IssueValidated(b) == To("issue_validated", b, Managers)
EmergencyWorkOrder(b) == To("wo_emergency", b, Staff \cup Supply)
EmergencyIssueReported(b) == To("issue_emergency", b, Staff \cup Supply)
WoPendingReview(b) == To("wo_review", b, Staff)
WoAssigned(b) ==
    To("wo_assigned:you", b, People({Assignee[b]})) \cup
    To("wo_assigned", b, IF Assignee[b] = NoUser THEN {} ELSE Staff)
LowStock(b) == To("low_stock", b, Supply \cup Managers)
ProcurementRequest(b) == To("procurement", b, Supply \cup Managers)
RepairReturned(b) == To("repair_returned", b, Supply \cup Staff)
RepairRequestCreated(b) == To("repair_requested", b, Staff)

RepairDraftCreated(b) == To("repair_draft", b, Supply)
RepairSentToVendor(b) == To("repair_sent", b, Staff)
WoCreated(b) == To("wo_created", b, Staff)
WoStarted(b) == To("wo_started", b, Staff)
WoPaused(b) == To("wo_paused", b, Staff)
WoClosed(b) == To("wo_closed", b, Staff)
PartShortage(b) ==
    To("part_shortage", b, ManagersByRole \cup StillActive({Requester[b]}))
PartRequestReReview(b) == To("re_review", b, ManagersByRole)
WoPartReceived(b) ==
    To("wo_part_received", b, ManagersByRole \cup StillActive({Assignee[b], Creator[b]}))
WoPartReturned(b) ==
    To("wo_part_returned", b,
       ManagersByRole \cup StillActive({Assignee[b], Creator[b], Approver[b]}))
WoPartRejected(b) == To("wo_part_rejected", b, StillActive({Requester[b], Creator[b]}))
PmReturned(b) == To("pm_returned", b, People({Assignee[b]}))
WaitingReviewSubmitted(b) == To("pm_waiting_review", b, ManagersByRole)
PlanPaused(b) == To("pm_plan_paused", b, ManagersByRole)

DirectNotices(b) ==
    {NewIssue(b), IssueValidated(b), EmergencyWorkOrder(b), EmergencyIssueReported(b),
     WoPendingReview(b), WoAssigned(b), LowStock(b), ProcurementRequest(b),
     RepairReturned(b), RepairRequestCreated(b), RepairDraftCreated(b),
     RepairSentToVendor(b), WoCreated(b), WoStarted(b), WoPaused(b), WoClosed(b),
     PartShortage(b), PartRequestReReview(b), WoPartReceived(b), WoPartReturned(b),
     WoPartRejected(b), PmReturned(b), WaitingReviewSubmitted(b), PlanPaused(b)}

-------------------------------------------------------------------------------
(***************************************************************************)
(* Requests.                                                               *)
(***************************************************************************)
Row(d) == [key |-> d.key, ref |-> d.ref, due |-> d.due, to |-> d.to, at |-> now]

\* Notification.objects.create for each.
Write(ds) == notices' = notices (+) SetToBag({Row(d) : d \in ds})

Rows == BagToSet(notices)

Same(n, d) == n.key = d.key /\ n.ref = d.ref /\ n.to = d.to

\* Mutant: the key leaves out the recipient.
DedupAnyone(d) ==
    \E n \in Rows : n.key = d.key /\ n.ref = d.ref /\ n.at >= now - Window

\* Mutant: created_at__gt for created_at__gte.
DedupShort(d) == \E n \in Rows : Same(n, d) /\ n.at > now - Window

\* _dedup_exists.
DedupExists(d) == \E n \in Rows : Same(n, d) /\ n.at >= now - Window

Act == acts < MaxActs /\ acts' = acts + 1
Fail == fails < MaxFails /\ fails' = fails + 1

\* on_blocker_event, notify_po_received_summary.
BlockerEvent(b, ds) ==
    /\ Act
    /\ Write({d \in ds : ~ DedupExists(d)})
    /\ UNCHANGED <<now, active, plan, sentDay, job, fails>>

\* A handler that raises part way: the exception is logged and swallowed, and
\* what was written stays.
BlockerEventFails(b, ds) ==
    /\ Act
    /\ Fail
    /\ \E reached \in SUBSET {d \in ds : ~ DedupExists(d)} : Write(reached)
    /\ UNCHANGED <<now, active, plan, sentDay, job>>

\* _notify_users and send_bulk.
DirectNotice(b, ds) ==
    /\ Act
    /\ Write(ds)
    /\ UNCHANGED <<now, active, plan, sentDay, job, fails>>

\* An account is deactivated.
Deactivate(u) ==
    /\ u \in active
    /\ Act
    /\ active' = active \ {u}
    /\ UNCHANGED <<now, plan, notices, sentDay, job, fails>>

\* A plan is assigned, paused or resumed, or its due date moves on.
EditPlan(p) ==
    /\ Act
    /\ \/ \E u \in Technicians : plan' = [plan EXCEPT ![p].technician = u]
       \/ plan' = [plan EXCEPT ![p].active = ~ @]
       \/ \E d \in {t \in DueTimes : t > plan[p].due} : plan' = [plan EXCEPT ![p].due = d]
    /\ UNCHANGED <<now, active, notices, sentDay, job, fails>>

Tick ==
    /\ now < MaxNow
    /\ now' = now + 1
    /\ UNCHANGED <<active, plan, notices, sentDay, job, acts, fails>>

-------------------------------------------------------------------------------
(***************************************************************************)
(* The jobs.                                                               *)
(***************************************************************************)
Becomes(w, j) == job' = [job EXCEPT ![w] = j]

Begin(step, todo) ==
    [step |-> step, day |-> Today, at |-> now, todo |-> todo, send |-> {}, read |-> plan]

ActivePlans == {p \in Plan : plan[p].active}
OverduePlans == {p \in ActivePlans : plan[p].due < now}
DueOn(day) == {p \in Plan : Day(plan[p].due) = day}
WithWork(day) == People({plan[p].technician : p \in DueOn(day)})
Unassigned(day) == {p \in DueOn(day) \cap ActivePlans : plan[p].technician = NoUser}

Running(step) == \E w \in Process : job[w].step \in step

\* sync_pm_notifications, by cron, which does not overlap itself.
StartSync(w) ==
    /\ job[w] = Resting
    /\ ~ Running({"stages"})
    /\ Act
    /\ Becomes(w, Begin("stages", ActivePlans))
    /\ UNCHANGED <<now, active, plan, notices, sentDay, fails>>

\* sync_pm_overdue_notifications: the last step of the sync, a command of its
\* own, and a side effect of the dashboard and of the list of plans.
StartOverdue(w) ==
    /\ job[w] = Resting
    /\ Act
    /\ Becomes(w, Begin("overdue", OverduePlans))
    /\ UNCHANGED <<now, active, plan, notices, sentDay, fails>>

\* send_all_morning_summaries, in pm_daily_routine.
StartMorning(w) ==
    /\ job[w] = Resting
    /\ ~ Running({"technicians", "managers"})
    /\ sentDay # Today
    /\ Act
    /\ Becomes(w, Begin("technicians", WithWork(Today)))
    /\ UNCHANGED <<now, active, plan, notices, sentDay, fails>>

\* The recipients of a stage of the cascade; notify_pm_upcoming, notify_pm_due_today.
StageRecipients(days) ==
    CASE days \in {7, 3} -> Managers
      [] days = 1 -> Staff
      [] days = 0 -> Staff \cup Technicians
      [] OTHER -> {}

StageKey(days) ==
    CASE days = 7 -> "pm_upcoming_7d"
      [] days = 3 -> "pm_upcoming_3d"
      [] days = 1 -> "pm_upcoming_1d"
      [] days = 0 -> "pm_due_today"
      [] OTHER -> ""

\* The tag names the plan, the stage and the due date, and no recipient.
StageSent(p, days, due) ==
    \E n \in Rows : n.key = StageKey(days) /\ n.ref = p /\ n.due = due

StageDrafts(p, days, due) ==
    IF StageSent(p, days, due) THEN {}
    ELSE {[key |-> StageKey(days), ref |-> p, due |-> due, to |-> u] :
            u \in StageRecipients(days)}

\* Mutant: announced once and never again.
OverdueSentEver(p, t) == \E n \in Rows : n.key = "pm_overdue" /\ n.ref = p

\* The tag names the plan alone; 48 hours.
OverdueSent(p, t) ==
    \E n \in Rows : n.key = "pm_overdue" /\ n.ref = p /\ n.at >= t - 2 * Hours

OverdueDrafts(p, t) == IF OverdueSent(p, t) THEN {} ELSE To("pm_overdue", p, Managers)

\* The next plan of a loop over plans.
TakePlan(w, p) ==
    /\ p \in job[w].todo
    /\ job[w].send = {}
    /\ \/ /\ job[w].step = "stages"
          /\ LET due == Day(job[w].read[p].due)
             IN  Becomes(w, [job[w] EXCEPT !.todo = @ \ {p},
                               !.send = StageDrafts(p, due - job[w].day, due)])
       \/ /\ job[w].step = "overdue"
          /\ Becomes(w, [job[w] EXCEPT !.todo = @ \ {p}, !.send = OverdueDrafts(p, job[w].at)])
       \/ /\ job[w].step = "unassigned"
          /\ Becomes(w, [job[w] EXCEPT !.todo = @ \ {p},
                           !.send = To("pm_unassigned", p, ManagersByRole)])
    /\ UNCHANGED <<now, active, plan, notices, sentDay, acts, fails>>

\* morning_summary_to_tech: whoever is active and still has work.
TakeTechnician(w, u) ==
    /\ job[w].step = "technicians"
    /\ u \in job[w].todo
    /\ job[w].send = {}
    /\ Becomes(w, [job[w] EXCEPT !.todo = @ \ {u},
                     !.send = To("pm_morning_summary", None, {u} \cap active \cap WithWork(Today))])
    /\ UNCHANGED <<now, active, plan, notices, sentDay, acts, fails>>

Send(w, d) ==
    /\ d \in job[w].send
    /\ Write({d})
    /\ Becomes(w, [job[w] EXCEPT !.send = @ \ {d}])
    /\ UNCHANGED <<now, active, plan, sentDay, acts, fails>>

LoopDone(w, step) == job[w].step = step /\ job[w].todo = {} /\ job[w].send = {}

\* The sync goes on to the overdue plans.
StagesDone(w) ==
    /\ LoopDone(w, "stages")
    /\ Becomes(w, Begin("overdue", OverduePlans))
    /\ UNCHANGED <<now, active, plan, notices, sentDay, acts, fails>>

OverdueDone(w) ==
    /\ LoopDone(w, "overdue")
    /\ Becomes(w, Resting)
    /\ UNCHANGED <<now, active, plan, notices, sentDay, acts, fails>>

\* morning_summary_to_manager for each.
TechniciansDone(w) ==
    /\ LoopDone(w, "technicians")
    /\ Becomes(w, [job[w] EXCEPT !.step = "managers",
                     !.send = To("pm_manager_morning", None, ManagersByRole)])
    /\ UNCHANGED <<now, active, plan, notices, sentDay, acts, fails>>

\* Mutant: the date is saved as soon as the loop begins.
ManagersBegun(w) ==
    /\ job[w].step = "managers"
    /\ sentDay # job[w].day
    /\ sentDay' = job[w].day
    /\ IF job[w].send = {} THEN Becomes(w, Begin("unassigned", Unassigned(Today)))
                           ELSE UNCHANGED job
    /\ UNCHANGED <<now, active, plan, notices, acts, fails>>

\* morning_summary_sent_date is saved, with the date read at the start; then
\* send_unassigned_alerts.
ManagersDone(w) ==
    /\ LoopDone(w, "managers")
    /\ sentDay' = job[w].day
    /\ Becomes(w, Begin("unassigned", Unassigned(Today)))
    /\ UNCHANGED <<now, active, plan, notices, acts, fails>>

UnassignedDone(w) ==
    /\ LoopDone(w, "unassigned")
    /\ Becomes(w, Resting)
    /\ UNCHANGED <<now, active, plan, notices, sentDay, acts, fails>>

\* The process dies.
Crash(w) ==
    /\ job[w] # Resting
    /\ Fail
    /\ Becomes(w, Resting)
    /\ UNCHANGED <<now, active, plan, notices, sentDay, acts>>

-------------------------------------------------------------------------------
NoticesNext ==
    \/ \E b \in Case :
         \/ \E ds \in EventNotices(b) : BlockerEvent(b, ds) \/ BlockerEventFails(b, ds)
         \/ \E ds \in DirectNotices(b) : DirectNotice(b, ds)
    \/ \E u \in User : Deactivate(u)
    \/ \E p \in Plan : EditPlan(p)
    \/ Tick
    \/ \E w \in Process :
         \/ StartSync(w) \/ StartOverdue(w) \/ StartMorning(w)
         \/ \E p \in Plan : TakePlan(w, p)
         \/ \E u \in User : TakeTechnician(w, u)
         \/ \E d \in job[w].send : Send(w, d)
         \/ StagesDone(w) \/ OverdueDone(w) \/ TechniciansDone(w) \/ ManagersDone(w)
         \/ UnassignedDone(w) \/ Crash(w)

NoticesSpec == NoticesInit /\ [][NoticesNext]_nvars

-------------------------------------------------------------------------------
(***************************************************************************)
(* The properties.                                                         *)
(***************************************************************************)
\* Every row, draft and job has its type.
NoticesTypeOK ==
    /\ now \in 0..MaxNow
    /\ active \subseteq User
    /\ plan \in [Plan -> PlanRow]
    /\ IsABag(notices)
    /\ \A n \in Rows : /\ [key |-> n.key, ref |-> n.ref, due |-> n.due, to |-> n.to] \in Draft
                       /\ n.at \in 0..now
    /\ sentDay \in Nat \cup {-1}
    /\ job \in [Process -> Job]

\* Nobody gets the same blocker notice twice within the hour, however often
\* the event repeats and whether or not its handler failed part way before.
OncePerWindow ==
    \A n \in Rows :
      n.key \in EventKeys =>
        /\ notices[n] = 1
        /\ \A m \in Rows \ {n} :
             Same(n, m) => n.at > m.at + Window \/ m.at > n.at + Window

\* After a handler has run to its end everybody it concerns has a notice of
\* that event no older than the window: those an earlier failure left out, and
\* those who were no recipients then, included.
EveryoneHears ==
    [][\A b \in Case : \A ds \in EventNotices(b) :
         BlockerEvent(b, ds) =>
           \A d \in ds : \E n \in BagToSet(notices') : Same(n, d) /\ n.at >= now - Window]_nvars

\* Nobody hears twice of the same stage of the same due date, over crashes,
\* reruns on the same day and due dates that move while the job runs.
StageOnce ==
    \A n \in Rows :
      n.key \in StageKeys =>
        /\ notices[n] = 1
        /\ \A m \in Rows \ {n} : ~ (Same(n, m) /\ n.due = m.due)

\* When the overdue loop has run to its end, every plan it found has been
\* announced within 48 hours, as long as there is somebody to tell: a pause, a
\* crash, another page running the same loop, or an announcement of long ago
\* do not make an overdue plan pass in silence.
OverdueTold ==
    [][\A w \in Process :
         OverdueDone(w) /\ Managers # {} =>
           \A p \in Plan :
             job[w].read[p].active /\ job[w].read[p].due < job[w].at =>
               \E n \in Rows : /\ n.key = "pm_overdue"
                              /\ n.ref = p
                              /\ n.at >= job[w].at - 2 * Hours]_nvars

\* Once the morning summaries count as sent, every manager has today's: a run
\* that died half way is repeated, and one that passed midnight does not count
\* for the new day.
SummariesSent ==
    sentDay = Today =>
      \A u \in ManagersByRole :
        \E n \in Rows : n.key = "pm_manager_morning" /\ n.to = u /\ Day(n.at) = Today

\* Nobody is told the same thing twice, by requests or by jobs, over failures,
\* crashes and reruns.
NoticesInv == NoticesTypeOK /\ OncePerWindow /\ StageOnce
===============================================================================
