---------------------------- MODULE PreventiveProofs --------------------------
(***************************************************************************)
(* Proofs about Preventive, for any number of plans, technicians and days. *)
(* Fairness plays no part here: the theorems are about PreventiveSpec, and *)
(* so hold of FairSpec.                                                    *)
(***************************************************************************)
EXTENDS Preventive, TLAPS

\* What every PMExecution row and its work order satisfy: no row means no work
\* order, an owner means one, and what was returned is in hand.
SoundRow(row) ==
    /\ row \in ExecutionRow
    /\ row.status = "absent" => row.wo = "none" /\ row.tech = NoTech
    /\ row.tech # NoTech => row.wo # "none"
    /\ row.status = "rejected" => row.wo \in {"assigned", "in_progress"}

\* The strengthening of PreventiveInv: the rows one by one, and plans that are
\* active were saved.
PreventiveIInv ==
    /\ PreventiveTypeOK
    /\ \A k \in Key : SoundRow(exe[k])
    /\ \A p \in Plan : plan[p].active => plan[p].exists

\* What one step may do to an execution that waits for a review.
Keeps(row, new) ==
    row.status = "submitted" /\ row.wo = "pending_review" =>
      \/ new.status = "submitted" /\ new.wo = "pending_review"
      \/ new.status = "approved"
      \/ new.wo = "closed"
      \/ new.returns > row.returns
      \/ row.op = "paused" /\ new.wo \in {"assigned", "in_progress"}

\* What one step may do to the rows.
GoodRows ==
    /\ exe' \in [Key -> ExecutionRow]
    /\ \A k \in Key : /\ SoundRow(exe'[k]) /\ Keeps(exe[k], exe'[k])
                      /\ exe'[k].status # "absent"
                           => exe[k].status # "absent" \/ plan'[k[1]].exists

\* What one step may do to the plans.
GoodPlans ==
    /\ plan' \in [Plan -> PlanRow]
    /\ \A p \in Plan : /\ plan[p].exists => plan'[p].exists
                       /\ plan'[p].active => plan'[p].exists
                       /\ \/ plan'[p].due = plan[p].due
                          \/ plan'[p].due = plan[p].due + Every[p]
                          \/ ~ plan[p].exists
                          \/ saves' # saves

-------------------------------------------------------------------------------
(***************************************************************************)
(* Rows.                                                                   *)
(***************************************************************************)
\* A row the assignment service wrote.
LEMMA AssignedRow ==
    ASSUME NEW row, SoundRow(row), row.status # "absent", row.tech = NoTech,
           NEW t \in Tech \cup {NoTech}
    PROVE  /\ SoundRow(Assigned(row, t)) /\ Keeps(row, Assigned(row, t))
           /\ Assigned(row, t).status = row.status
<1>1. Assigned(row, t) \in ExecutionRow
    BY DEF SoundRow, ExecutionRow, Lifecycle, Assigned
<1>2. /\ Assigned(row, t).status = row.status /\ Assigned(row, t).wo # "none"
      /\ row.wo # "none" => Assigned(row, t).wo = row.wo
    BY DEF SoundRow, ExecutionRow, Assigned
<1> HIDE DEF Assigned
<1> QED BY <1>1, <1>2 DEF SoundRow, Keeps

LEMMA AssignedOrReRow ==
    ASSUME NEW row, SoundRow(row), row.status # "absent", NEW t \in Tech
    PROVE  SoundRow(AssignedOrRe(row, t)) /\ Keeps(row, AssignedOrRe(row, t))
<1>1. CASE row.tech = NoTech BY <1>1, AssignedRow DEF AssignedOrRe
<1>2. CASE row.tech # NoTech
    <2>1. AssignedOrRe(row, t) = Reassigned(row, t) BY <1>2 DEF AssignedOrRe
    <2>2. /\ Reassigned(row, t) \in ExecutionRow
          /\ Reassigned(row, t).status = row.status /\ Reassigned(row, t).wo = row.wo
        BY DEF Reassigned, SoundRow, ExecutionRow
    <2> QED BY <1>2, <2>1, <2>2 DEF SoundRow, Keeps
<1> QED BY <1>1, <1>2

\* A row claimed, a row started.
LEMMA ClaimedRow ==
    ASSUME NEW row, SoundRow(row), row.status # "absent", NEW t \in Tech
    PROVE  /\ SoundRow(Claimed(row, t)) /\ Keeps(row, Claimed(row, t))
           /\ Claimed(row, t).status = row.status
           /\ row.wo \notin {"none", "assigned"} => Claimed(row, t).wo = row.wo
<1>1. CASE row.tech = NoTech
    <2>1. row.wo # "none" => Assigned(row, t).wo = row.wo
        BY DEF Assigned, SoundRow, ExecutionRow
    <2> QED BY <1>1, <2>1, AssignedRow DEF Claimed
<1>2. CASE row.tech # NoTech BY <1>2 DEF Claimed, Keeps
<1> QED BY <1>1, <1>2

LEMMA StartedRow ==
    ASSUME NEW row, SoundRow(row), row.status # "absent"
    PROVE  /\ SoundRow(Started(row)) /\ Keeps(row, Started(row))
           /\ Started(row).status = row.status
           /\ row.wo \notin {"none", "assigned"} => Started(row).wo = row.wo
<1>1. Started(row) \in ExecutionRow
    BY DEF SoundRow, ExecutionRow, Lifecycle, Started
<1>2. /\ Started(row).status = row.status /\ Started(row).tech = row.tech
      /\ Started(row).wo = IF row.wo \in {"none", "assigned"} THEN "in_progress" ELSE row.wo
    BY DEF SoundRow, ExecutionRow, Started
<1> HIDE DEF Started
<1> QED BY <1>1, <1>2 DEF SoundRow, Keeps

\* tech_start and tech_execute.
LEMMA WorkedRow ==
    ASSUME NEW row, SoundRow(row), row.status # "absent", NEW t \in Tech
    PROVE  /\ SoundRow(Started(Claimed(row, t))) /\ Keeps(row, Started(Claimed(row, t)))
           /\ SoundRow(Opened(row, t)) /\ Keeps(row, Opened(row, t))
           /\ Opened(row, t).status # "absent"
           /\ row.wo = "pending_review" => Opened(row, t) = row
<1> DEFINE mine == Claimed(row, t)
<1>1. /\ SoundRow(mine) /\ mine.status = row.status
      /\ row.wo \notin {"none", "assigned"} => mine.wo = row.wo
    BY ClaimedRow
<1> HIDE DEF mine
<1>2. /\ SoundRow(Started(mine)) /\ Started(mine).status = row.status
      /\ row.wo \notin {"none", "assigned"} => Started(mine).wo = row.wo
    BY <1>1, StartedRow
<1>3. SoundRow(Started(mine)) /\ Keeps(row, Started(mine))
    BY <1>2 DEF Keeps
<1>4. CASE row.wo = "none" BY <1>2, <1>3, <1>4 DEF Opened, mine
<1>5. CASE row.wo # "none" BY <1>3, <1>5 DEF Opened, mine, Keeps
<1> QED BY <1>4, <1>5

\* A row whose operational status was recomputed, and one whose work order went
\* through transition_work_order: nothing else changes.
Same(row, new, to) ==
    /\ new \in ExecutionRow
    /\ new.status = row.status /\ new.tech = row.tech /\ new.returns = row.returns
    /\ new.wo = to

LEMMA RecomputedRow ==
    ASSUME NEW row \in ExecutionRow, NEW new \in Recomputed(row)
    PROVE  Same(row, new, row.wo)
<1>1. PICK op \in {"active", "paused"} : new = [row EXCEPT !.op = op]
    <2>1. CASE new = Unblocked(row) BY <2>1 DEF Unblocked, ExecutionRow
    <2>2. CASE new = Blocked(row) BY <2>2 DEF Blocked, ExecutionRow
    <2> QED BY <2>1, <2>2 DEF Recomputed
<1> QED BY <1>1 DEF Same, ExecutionRow

LEMMA TransitionedRow ==
    ASSUME NEW row \in ExecutionRow, NEW to \in Lifecycle, NEW new \in Transitioned(row, to)
    PROVE  Same(row, new, to)
<1>1. CASE row.wo = to BY <1>1 DEF Transitioned, Same
<1>2. CASE row.wo # to
    <2> DEFINE moved == [row EXCEPT !.wo = to]
    <2>1. moved \in ExecutionRow /\ Same(row, moved, to) BY DEF ExecutionRow, Same
    <2>2. new \in Recomputed(moved) BY <1>2 DEF Transitioned
    <2> HIDE DEF moved
    <2>3. Same(moved, new, moved.wo) BY <2>1, <2>2, RecomputedRow
    <2> QED BY <2>1, <2>3 DEF Same
<1> QED BY <1>1, <1>2

\* complete, and the submissions of the older pages.
LEMMA CompletedRow ==
    ASSUME NEW row, SoundRow(row), row.status # "absent"
    PROVE  /\ SoundRow(Completed(row)) /\ Keeps(row, Completed(row))
           /\ \A new \in Resubmitted(row) : SoundRow(new) /\ Keeps(row, new)
<1>1. Completed(row) \in ExecutionRow
    <2>1. PICK n \in Nat :
             n = IF row.status = "rejected" THEN row.returns + 1 ELSE row.returns
        BY DEF SoundRow, ExecutionRow
    <2>2. Completed(row) =
             [row EXCEPT !.status = IF row.status = "rejected" THEN "submitted" ELSE row.status,
                         !.returns = n, !.wo = "pending_review"]
        BY <2>1 DEF Completed
    <2> QED BY <2>1, <2>2 DEF SoundRow, ExecutionRow, Lifecycle
<1>2. /\ Completed(row).status = IF row.status = "rejected" THEN "submitted" ELSE row.status
      /\ Completed(row).wo = "pending_review"
    BY DEF SoundRow, ExecutionRow, Completed
<1>3. ASSUME NEW new \in Resubmitted(row) PROVE SoundRow(new) /\ Keeps(row, new)
    <2> DEFINE again == [row EXCEPT !.status = IF @ = "rejected" THEN "submitted" ELSE @]
    <2>1. /\ again \in ExecutionRow /\ again.status # "absent" /\ again.status # "rejected"
          /\ row.status = "submitted" => again.status = "submitted"
        BY DEF SoundRow, ExecutionRow
    <2>2. new \in Transitioned(again, "pending_review") BY <1>3 DEF Resubmitted
    <2> HIDE DEF again
    <2>3. Same(again, new, "pending_review") BY <2>1, <2>2, TransitionedRow DEF Lifecycle
    <2> QED BY <2>1, <2>3 DEF Same, SoundRow, Keeps
<1> HIDE DEF Completed
<1> QED BY <1>1, <1>2, <1>3 DEF SoundRow, Keeps

\* The work order's own pages, and blockers of the order that come and go.
LEMMA OrderRow ==
    ASSUME NEW row, SoundRow(row), row.status # "absent"
    PROVE  /\ row.wo = "assigned" \/ row.op = "paused"
                => \A new \in Transitioned(row, "in_progress") : SoundRow(new) /\ Keeps(row, new)
           /\ row.op = "paused"
                => \A new \in Transitioned(row, "assigned") : SoundRow(new) /\ Keeps(row, new)
           /\ \A new \in Recomputed(row) : SoundRow(new) /\ Keeps(row, new)
<1> row \in ExecutionRow BY DEF SoundRow
<1>1. ASSUME row.wo = "assigned" \/ row.op = "paused", NEW new \in Transitioned(row, "in_progress")
      PROVE  SoundRow(new) /\ Keeps(row, new)
    <2>1. Same(row, new, "in_progress") BY <1>1, TransitionedRow DEF Lifecycle
    <2> QED BY <1>1, <2>1 DEF Same, SoundRow, Keeps
<1>2. ASSUME row.op = "paused", NEW new \in Transitioned(row, "assigned")
      PROVE  SoundRow(new) /\ Keeps(row, new)
    <2>1. Same(row, new, "assigned") BY <1>2, TransitionedRow DEF Lifecycle
    <2> QED BY <1>2, <2>1 DEF Same, SoundRow, Keeps
<1>3. ASSUME NEW new \in Recomputed(row) PROVE SoundRow(new) /\ Keeps(row, new)
    <2>1. Same(row, new, row.wo) BY <1>3, RecomputedRow
    <2> QED BY <2>1 DEF Same, SoundRow, Keeps
<1> QED BY <1>1, <1>2, <1>3

\* A row a manager decided about, on the pages of the engine and on the older
\* ones.
LEMMA DecidedRow ==
    ASSUME NEW row, SoundRow(row), row.status # "absent"
    PROVE  /\ SoundRow(Returned(row)) /\ Keeps(row, Returned(row))
           /\ LET a == [row EXCEPT !.status = "approved",
                                   !.wo = IF row.wo = "none" THEN "none" ELSE "closed"]
              IN  SoundRow(a) /\ Keeps(row, a)
<1>1. SoundRow(Returned(row)) /\ Keeps(row, Returned(row))
    <2>1. PICK n \in Nat : n = row.returns + 1 /\ n > row.returns
        BY DEF SoundRow, ExecutionRow
    <2>2. Returned(row) = [row EXCEPT !.status = "rejected", !.wo = "in_progress", !.returns = n]
        BY <2>1 DEF Returned
    <2> QED BY <2>1, <2>2 DEF SoundRow, ExecutionRow, Lifecycle, Keeps
<1>2. LET a == [row EXCEPT !.status = "approved",
                           !.wo = IF row.wo = "none" THEN "none" ELSE "closed"]
      IN  SoundRow(a) /\ Keeps(row, a)
    BY DEF SoundRow, ExecutionRow, Lifecycle, Keeps
<1> QED BY <1>1, <1>2

LEMMA ReviewedRow ==
    ASSUME NEW row, SoundRow(row), row.wo = "pending_review"
    PROVE  /\ \A new \in Transitioned([row EXCEPT !.status = "approved"], "closed") :
                SoundRow(new) /\ Keeps(row, new)
           /\ \A new \in Transitioned(row, "closed") : SoundRow(new) /\ Keeps(row, new)
           /\ \A new \in SentBack(row) : SoundRow(new) /\ Keeps(row, new)
           /\ \A new \in SentBack([row EXCEPT !.status = "rejected"]) :
                SoundRow(new) /\ Keeps(row, new)
<1> row \in ExecutionRow /\ row.status \notin {"absent", "rejected"} BY DEF SoundRow
<1> "closed" \in Lifecycle /\ "in_progress" \in Lifecycle BY DEF Lifecycle
<1>1. ASSUME NEW new \in Transitioned([row EXCEPT !.status = "approved"], "closed")
      PROVE  SoundRow(new) /\ Keeps(row, new)
    <2> DEFINE done == [row EXCEPT !.status = "approved"]
    <2>1. done \in ExecutionRow /\ done.status = "approved" BY DEF ExecutionRow
    <2>2. new \in Transitioned(done, "closed") BY <1>1
    <2> HIDE DEF done
    <2>3. Same(done, new, "closed") BY <2>1, <2>2, TransitionedRow
    <2> QED BY <2>1, <2>3 DEF Same, SoundRow, Keeps
<1>2. ASSUME NEW new \in Transitioned(row, "closed") PROVE SoundRow(new) /\ Keeps(row, new)
    <2>1. Same(row, new, "closed") BY <1>2, TransitionedRow
    <2> QED BY <2>1 DEF Same, SoundRow, Keeps
<1>3. ASSUME NEW old, old \in ExecutionRow, old.status # "absent", old.returns = row.returns,
             NEW new \in SentBack(old)
      PROVE  SoundRow(new) /\ Keeps(row, new)
    <2> DEFINE back == [old EXCEPT !.returns = @ + 1]
    <2>1. /\ back \in ExecutionRow /\ back.returns > row.returns
          /\ back.status = old.status
        BY <1>3 DEF ExecutionRow
    <2>2. new \in Transitioned(back, "in_progress") BY <1>3 DEF SentBack
    <2> HIDE DEF back
    <2>3. Same(back, new, "in_progress") BY <2>1, <2>2, TransitionedRow
    <2> QED BY <1>3, <2>1, <2>3 DEF Same, SoundRow, Keeps
<1>4. /\ [row EXCEPT !.status = "rejected"] \in ExecutionRow
      /\ [row EXCEPT !.status = "rejected"].status # "absent"
      /\ [row EXCEPT !.status = "rejected"].returns = row.returns
    BY DEF ExecutionRow
<1> QED BY <1>1, <1>2, <1>3, <1>4

-------------------------------------------------------------------------------
(***************************************************************************)
(* Tables.                                                                 *)
(***************************************************************************)
LEMMA Keys ==
    /\ \A k \in Key : k[1] \in Plan /\ k[2] \in Day
    /\ \A p \in Plan, d \in Day, n \in Slot : <<p, d, n>> \in Key /\ <<p, d, n>>[1] = p
BY DEF Key

LEMMA Typed ==
    ASSUME PreventiveIInv
    PROVE  /\ day \in Day /\ plan \in [Plan -> PlanRow] /\ exe \in [Key -> ExecutionRow]
           /\ lastRun \in Day \cup {-1} /\ saves \in 0..MaxSaves
           /\ \A k \in Key : SoundRow(exe[k]) /\ (exe[k].wo # "none" => exe[k].status # "absent")
           /\ \A k \in Key : exe[k].status # "absent" => plan[k[1]].exists
BY DEF PreventiveIInv, PreventiveTypeOK, SoundRow, Executions

\* The new occurrence.
LEMMA NewRow ==
    /\ SoundRow(NewExecution) /\ NewExecution.status = "submitted"
    /\ \A row : row.status = "absent" => Keeps(row, NewExecution)
    /\ LET s == [NewExecution EXCEPT !.wo = "assigned"]
       IN  SoundRow(s) /\ s.status = "submitted"
           /\ \A row : row.status = "absent" => Keeps(row, s)
<1>1. NewExecution = [status |-> "submitted", tech |-> NoTech, wo |-> "none",
                      op |-> "paused", returns |-> 0]
    BY DEF NewExecution, NoExecution
<1>2. [NewExecution EXCEPT !.wo = "assigned"]
        = [status |-> "submitted", tech |-> NoTech, wo |-> "assigned",
           op |-> "paused", returns |-> 0]
    BY <1>1
<1> QED BY <1>1, <1>2 DEF SoundRow, ExecutionRow, Lifecycle, Keeps

\* One row is written.
LEMMA SetRow ==
    ASSUME PreventiveIInv, NEW k \in Key, NEW row, SoundRow(row), Keeps(exe[k], row),
           Set(k, row), exe[k].status # "absent" \/ plan'[k[1]].exists
    PROVE  GoodRows
<1>1. row \in ExecutionRow BY DEF SoundRow
<1>2. exe' = [exe EXCEPT ![k] = row] BY DEF Set
<1>3. exe' \in [Key -> ExecutionRow] BY <1>1, <1>2, Typed
<1>4. \A j \in Key : exe'[j] = IF j = k THEN row ELSE exe[j] BY <1>2, Typed
<1>5. \A j \in Key : SoundRow(exe[j]) /\ Keeps(exe[j], exe[j]) BY Typed DEF Keeps
<1> QED BY <1>3, <1>4, <1>5 DEF GoodRows

LEMMA SameRows ==
    ASSUME PreventiveIInv, exe' = exe
    PROVE  GoodRows
<1>1. \A j \in Key : SoundRow(exe[j]) /\ Keeps(exe[j], exe[j]) BY Typed DEF Keeps
<1> QED BY <1>1, Typed DEF GoodRows

LEMMA SamePlans ==
    ASSUME PreventiveIInv, plan' = plan
    PROVE  GoodPlans
BY DEF GoodPlans, PreventiveIInv, PreventiveTypeOK

\* generate_today
LEMMA GeneratedRows ==
    ASSUME PreventiveIInv, NEW pl, NEW force \in BOOLEAN, GenerateToday(pl, force),
           \A p \in Plan : pl[p].active => plan'[p].exists
    PROVE  GoodRows /\ lastRun' \in Day \cup {-1}
<1>1. CASE exe' = exe /\ lastRun' = lastRun BY <1>1, SameRows, Typed
<1>2. CASE exe' = WithOccurrences(pl) /\ lastRun' = day
    <2>1. ASSUME NEW k \in Key
          PROVE  /\ SoundRow(exe'[k]) /\ Keeps(exe[k], exe'[k])
                 /\ exe'[k].status # "absent" => exe[k].status # "absent" \/ plan'[k[1]].exists
        <3>1. CASE exe'[k] = exe[k] BY <3>1, Typed DEF Keeps
        <3>2. CASE /\ exe'[k] = NewExecution /\ exe[k].status = "absent"
                   /\ k[1] \in Eligible(pl)
            <4>1. plan'[k[1]].exists BY <3>2 DEF Eligible
            <4> QED BY <3>2, <4>1, NewRow
        <3> QED BY <1>2, <3>1, <3>2 DEF WithOccurrences
    <2>2. exe' \in [Key -> ExecutionRow]
        <3>1. exe' = [k \in Key |-> exe'[k]] BY <1>2 DEF WithOccurrences
        <3> QED BY <2>1, <3>1 DEF SoundRow
    <2> QED BY <1>2, <2>1, <2>2, Typed DEF GoodRows
<1> QED BY <1>1, <1>2 DEF GenerateToday

\* The plan form.
LEMMA SavedPlan ==
    ASSUME PreventiveIInv, NEW p \in Plan, NEW due \in Nat, NEW active \in BOOLEAN, NEW onTime \in BOOLEAN,
           plan' = Saved(p, due, active, onTime), saves' # saves \/ ~ plan[p].exists
    PROVE  GoodPlans
<1> DEFINE row == [exists |-> TRUE, active |-> active, due |-> due, onTime |-> onTime]
<1>1. row \in PlanRow /\ row.exists BY DEF PlanRow
<1>2. plan' = [plan EXCEPT ![p] = row] BY DEF Saved
<1> HIDE DEF row
<1>3. plan' \in [Plan -> PlanRow] /\ \A q \in Plan : plan'[q] = IF q = p THEN row ELSE plan[q]
    BY <1>1, <1>2, Typed
<1> QED BY <1>1, <1>3 DEF GoodPlans, PreventiveIInv

\* The due date moves on by one period.
LEMMA AdvancedPlan ==
    ASSUME PreventiveIInv, NEW p \in Plan, Advance(p)
    PROVE  GoodPlans
<1> DEFINE row == [plan[p] EXCEPT !.due = NextDue(p)]
<1>1. plan[p] \in PlanRow /\ Every[p] \in Nat BY Typed, PreventiveAssumption
<1>2. NextDue(p) \in Nat /\ NextDue(p) = plan[p].due + Every[p]
    BY <1>1 DEF NextDue, PlanRow
<1>3. plan' = [plan EXCEPT ![p] = row] BY DEF Advance
<1>4. row \in PlanRow /\ row.exists = plan[p].exists /\ row.active = plan[p].active
      /\ row.due = plan[p].due + Every[p]
    BY <1>1, <1>2 DEF PlanRow
<1> HIDE DEF row
<1>5. plan' \in [Plan -> PlanRow] /\ \A q \in Plan : plan'[q] = IF q = p THEN row ELSE plan[q]
    BY <1>3, <1>4, Typed
<1> QED BY <1>4, <1>5 DEF GoodPlans, PreventiveIInv

LEMMA PausedPlan ==
    ASSUME PreventiveIInv, NEW p \in Plan, PlanPause(p)
    PROVE  GoodPlans
<1> DEFINE row == [plan[p] EXCEPT !.active = ~ @]
<1>1. plan[p] \in PlanRow /\ plan[p].exists BY Typed DEF PlanPause
<1>2. plan' = [plan EXCEPT ![p] = row] BY DEF PlanPause
<1>3. row \in PlanRow /\ row.exists = plan[p].exists /\ row.due = plan[p].due
    BY <1>1 DEF PlanRow
<1> HIDE DEF row
<1>4. plan' \in [Plan -> PlanRow] /\ \A q \in Plan : plan'[q] = IF q = p THEN row ELSE plan[q]
    BY <1>2, <1>3, Typed
<1> QED BY <1>1, <1>3, <1>4 DEF GoodPlans, PreventiveIInv

-------------------------------------------------------------------------------
(***************************************************************************)
(* Steps.                                                                  *)
(***************************************************************************)
\* What every handler does to the tables.
GoodStep ==
    /\ GoodRows
    /\ GoodPlans
    /\ day' \in Day
    /\ lastRun' \in Day \cup {-1}
    /\ saves' \in 0..MaxSaves

\* The clock, cron and mgr_today.
LEMMA DailyStep ==
    ASSUME PreventiveIInv, Tick \/ MgrToday \/ \E force \in BOOLEAN : DailyRoutine(force)
    PROVE  GoodStep
<1>1. CASE Tick
    <2>1. day' \in Day BY <1>1, Typed, PreventiveAssumption DEF Tick, Day
    <2> QED BY <1>1, <2>1, SameRows, SamePlans, Typed DEF GoodStep, Tick
<1>2. CASE MgrToday \/ \E force \in BOOLEAN : DailyRoutine(force)
    <2>1. /\ \E force \in BOOLEAN : GenerateToday(plan, force)
          /\ UNCHANGED <<day, plan, saves>>
        BY <1>2 DEF MgrToday, DailyRoutine
    <2>2. \A p \in Plan : plan[p].active => plan'[p].exists
        BY <2>1 DEF PreventiveIInv
    <2>3. GoodRows /\ lastRun' \in Day \cup {-1} BY <2>1, <2>2, GeneratedRows
    <2> QED BY <2>1, <2>3, SamePlans, Typed DEF GoodStep
<1> QED BY <1>1, <1>2

\* The forms, the pause button and run-now.
LEMMA PlanningStep ==
    ASSUME PreventiveIInv, NEW p \in Plan,
           \/ \E due \in Day, active, onTime \in BOOLEAN :
                PmCreate(p, due, active, onTime) \/ PlanForm(p, due, active, onTime)
           \/ PlanPause(p)
           \/ \E n \in 1..MaxNow : RunNow(p, n)
    PROVE  GoodStep
<1>1. ASSUME NEW due \in Day, NEW active \in BOOLEAN, NEW onTime \in BOOLEAN,
             PmCreate(p, due, active, onTime)
      PROVE  GoodStep
    <2>1. due \in Nat BY PreventiveAssumption DEF Day
    <2>2. GoodPlans BY <1>1, <2>1, SavedPlan DEF PmCreate
    <2> QED BY <1>1, <2>2, SameRows, Typed DEF GoodStep, PmCreate
<1>2. ASSUME NEW due \in Day, NEW active \in BOOLEAN, NEW onTime \in BOOLEAN,
             PlanForm(p, due, active, onTime)
      PROVE  GoodStep
    <2>1. due \in Nat BY PreventiveAssumption DEF Day
    <2>2. saves' # saves /\ saves' \in 0..MaxSaves
        BY <1>2, Typed, PreventiveAssumption DEF PlanForm
    <2>3. plan' = Saved(p, due, active, onTime) BY <1>2 DEF PlanForm
    <2>4. GoodPlans BY <2>1, <2>2, <2>3, SavedPlan
    <2>5. \A q \in Plan : Saved(p, due, active, onTime)[q].active => plan'[q].exists
        BY <2>3, <2>4 DEF GoodPlans
    <2>6. GoodRows /\ lastRun' \in Day \cup {-1}
        <3>1. CASE UNCHANGED <<exe, lastRun>> BY <3>1, SameRows, Typed
        <3>2. CASE GenerateToday(Saved(p, due, active, onTime), FALSE)
            BY <2>5, <3>2, GeneratedRows
        <3> QED BY <1>2, <3>1, <3>2 DEF PlanForm
    <2>7. day' = day BY <1>2 DEF PlanForm
    <2> QED BY <2>2, <2>4, <2>6, <2>7, Typed DEF GoodStep
<1>3. ASSUME PlanPause(p) PROVE GoodStep
    BY <1>3, PausedPlan, SameRows, Typed DEF GoodStep, PlanPause
<1>4. ASSUME NEW n \in 1..MaxNow, RunNow(p, n) PROVE GoodStep
    <2> DEFINE k == <<p, day, n>>
    <2>1. /\ plan[p].exists /\ exe[k].status = "absent" /\ Set(k, NewExecution)
          /\ UNCHANGED <<day, plan, lastRun, saves>>
        BY <1>4 DEF RunNow
    <2>2. n \in Slot BY PreventiveAssumption DEF Slot
    <2>3. k \in Key /\ k[1] = p BY <2>2, Keys, Typed
    <2> HIDE DEF k
    <2>4. Keeps(exe[k], NewExecution) BY <2>1, NewRow
    <2>5. GoodRows BY <2>1, <2>3, <2>4, NewRow, SetRow
    <2> QED BY <2>1, <2>5, SamePlans, Typed DEF GoodStep
<1> QED BY <1>1, <1>2, <1>3, <1>4

\* mgr_plan_assign and pm_spawn_wo.
LEMMA AssigningStep ==
    ASSUME PreventiveIInv, NEW p \in Plan,
           \/ \E t \in Tech : PlanAssign(p, t)
           \/ \E done \in SUBSET PlanTargets(p) : PlanUnassign(p, done)
           \/ SpawnWO(p)
    PROVE  GoodStep
<1>1. PlanTargets(p) \subseteq Key /\ \A k \in PlanTargets(p) : exe[k].status # "absent"
    BY DEF PlanTargets, Of, Executions
<1>2. \A k \in Key : SoundRow(exe[k]) /\ Keeps(exe[k], exe[k]) BY Typed DEF Keeps
<1>3. ASSUME NEW t \in Tech, PlanAssign(p, t) PROVE GoodStep
    <2>1. /\ exe' = [k \in Key |-> IF k \in PlanTargets(p) THEN AssignedOrRe(exe[k], t)
                                   ELSE exe[k]]
          /\ UNCHANGED <<day, plan, lastRun, saves>>
        BY <1>3 DEF PlanAssign
    <2>2. \A k \in Key : exe'[k] = IF k \in PlanTargets(p) THEN AssignedOrRe(exe[k], t)
                                   ELSE exe[k]
        BY <2>1
    <2>3. \A k \in Key : /\ SoundRow(exe'[k]) /\ Keeps(exe[k], exe'[k])
                         /\ exe'[k].status # "absent"
                              => exe[k].status # "absent" \/ plan'[k[1]].exists
        BY <1>1, <1>2, <2>2, AssignedOrReRow
    <2>4. exe' \in [Key -> ExecutionRow]
        <3>1. \A k \in Key : exe'[k] \in ExecutionRow BY <2>3 DEF SoundRow
        <3>2. exe' = [k \in Key |-> exe'[k]] BY <2>1
        <3> QED BY <3>1, <3>2
    <2> QED BY <2>1, <2>3, <2>4, SamePlans, Typed DEF GoodStep, GoodRows
<1>4. ASSUME NEW done \in SUBSET PlanTargets(p), PlanUnassign(p, done) PROVE GoodStep
    <2>1. /\ exe' = [k \in Key |-> IF k \in done THEN Assigned(exe[k], NoTech) ELSE exe[k]]
          /\ UNCHANGED <<day, plan, lastRun, saves>>
          /\ \A k \in done : exe[k].tech = NoTech
        BY <1>4 DEF PlanUnassign
    <2>2. \A k \in Key : exe'[k] = IF k \in done THEN Assigned(exe[k], NoTech) ELSE exe[k]
        BY <2>1
    <2>3. \A k \in Key : /\ SoundRow(exe'[k]) /\ Keeps(exe[k], exe'[k])
                         /\ exe'[k].status # "absent"
                              => exe[k].status # "absent" \/ plan'[k[1]].exists
        BY <1>1, <1>2, <2>1, <2>2, AssignedRow
    <2>4. exe' \in [Key -> ExecutionRow]
        <3>1. \A k \in Key : exe'[k] \in ExecutionRow BY <2>3 DEF SoundRow
        <3>2. exe' = [k \in Key |-> exe'[k]] BY <2>1
        <3> QED BY <3>1, <3>2
    <2> QED BY <2>1, <2>3, <2>4, SamePlans, Typed DEF GoodStep, GoodRows
<1>5. ASSUME SpawnWO(p) PROVE GoodStep
    <2> DEFINE k == <<p, plan[p].due, IF plan[p].onTime THEN AtDueTime ELSE AtNextDue>>
               new == [NewExecution EXCEPT !.wo = "assigned"]
    <2>1. /\ plan[p].active /\ plan[p].due <= MaxDay /\ exe[k].status = "absent"
          /\ Set(k, new) /\ UNCHANGED <<day, plan, lastRun, saves>>
        BY <1>5 DEF SpawnWO
    <2>2. k \in Key /\ k[1] = p
        <3>1. plan[p].due \in Nat BY Typed DEF PlanRow
        <3>2. plan[p].due \in Day /\ AtDueTime \in Slot /\ AtNextDue \in Slot
            BY <2>1, <3>1, PreventiveAssumption DEF Day, Slot, AtDueTime, AtNextDue
        <3> QED BY <3>2, Keys
    <2>3. SoundRow(new) /\ Keeps(exe[k], new) BY <2>1, NewRow
    <2>4. plan'[p].exists BY <2>1 DEF PreventiveIInv
    <2> HIDE DEF k, new
    <2>5. GoodRows BY <2>1, <2>2, <2>3, <2>4, SetRow
    <2> QED BY <2>1, <2>5, SamePlans, Typed DEF GoodStep
<1> QED BY <1>3, <1>4, <1>5

\* What the technicians do.
LEMMA WorkingStep ==
    ASSUME PreventiveIInv, NEW k \in Key, Working(k)
    PROVE  GoodStep
<1> SUFFICES ASSUME NEW row, SoundRow(row), Keeps(exe[k], row), Set(k, row),
                    exe[k].status # "absent", UNCHANGED <<day, plan, lastRun, saves>>
             PROVE  GoodStep
    <2>1. ASSUME NEW t \in Tech, TechStart(k, t) \/ TechExecute(k, t) \/ TechComplete(k, t)
          PROVE  \E row : /\ SoundRow(row) /\ Keeps(exe[k], row) /\ Set(k, row)
                          /\ exe[k].status # "absent" /\ UNCHANGED <<day, plan, lastRun, saves>>
        <3>1. SoundRow(exe[k]) /\ exe[k].status # "absent"
            BY <2>1, Typed DEF TechStart, TechExecute, TechComplete, Executions
        <3>2. CASE TechStart(k, t) BY <3>1, <3>2, WorkedRow DEF TechStart
        <3>3. CASE TechExecute(k, t) BY <3>1, <3>3, WorkedRow DEF TechExecute
        <3>4. CASE TechComplete(k, t)
            <4> DEFINE mine == Opened(exe[k], t)
            <4>1. /\ SoundRow(mine) /\ mine.status # "absent" /\ Keeps(exe[k], mine)
                  /\ exe[k].wo = "pending_review" => mine = exe[k]
                BY <3>1, WorkedRow
            <4>2. Set(k, Completed(mine)) /\ UNCHANGED <<day, plan, lastRun, saves>>
                BY <3>4 DEF TechComplete
            <4> HIDE DEF mine
            <4>3. SoundRow(Completed(mine)) /\ Keeps(mine, Completed(mine))
                BY <4>1, CompletedRow
            <4>4. Keeps(exe[k], Completed(mine)) BY <4>1, <4>3 DEF Keeps
            <4> QED BY <3>1, <4>2, <4>3, <4>4
        <3> QED BY <2>1, <3>2, <3>3, <3>4
    <2>2. ASSUME \/ StartWork(k) \/ AssignOrder(k) \/ BlockersChange(k)
                 \/ PmWoDetail(k) \/ WorkOrderSubmit(k)
          PROVE  \E row : /\ SoundRow(row) /\ Keeps(exe[k], row) /\ Set(k, row)
                          /\ exe[k].status # "absent" /\ UNCHANGED <<day, plan, lastRun, saves>>
        <3>1. SoundRow(exe[k]) BY Typed
        <3>2. exe[k].status # "absent" /\ UNCHANGED <<day, plan, lastRun, saves>>
            BY <2>2, Typed DEF StartWork, AssignOrder, BlockersChange, PmWoDetail,
                               WorkOrderSubmit, Legal
        <3>3. CASE StartWork(k)
            BY <3>1, <3>2, <3>3, OrderRow DEF StartWork, Becomes
        <3>4. CASE AssignOrder(k)
            BY <3>1, <3>2, <3>4, OrderRow DEF AssignOrder, Becomes
        <3>5. CASE BlockersChange(k)
            BY <3>1, <3>2, <3>5, OrderRow DEF BlockersChange, Becomes
        <3>6. CASE PmWoDetail(k)
            BY <3>1, <3>2, <3>6, CompletedRow DEF PmWoDetail, Becomes
        <3>7. CASE WorkOrderSubmit(k)
            BY <3>1, <3>2, <3>7, CompletedRow DEF WorkOrderSubmit, Becomes
        <3> QED BY <2>2, <3>3, <3>4, <3>5, <3>6, <3>7
    <2> QED BY <2>1, <2>2 DEF Working
<1>1. GoodRows BY SetRow
<1> QED BY <1>1, SamePlans, Typed DEF GoodStep

\* What the managers decide.
LEMMA ReviewingStep ==
    ASSUME PreventiveIInv, NEW k \in Key, Reviewing(k)
    PROVE  GoodStep
<1>1. SoundRow(exe[k]) /\ exe[k].status # "absent"
    BY Typed DEF Reviewing, ReviewApprove, ReviewReturn, PmReviewApprove, PmReviewReject,
                 WorkOrderClose, Executions
<1>2. k[1] \in Plan BY Keys
<1>3. PICK row : /\ SoundRow(row) /\ Keeps(exe[k], row) /\ Set(k, row)
                 /\ UNCHANGED <<day, lastRun, saves>>
                 /\ Advance(k[1]) \/ UNCHANGED plan
    <2>1. CASE ReviewApprove(k) BY <1>1, <2>1, DecidedRow DEF ReviewApprove
    <2>2. CASE ReviewReturn(k) BY <1>1, <2>2, DecidedRow DEF ReviewReturn
    <2>3. CASE PmReviewApprove(k)
        BY <1>1, <2>3, ReviewedRow DEF PmReviewApprove, Becomes
    <2>4. CASE PmReviewReject(k)
        BY <1>1, <2>4, ReviewedRow DEF PmReviewReject, Becomes
    <2>5. ASSUME NEW approve \in BOOLEAN, WorkOrderClose(k, approve)
          PROVE  \E row : /\ SoundRow(row) /\ Keeps(exe[k], row) /\ Set(k, row)
                          /\ UNCHANGED <<day, plan, lastRun, saves>>
        BY <1>1, <2>5, ReviewedRow DEF WorkOrderClose, Becomes
    <2> QED BY <2>1, <2>2, <2>3, <2>4, <2>5 DEF Reviewing
<1>4. GoodPlans BY <1>2, <1>3, AdvancedPlan, SamePlans
<1>5. GoodRows BY <1>1, <1>3, SetRow
<1> QED BY <1>3, <1>4, <1>5, Typed DEF GoodStep

LEMMA EveryStep ==
    ASSUME PreventiveIInv, PreventiveNext
    PROVE  GoodStep
BY DailyStep, PlanningStep, AssigningStep, WorkingStep, ReviewingStep
   DEF PreventiveNext, Planning

-------------------------------------------------------------------------------
(***************************************************************************)
(* The theorems.                                                           *)
(***************************************************************************)
LEMMA GoodStepKeeps ==
    ASSUME PreventiveIInv, GoodStep
    PROVE  PreventiveIInv'
<1>1. \A k \in Key : k[1] \in Plan BY Keys
<1>2. ASSUME NEW k \in Key, exe'[k].status # "absent" PROVE plan'[k[1]].exists
    BY <1>1, <1>2, Typed DEF GoodStep, GoodRows, GoodPlans
<1>3. PreventiveTypeOK'
    BY <1>2 DEF GoodStep, GoodRows, GoodPlans, PreventiveTypeOK, Executions
<1> QED BY <1>3 DEF GoodStep, GoodRows, GoodPlans, PreventiveIInv

LEMMA StepKeeps ==
    ASSUME PreventiveIInv, [PreventiveNext]_mvars
    PROVE  PreventiveIInv'
<1>1. CASE UNCHANGED mvars
    BY <1>1 DEF mvars, PreventiveIInv, PreventiveTypeOK, Executions
<1>2. CASE PreventiveNext BY <1>2, EveryStep, GoodStepKeeps
<1> QED BY <1>1, <1>2

LEMMA PreventiveInvariance == PreventiveSpec => []PreventiveIInv
<1>1. PreventiveInit => PreventiveIInv
    <2> SUFFICES ASSUME PreventiveInit PROVE PreventiveIInv OBVIOUS
    <2>1. NoExecution \in ExecutionRow /\ SoundRow(NoExecution)
          /\ NoExecution.status = "absent"
        BY DEF NoExecution, SoundRow, ExecutionRow, Lifecycle
    <2>2. NoPlan \in PlanRow /\ ~ NoPlan.active BY DEF NoPlan, PlanRow
    <2>3. day \in Day /\ saves \in 0..MaxSaves /\ lastRun \in Day \cup {-1}
        BY PreventiveAssumption DEF PreventiveInit, Day
    <2>4. exe \in [Key -> ExecutionRow] /\ \A k \in Key : exe[k] = NoExecution
        BY <2>1 DEF PreventiveInit
    <2>5. plan \in [Plan -> PlanRow] /\ \A p \in Plan : plan[p] = NoPlan
        BY <2>2 DEF PreventiveInit
    <2> QED BY <2>1, <2>2, <2>3, <2>4, <2>5
            DEF PreventiveIInv, PreventiveTypeOK, Executions
<1> QED BY <1>1, StepKeeps, PTL DEF PreventiveSpec

\* Rows keep their types, what was returned is in hand, and the work of
\* today is on somebody's page, whichever of the two generations of pages is
\* used in which order.
THEOREM NothingOutOfSight == PreventiveSpec => []PreventiveInv
<1>1. PreventiveIInv => PreventiveInv
    <2> SUFFICES ASSUME PreventiveIInv PROVE PreventiveInv OBVIOUS
    <2>1. \A k \in Key : SoundRow(exe[k]) BY Typed
    <2>2. ReturnedIsInHand
        BY <2>1 DEF ReturnedIsInHand, InHand, Executions, SoundRow
    <2>3. TodayIsListed
        <3> SUFFICES ASSUME NEW k \in Today, Live(k), exe[k].wo \notin {"pending_review", "closed"},
                            k \notin TodayPool
                     PROVE  \E t \in Tech : k \in TodayMine(t)
            BY DEF TodayIsListed
        <3>1. SoundRow(exe[k]) BY <2>1 DEF Today, Executions
        <3>2. exe[k].wo = "none" \/ InHand(k)
            BY <3>1 DEF SoundRow, ExecutionRow, Lifecycle, InHand
        <3>3. exe[k].tech # NoTech BY <3>2 DEF TodayPool
        <3>4. exe[k].tech \in Tech /\ InHand(k)
            BY <3>1, <3>2, <3>3 DEF SoundRow, ExecutionRow
        <3> QED BY <3>4 DEF TodayMine
    <2> QED BY <2>2, <2>3 DEF PreventiveInv, PreventiveIInv
<1> QED BY <1>1, PreventiveInvariance, PTL

\* What waits for a review leaves the queue only approved, closed, returned and
\* counted, or, while its work order is paused, into somebody's hands by the
\* order's own start or assign page.
THEOREM ReviewsAreKept == PreventiveSpec => ReviewQueueKeeps
<1> DEFINE Stays == \A k \in Reviews :
                      \/ k \in Reviews'
                      \/ exe'[k].status = "approved"
                      \/ exe'[k].wo = "closed"
                      \/ exe'[k].returns > exe[k].returns
                      \/ exe[k].op = "paused" /\ InHand(k)'
<1>1. PreventiveIInv /\ [PreventiveNext]_mvars => [Stays]_mvars
    <2> SUFFICES ASSUME PreventiveIInv, PreventiveNext PROVE Stays OBVIOUS
    <2>1. \A k \in Key : Keeps(exe[k], exe'[k]) BY EveryStep DEF GoodStep, GoodRows
    <2>2. \A k \in Key : exe'[k].status = "submitted" /\ exe'[k].wo = "pending_review"
                           => k \in Reviews'
        BY DEF Reviews, Executions
    <2> QED BY <2>1, <2>2 DEF Reviews, Executions, Keeps, InHand
<1> QED BY <1>1, PreventiveInvariance, PTL DEF PreventiveSpec, ReviewQueueKeeps

\* Due dates move by whole periods from the old due date, for every period and
\* however late the approvals come.
THEOREM DueDatesDoNotDrift == PreventiveSpec => NoDrift
<1> DEFINE Steady == \A p \in Plan :
                       plan[p].exists /\ saves' = saves /\ plan'[p].due # plan[p].due
                         => plan'[p].due = plan[p].due + Every[p]
<1>1. PreventiveIInv /\ [PreventiveNext]_mvars => [Steady]_mvars
    <2> SUFFICES ASSUME PreventiveIInv, PreventiveNext PROVE Steady OBVIOUS
    <2> QED BY EveryStep DEF GoodStep, GoodPlans
<1> QED BY <1>1, PreventiveInvariance, PTL DEF PreventiveSpec, NoDrift
===============================================================================
