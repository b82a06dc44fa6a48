----------------------------- MODULE MCPreventive -----------------------------
(***************************************************************************)
(* TLC instance of Preventive: one daily plan over a few days.             *)
(***************************************************************************)
EXTENDS Preventive

CONSTANTS p1, t1, nobody

OnePlan == {p1}
Daily == [p \in OnePlan |-> 1]
EndsLate == [p \in OnePlan |-> MaxDay]
OneTechnician == {t1}

\* Occurrences meet in pairs: on one day by their slots, or from one day to the
\* next.  One resubmitted after a return is followed alone.  A plan whose
\* next_due_at is not at due_time, and what was opened for it, is followed on the
\* first day until there is a second occurrence.
Resubmission == \E k \in Executions : exe[k].returns > MaxReturns
OffTime == \/ \E p \in Plan : plan[p].exists /\ ~ plan[p].onTime
           \/ \E k \in Executions : k[3] = AtNextDue
TwoOccurrences ==
    /\ Cardinality(Executions) <= IF Resubmission \/ OffTime THEN 1 ELSE 2
    /\ OffTime => day = 0
===============================================================================
