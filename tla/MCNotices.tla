------------------------------ MODULE MCNotices -------------------------------
(***************************************************************************)
(* A manager, a procurement officer and a technician, one work order, a    *)
(* plan whose due dates reach every stage from a week ahead to overdue.    *)
(***************************************************************************)
EXTENDS Notices, TLC

CONSTANTS m, p, t, b1, p1, w1, cron, web

Roles == (m :> "manager") @@ (p :> "procurement") @@ (t :> "technician")
Workers == Permutations({cron, web})
OneCase == {b1}
WorkOrderOf == [b \in OneCase |-> w1]
Technician == [b \in OneCase |-> t]
Boss == [b \in OneCase |-> m]
===============================================================================
