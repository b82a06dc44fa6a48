----------------------------- MODULE MCWorkOrders -----------------------------
(***************************************************************************)
(* TLC instances of WorkOrders, and what a test of the repository and a    *)
(* command's docstring say of it that the code does not do.                *)
(***************************************************************************)
EXTENDS WorkOrders, TLC

CONSTANTS w1, w2, w3, t1, t2, nobody

OneWorkOrder == {w1}
TwoWorkOrders == {w1, w2}
ThreeWorkOrders == {w1, w2, w3}
OneTechnician == {t1}
TwoTechnicians == {t1, t2}
NoEmergency == {}
SecondIsEmergency == {w2}
ThirdIsEmergency == {w3}
NothingStuck == {}
StuckChain == {<<w1, w2>>, <<w2, w3>>}

\* The technicians are interchangeable.
Technicians == Permutations(TwoTechnicians)

\* Work orders that pause each other and the repairs of one are taken in turn.
OrdersOrRepairs ==
    repair # <<>> => \A w \in WO \ {w1} : wo[w].lifecycle = "absent"

-------------------------------------------------------------------------------
\* maintenance/tests.py:1055, after an emergency is started:
\* assertEqual(other.operational_status, PAUSED).  transition_work_order asks
\* the row in memory whether the started work order blocks; its status is
\* still PAUSED there, so the blocker just opened on the other is resolved.
SwitchPausesOthers ==
    [][\A w \in WO :
         wo[w].lifecycle # "in_progress" /\ Start(w) =>
           \A o \in InProgressOf(wo[w].tech, w) : wo'[o].status # "active"]_wvars

\* reconcile_orphan_vendor_blockers.py:2, "Resolve orphan VENDOR_REPAIR blockers
\* whose underlying ERO is already RETURNED or CLOSED": a wait for a vendor is
\* resolved only when its own repair is back.  An approval attaches its order
\* to the first open blocker of the work order, and the command believes it.
VendorWaitEndsWithRepair ==
    [][\A r \in Repairs :
         repair[r].blocker = "open" /\ repair'[r].blocker = "resolved" =>
           repair'[r].ero \in {"returned", "closed"}]_wvars
===============================================================================
