----------------------------- MODULE MCProcurement -----------------------------
(***************************************************************************)
(* TLC instances of Procurement: one work order, and two that compete for  *)
(* what is received, the second an emergency or of a higher priority; and  *)
(* the order of the queue as it is documented.                             *)
(***************************************************************************)
EXTENDS Procurement

CONSTANTS w1, w2

OneWorkOrder == {w1}
TwoWorkOrders == {w1, w2}
NoEmergency == {}
SecondIsEmergency == {w2}

\* The priority of the work orders, which no code of the queue reads: the older
\* one is NORMAL, the younger CRITICAL.
Rank == [w \in WO |-> IF w = w2 THEN 1 ELSE 3]

\* services_allocation.py:4, "Reallocation order is priority-ranked (Emergency >
\* CRITICAL > HIGH > NORMAL > LOW; oldest first as tiebreaker)", as ADR-0007:139
\* has it: among work orders that are no emergencies a line gains in a receipt
\* only when those of a higher priority lack nothing or hold a reservation.
PriorityRespected ==
    [][po' # po =>
         \A l, m \in Lines :
            /\ line'[l].allocated > line[l].allocated
            /\ {line[l].wo, line[m].wo} \cap Emergency = {}
            /\ Rank[line[m].wo] < Rank[line[l].wo]
            /\ line[m].status \in ActiveStatus
            /\ line[m].reserved = 0
            => line'[m].allocated >= line[m].approved]_pvars
===============================================================================
